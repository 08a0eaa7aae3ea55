---------------------------- MODULE Connections ----------------------------
(***************************************************************************)
(* The OAuth connections of packages/api/src/oauth-store.ts and the token  *)
(* endpoint of packages/api/src/server.ts: a person approves an            *)
(* application (a consent row), the application exchanges a code and then, *)
(* again and again, a refresh token, and somebody ends the connection.     *)
(*                                                                         *)
(* The unit of atomicity is the transaction, or the statement where two    *)
(* transactions meet on a row lock.  A renewal locks its refresh token     *)
(* (FOR UPDATE OF t) and then writes the consent; a revocation writes the  *)
(* consent and then deletes the refresh tokens: the two may deadlock, and  *)
(* PostgreSQL rolls one of them back.  The reads `whileAuthenticating`     *)
(* makes before a transaction only find the organization, and what they    *)
(* found is decided again inside it, so they are not steps of their own.   *)
(* Requests that change nothing (a token that is unknown, expired, of a    *)
(* revoked connection, or of a suspended person) are stuttering steps.     *)
(***************************************************************************)
EXTENDS Naturals, FiniteSets

CONSTANTS
  Conns,       \* rows of oauth_consents
  Admin,       \* the ones that are for the administrative surface if they act as a person
  Persons,     \* rows of users
  PersonOf,    \* the person who approves it (approved_by)
  Roles,       \* the roles a person may be given
  Codes,       \* authorization codes that may be approved
  Tokens,      \* refresh tokens that may be issued, in order
  Exchanges,   \* requests the token endpoint serves at once
  Enders,      \* revocations in progress at once
  None

ASSUME ConnectionsAssumption ==
  /\ Admin \subseteq Conns
  /\ PersonOf \in [Conns -> Persons]
  /\ "org_admin" \in Roles /\ Roles \subseteq {"member", "org_admin", "platform_admin"}
  /\ Tokens \subseteq Nat
  /\ None \notin Conns \cup Tokens \cup Exchanges \cup Enders
  /\ (Exchanges \cup Enders) \cap (Tokens \cup Conns) = {}
  /\ Exchanges \cap Enders = {}
  /\ IsFiniteSet(Tokens \cup Exchanges \cup Codes)

VARIABLES
  role,        \* users.role
  disabled,    \* users whose disabled_at is set
  agents,      \* the connections that act as a service account (acts_as), the others as a person
  keyRevoked,  \* agents whose service account is revoked
  consent,     \* "none", "live" or "revoked", as committed
  approving,   \* connections whose consent request has recorded and not yet issued its code
  code,        \* oauth_authorizations
  token,       \* oauth_refresh_tokens
  exchange,    \* requests at the token endpoint
  ending,      \* DELETE /v1/oauth/consents/<id> in progress
  ended        \* families a revocation, a replay or a crash has ended (history)

connVars == <<role, disabled, agents, keyRevoked, consent, approving, code, token,
              exchange, ending, ended>>

----------------------------------------------------------------------------

NoCode == [state |-> "none", conn |-> None]
NoToken == [state |-> "none", conn |-> None, fam |-> None, by |-> None]
Waiting == [pc |-> "idle", tok |-> None, conn |-> None, fam |-> None]
NotEnding == [pc |-> "idle", conn |-> None]

ConnInit ==
  /\ role = [u \in Persons |-> "org_admin"]
  /\ disabled = {}
  /\ agents \in SUBSET Conns
  /\ keyRevoked = {}
  /\ consent = [c \in Conns |-> "none"]
  /\ approving = {}
  /\ code = [k \in Codes |-> NoCode]
  /\ token = [t \in Tokens |-> NoToken]
  /\ exchange = [e \in Exchanges |-> Waiting]
  /\ ending = [r \in Enders |-> NotEnding]
  /\ ended = {}

(* The row of a consent is locked by the revocation that has written it.   *)
Locked(c) == \E r \in Enders : ending[r].pc # "idle" /\ ending[r].conn = c

(* Rows of oauth_refresh_tokens: present, and not spent.                    *)
Rows(c) == {t \in Tokens : token[t].conn = c /\ token[t].state \in {"unused", "expired", "used"}}
Family(f) == {t \in Tokens : token[t].fam = f /\ token[t].state \in {"unused", "expired", "used"}}

(* rotate's column `suspended`: the person is gone for now, or the          *)
(* connection is administrative and they administer no longer.              *)
Suspended(c) ==
  /\ c \notin agents
  /\ \/ PersonOf[c] \in disabled
     \/ role[PersonOf[c]] = "platform_admin"
     \/ c \in Admin /\ role[PersonOf[c]] # "org_admin"

(* rotate's column `revoked`.                                               *)
Revoked(c) == consent[c] = "revoked" \/ (c \in agents /\ c \in keyRevoked)

(* What authentication admits: Delegations.resolve and the checks of        *)
(* authenticate on the row it returns.  Read on every request, uncached.    *)
Admitted(c) == consent[c] = "live" /\ c \notin agents /\ ~Suspended(c)

----------------------------------------------------------------------------
(* People and service accounts change on their own.                         *)

(* An administrator changes a role, or disables or enables a person.        *)
ChangeUser(u, r, off) ==
  /\ role' = [role EXCEPT ![u] = r]
  /\ disabled' = IF off THEN disabled \cup {u} ELSE disabled \ {u}
  /\ UNCHANGED <<agents, keyRevoked, consent, approving, code, token, exchange, ending, ended>>

(* revoke of a service account: final.                                      *)
RevokeKey(c) ==
  /\ c \in agents \ keyRevoked
  /\ keyRevoked' = keyRevoked \cup {c}
  /\ UNCHANGED <<role, disabled, agents, consent, approving, code, token, exchange, ending, ended>>

----------------------------------------------------------------------------
(* POST /v1/oauth/consent: the connection first, then the code.             *)

(* consents.record: an upsert, which un-revokes the same row.  It waits for *)
(* a revocation that holds the row.  The role that is asked for is the one  *)
(* in the session's token, which may be older than the person's row: no     *)
(* guard on the row.                                                        *)
Record(c) ==
  /\ c \notin approving /\ ~Locked(c)
  /\ consent' = [consent EXCEPT ![c] = "live"]
  /\ approving' = approving \cup {c}
  /\ UNCHANGED <<role, disabled, agents, keyRevoked, code, token, exchange, ending, ended>>

(* authorizations.approve, in a transaction of its own.                     *)
Approve(c, k) ==
  /\ c \in approving /\ code[k] = NoCode
  /\ code' = [code EXCEPT ![k] = [state |-> "fresh", conn |-> c]]
  /\ approving' = approving \ {c}
  /\ UNCHANGED <<role, disabled, agents, keyRevoked, consent, token, exchange, ending, ended>>

(* The process dies between the two.                                        *)
ApproveLost(c) ==
  /\ c \in approving
  /\ approving' = approving \ {c}
  /\ UNCHANGED <<role, disabled, agents, keyRevoked, consent, code, token, exchange, ending, ended>>

CodeExpires(k) ==
  /\ code[k].state = "fresh"
  /\ code' = [code EXCEPT ![k].state = "expired"]
  /\ UNCHANGED <<role, disabled, agents, keyRevoked, consent, approving, token, exchange, ending, ended>>

----------------------------------------------------------------------------
(* POST /oauth/token.                                                       *)

(* Mutant of Consumed: the code stays.                                      *)
ConsumedNot(k) == code

Consumed(k) == [code EXCEPT ![k].state = "consumed"]

(* redeem: one UPDATE spends the code, whatever the verifier, the client    *)
(* and the redirect then say.  It does not read the consent's revoked_at.   *)
Redeem(e, k, matches) ==
  /\ exchange[e] = Waiting /\ code[k].state = "fresh"
  /\ code' = Consumed(k)
  /\ exchange' = IF matches
                 THEN [exchange EXCEPT ![e] = [Waiting EXCEPT !.pc = "issue", !.conn = code[k].conn]]
                 ELSE exchange
  /\ UNCHANGED <<role, disabled, agents, keyRevoked, consent, approving, token, ending, ended>>

(* rotate, the row locked and read: it may go on.                           *)
RotateRead(e, t) ==
  /\ exchange[e] = Waiting
  /\ token[t].state = "unused" /\ token[t].by = None
  /\ ~Revoked(token[t].conn) /\ ~Suspended(token[t].conn)
  /\ token' = [token EXCEPT ![t].by = e]
  /\ exchange' = [exchange EXCEPT ![e] = [pc |-> "locked", tok |-> t, conn |-> token[t].conn, fam |-> token[t].fam]]
  /\ UNCHANGED <<role, disabled, agents, keyRevoked, consent, approving, code, ending, ended>>

Deleted(ts) == [t \in Tokens |-> IF t \in ts THEN [token[t] EXCEPT !.state = "deleted", !.by = None]
                                             ELSE token[t]]

(* rotate, the row locked and already spent: a replay, and the family goes. *)
RotateReplay(e, t) ==
  /\ exchange[e] = Waiting
  /\ token[t].state = "used"
  /\ \A s \in Family(token[t].fam) : token[s].by = None
  /\ token' = Deleted(Family(token[t].fam))
  /\ ended' = ended \cup {token[t].fam}
  /\ UNCHANGED <<role, disabled, agents, keyRevoked, consent, approving, code, exchange, ending>>

(* Mutant of Spent: the token is not marked.                                *)
SpentNot(t) == [token EXCEPT ![t].by = None]

Spent(t) == [token EXCEPT ![t].state = "used", ![t].by = None]

(* rotate, the spending and the consent's last_refreshed_at, committed.  It *)
(* waits for a revocation that holds the consent.                           *)
RotateSpend(e) ==
  /\ exchange[e].pc = "locked" /\ ~Locked(exchange[e].conn)
  /\ token' = Spent(exchange[e].tok)
  /\ exchange' = [exchange EXCEPT ![e].pc = "issue", ![e].tok = None]
  /\ UNCHANGED <<role, disabled, agents, keyRevoked, consent, approving, code, ending, ended>>

(* Mutant of FamilyFor: no new family for a code's first token.             *)
FamilyForKept(e, t) == exchange[e].fam

FamilyFor(e, t) == IF exchange[e].fam = None THEN t ELSE exchange[e].fam

(* refreshTokens.issue: an INSERT in a transaction of its own, into the     *)
(* same family or, for a code, a new one.  It reads no consent.             *)
Issue(e, t) ==
  /\ exchange[e].pc = "issue"
  /\ token[t] = NoToken /\ \A s \in Tokens : s < t => token[s] # NoToken
  /\ token' = [token EXCEPT ![t] = [state |-> "unused", conn |-> exchange[e].conn, by |-> None,
                                    fam |-> FamilyFor(e, t)]]
  /\ exchange' = [exchange EXCEPT ![e] = Waiting]
  /\ UNCHANGED <<role, disabled, agents, keyRevoked, consent, approving, code, ending, ended>>

(* The process dies.  A transaction in progress rolls back; what was        *)
(* committed before the INSERT stays spent, with no heir.                   *)
ExchangeLost(e) ==
  /\ exchange[e].pc # "idle"
  /\ token' = IF exchange[e].pc = "locked" THEN [token EXCEPT ![exchange[e].tok].by = None] ELSE token
  /\ ended' = IF exchange[e].pc = "issue" /\ exchange[e].fam # None THEN ended \cup {exchange[e].fam} ELSE ended
  /\ exchange' = [exchange EXCEPT ![e] = Waiting]
  /\ UNCHANGED <<role, disabled, agents, keyRevoked, consent, approving, code, ending>>

TokenExpires(t) ==
  /\ token[t].state = "unused" /\ token[t].by = None
  /\ token' = [token EXCEPT ![t].state = "expired"]
  /\ UNCHANGED <<role, disabled, agents, keyRevoked, consent, approving, code, exchange, ending, ended>>

----------------------------------------------------------------------------
(* consents.revoke, one transaction: the consent, the refresh tokens, the   *)
(* proposals.                                                               *)

RevokeMark(r, c) ==
  /\ ending[r] = NotEnding /\ consent[c] = "live" /\ ~Locked(c)
  /\ ending' = [ending EXCEPT ![r] = [pc |-> "marked", conn |-> c]]
  /\ UNCHANGED <<role, disabled, agents, keyRevoked, consent, approving, code, token, exchange, ended>>

(* The DELETE, which waits for the rows a renewal has locked.  Rows         *)
(* inserted after it are not among the ones it removes.                     *)
RevokeTokens(r) ==
  /\ ending[r].pc = "marked"
  /\ \A t \in Rows(ending[r].conn) : token[t].by = None
  /\ token' = [t \in Tokens |-> IF t \in Rows(ending[r].conn) THEN [token[t] EXCEPT !.by = r] ELSE token[t]]
  /\ ending' = [ending EXCEPT ![r].pc = "deleted"]
  /\ UNCHANGED <<role, disabled, agents, keyRevoked, consent, approving, code, exchange, ended>>

Held(r) == {t \in Tokens : token[t].by = r}

RevokeCommit(r) ==
  /\ ending[r].pc = "deleted"
  /\ consent' = [consent EXCEPT ![ending[r].conn] = "revoked"]
  /\ token' = Deleted(Held(r))
  /\ ended' = ended \cup {token[t].fam : t \in {s \in Tokens : token[s].conn = ending[r].conn}}
                    \cup ({exchange[e].fam : e \in {x \in Exchanges : exchange[x].conn = ending[r].conn}} \ {None})
  /\ ending' = [ending EXCEPT ![r] = NotEnding]
  /\ UNCHANGED <<role, disabled, agents, keyRevoked, approving, code, exchange>>

(* It rolls back: the process dies, or it loses a deadlock.                 *)
RevokeLost(r) ==
  /\ ending[r].pc # "idle"
  /\ token' = [t \in Tokens |-> IF token[t].by = r THEN [token[t] EXCEPT !.by = None] ELSE token[t]]
  /\ ending' = [ending EXCEPT ![r] = NotEnding]
  /\ UNCHANGED <<role, disabled, agents, keyRevoked, consent, approving, code, exchange, ended>>

----------------------------------------------------------------------------

(* The steps that leave the proposals of a connection alone.                *)
ConnStep ==
  \/ \E u \in Persons, r \in Roles, off \in BOOLEAN : ChangeUser(u, r, off)
  \/ \E c \in Conns : RevokeKey(c) \/ Record(c) \/ ApproveLost(c) \/ \E k \in Codes : Approve(c, k)
  \/ \E k \in Codes : CodeExpires(k) \/ \E e \in Exchanges, ok \in BOOLEAN : Redeem(e, k, ok)
  \/ \E e \in Exchanges : RotateSpend(e) \/ ExchangeLost(e)
  \/ \E e \in Exchanges, t \in Tokens : RotateRead(e, t) \/ RotateReplay(e, t) \/ Issue(e, t)
  \/ \E t \in Tokens : TokenExpires(t)
  \/ \E r \in Enders, c \in Conns : RevokeMark(r, c)

----------------------------------------------------------------------------

(* The rows of consents, codes and tokens, and the requests on them, hold   *)
(* values of their columns.                                                 *)
ConnTypeOK ==
  /\ role \in [Persons -> Roles]
  /\ disabled \subseteq Persons
  /\ agents \subseteq Conns
  /\ keyRevoked \subseteq agents
  /\ consent \in [Conns -> {"none", "live", "revoked"}]
  /\ approving \subseteq Conns
  /\ code \in [Codes -> [state: {"fresh", "consumed", "expired"}, conn: Conns] \cup {NoCode}]
  /\ token \in [Tokens -> [state: {"unused", "expired", "used", "deleted"}, conn: Conns, fam: Tokens,
                           by: Exchanges \cup Enders \cup {None}] \cup {NoToken}]
  /\ exchange \in [Exchanges -> [pc: {"locked", "issue"}, tok: Tokens \cup {None}, conn: Conns,
                                 fam: Tokens \cup {None}] \cup {Waiting}]
  /\ ending \in [Enders -> [pc: {"marked", "deleted"}, conn: Conns] \cup {NotEnding}]
  /\ ended \subseteq Tokens

(* The heirs of a family: what may still be exchanged for its next token,   *)
(* and the requests that hold that exchange already.                        *)
Heirs(f) ==
  {t \in Tokens : token[t].fam = f /\ token[t].state \in {"unused", "expired"}}
  \cup {e \in Exchanges : exchange[e].pc = "issue" /\ exchange[e].fam = f}

(* A family of refresh tokens never forks: however renewals, replays,       *)
(* revocations, deadlocks and crashes interleave, at most one unspent token *)
(* (or the one request about to store it) descends from a code.  And it is  *)
(* never lost by anything else than a revocation, a replay or a crash: a    *)
(* person disabled or demoted and then restored, or a renewal rolled back   *)
(* by a deadlock, leaves the application a token that works.                *)
OneHeir ==
  \A f \in {token[t].fam : t \in Tokens} \ {None} :
    /\ \A g, h \in Heirs(f) : g = h
    /\ f \notin ended => Heirs(f) # {}

(* What a connection may still be renewed with.                             *)
Renewals(c) ==
  Cardinality({t \in Tokens : token[t].conn = c /\ token[t].state \in {"unused", "expired"}})
  + Cardinality({e \in Exchanges : exchange[e].pc = "issue" /\ exchange[e].conn = c})
  + Cardinality({k \in Codes : code[k].state = "fresh" /\ code[k].conn = c})
  + Cardinality(approving \cap {c})

(* While a connection stays revoked it only loses ways to be renewed: a     *)
(* code or a renewal that was under way when it was ended may still leave   *)
(* one token behind, but no token or code begets two.                       *)
RevokedOnlyWanes ==
  [][\A c \in Conns : consent[c] = "revoked" /\ consent'[c] = "revoked" => Renewals(c)' <= Renewals(c)]_connVars

(* "The refresh tokens go with it, in the same transaction": an ended       *)
(* connection holds no refresh token.                                       *)
EndedHoldsNoToken ==
  \A c \in Conns : consent[c] = "revoked" => Rows(c) = {}
============================================================================
