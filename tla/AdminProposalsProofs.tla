------------------------ MODULE AdminProposalsProofs -----------------------
(***************************************************************************)
(* Proofs about Connections and AdminProposals, for any number of          *)
(* connections, codes, tokens, requests, revocations and proposals.        *)
(*                                                                         *)
(* ConnInv is OneHeir strengthened by what the locks guarantee: a renewal  *)
(* that has read its token still finds it unused and its own when it       *)
(* spends it (HoldsToken), what a revocation has deleted and not committed *)
(* is of its own connection, so every family it empties is recorded as     *)
(* ended (HeldByEnder), and a family is named after a token that is of it, *)
(* so a new family is one that nothing was of (FamiliesExist).             *)
(* PropInv is RunsOnce with what a request that has claimed a proposal     *)
(* relies on.  RevokedOnlyWanes follows step by step from ConnInv: each    *)
(* step adds no way of renewal, or passes one on.                          *)
(***************************************************************************)
EXTENDS AdminProposals, FiniteSetTheorems, TLAPS

(* The rows there are, without the empty ones.                              *)
TokenRow == [state: {"unused", "expired", "used", "deleted"}, conn: Conns, fam: Tokens,
             by: Exchanges \cup Enders \cup {None}]
ExchangeRow == [pc: {"locked", "issue"}, tok: Tokens \cup {None}, conn: Conns, fam: Tokens \cup {None}]
EndingRow == [pc: {"marked", "deleted"}, conn: Conns]
CodeRow == [state: {"fresh", "consumed", "expired"}, conn: Conns]

(* A renewal between its read and its spending has its token locked, unused *)
(* and of the family it read.                                               *)
HoldsToken(e) ==
  exchange[e].pc = "locked" =>
    /\ exchange[e].tok \in Tokens
    /\ token[exchange[e].tok].by = e /\ token[exchange[e].tok].state = "unused"
    /\ token[exchange[e].tok].fam = exchange[e].fam /\ token[exchange[e].tok].conn = exchange[e].conn

(* A token a revocation has deleted and not committed is of its connection. *)
HeldByEnder(t) ==
  token[t].by \in Enders =>
    ending[token[t].by].pc = "deleted" /\ token[t].conn = ending[token[t].by].conn

(* A family is named after its first token, which is of it.                 *)
FamiliesExist ==
  /\ \A t \in Tokens : token[t].fam # None => token[token[t].fam].fam = token[t].fam
  /\ \A e \in Exchanges : exchange[e].fam # None => token[exchange[e].fam].fam = exchange[e].fam

ConnInv ==
  /\ ConnTypeOK
  /\ \A e \in Exchanges : HoldsToken(e)
  /\ \A t \in Tokens : HeldByEnder(t)
  /\ FamiliesExist
  /\ OneHeir

(* The steps of connections, a revocation's own statements included.        *)
ConnAction ==
  \/ ConnStep
  \/ \E r \in Enders : RevokeTokens(r) \/ RevokeCommit(r) \/ RevokeLost(r)

----------------------------------------------------------------------------
(* What the columns of a row may be.                                        *)

(* A token is a row or there is none.                                       *)
LEMMA TokenAt ==
  ASSUME ConnTypeOK, NEW t \in Tokens
  PROVE  /\ token[t] \in TokenRow \/ token[t] = NoToken
         /\ token[t].state # "none" => token[t] \in TokenRow
         /\ token[t].by # None => token[t] \in TokenRow
         /\ token[t] \in TokenRow => /\ token[t].state \in {"unused", "expired", "used", "deleted"}
                                     /\ token[t].conn \in Conns /\ token[t].fam \in Tokens
                                     /\ token[t].by \in Exchanges \cup Enders \cup {None}
         /\ token[t] = NoToken => /\ token[t].state = "none" /\ token[t].by = None
                                  /\ token[t].fam = None /\ token[t].conn = None
<1>1. token[t] \in TokenRow \/ token[t] = NoToken
  BY DEF ConnTypeOK, TokenRow
<1> QED
  BY <1>1 DEF TokenRow, NoToken

(* The same for a request at the token endpoint.                            *)
LEMMA ExchangeAt ==
  ASSUME ConnTypeOK, NEW e \in Exchanges
  PROVE  /\ exchange[e].pc # "idle" => exchange[e] \in ExchangeRow
         /\ exchange[e].pc # "idle" => exchange[e].conn \in Conns /\ exchange[e].pc \in {"locked", "issue"}
         /\ exchange[e].fam \in Tokens \cup {None} /\ exchange[e].tok \in Tokens \cup {None}
         /\ exchange[e] = Waiting => exchange[e].pc = "idle" /\ exchange[e].fam = None /\ exchange[e].conn = None
         /\ exchange[e].pc = "idle" => exchange[e] = Waiting
<1>1. exchange[e] \in ExchangeRow \/ exchange[e] = Waiting
  BY DEF ConnTypeOK, ExchangeRow
<1> QED
  BY <1>1 DEF ExchangeRow, Waiting

(* The same for a revocation in progress.                                   *)
LEMMA EndingAt ==
  ASSUME ConnTypeOK, NEW r \in Enders
  PROVE  /\ ending[r].pc # "idle" => ending[r] \in EndingRow /\ ending[r].conn \in Conns
         /\ ending[r] = NotEnding => ending[r].pc = "idle"
<1>1. ending[r] \in EndingRow \/ ending[r] = NotEnding
  BY DEF ConnTypeOK, EndingRow
<1> QED
  BY <1>1 DEF EndingRow, NotEnding

(* A token's row changes state or holder.                                   *)
LEMMA TokenEdit ==
  ASSUME NEW q \in TokenRow, NEW s \in {"unused", "expired", "used", "deleted"},
         NEW b \in Exchanges \cup Enders \cup {None}
  PROVE  /\ [q EXCEPT !.by = b] \in TokenRow /\ [q EXCEPT !.by = b].by = b /\ [q EXCEPT !.by = b].state = q.state
         /\ [q EXCEPT !.by = b].fam = q.fam /\ [q EXCEPT !.by = b].conn = q.conn
         /\ [q EXCEPT !.state = s] \in TokenRow /\ [q EXCEPT !.state = s].by = q.by /\ [q EXCEPT !.state = s].state = s
         /\ [q EXCEPT !.state = s].fam = q.fam /\ [q EXCEPT !.state = s].conn = q.conn
         /\ [q EXCEPT !.state = s, !.by = None] \in TokenRow /\ [q EXCEPT !.state = s, !.by = None].by = None
         /\ [q EXCEPT !.state = s, !.by = None].state = s
         /\ [q EXCEPT !.state = s, !.by = None].fam = q.fam /\ [q EXCEPT !.state = s, !.by = None].conn = q.conn
  BY DEF TokenRow

(* Tokens only change state and holder, and are all still there.            *)
SameFamilies(S) ==
  /\ token' \in [Tokens -> TokenRow \cup {NoToken}]
  /\ \A t \in Tokens : /\ token'[t].fam = token[t].fam /\ token'[t].conn = token[t].conn
                       /\ (token'[t].state = "none") <=> (token[t].state = "none")
  /\ \A t \in Tokens \ S : token'[t] = token[t]

(* Rows are marked by who holds them.                                       *)
LEMMA MarkedTokens ==
  ASSUME ConnTypeOK, NEW S \in SUBSET Tokens, \A t \in S : token[t].state # "none",
         NEW b \in Exchanges \cup Enders \cup {None},
         token' = [t \in Tokens |-> IF t \in S THEN [token[t] EXCEPT !.by = b] ELSE token[t]]
  PROVE  SameFamilies(S) /\ \A t \in S : token'[t].by = b /\ token'[t].state = token[t].state
<1>1. ASSUME NEW t \in S
      PROVE  /\ token'[t] \in TokenRow /\ token'[t].by = b /\ token'[t].state = token[t].state
             /\ token'[t].fam = token[t].fam /\ token'[t].conn = token[t].conn
  <2>1. token[t] \in TokenRow
    BY TokenAt
  <2>2. token'[t] = [token[t] EXCEPT !.by = b]
    OBVIOUS
  <2> QED
    BY <2>1, <2>2 DEF TokenRow
<1>2. \A t \in Tokens \ S : token'[t] = token[t] /\ token'[t] \in TokenRow \cup {NoToken}
  BY TokenAt
<1> QED
  BY <1>1, <1>2 DEF SameFamilies

(* Rows are deleted.                                                        *)
LEMMA DeletedTokens ==
  ASSUME ConnTypeOK, NEW S \in SUBSET Tokens, \A t \in S : token[t].state # "none", token' = Deleted(S)
  PROVE  SameFamilies(S) /\ \A t \in S : token'[t].by = None /\ token'[t].state = "deleted"
<1>1. ASSUME NEW t \in S
      PROVE  /\ token'[t] \in TokenRow /\ token'[t].by = None /\ token'[t].state = "deleted"
             /\ token'[t].fam = token[t].fam /\ token'[t].conn = token[t].conn
  <2>1. token[t] \in TokenRow
    BY TokenAt
  <2>2. token'[t] = [token[t] EXCEPT !.state = "deleted", !.by = None]
    BY DEF Deleted
  <2> QED
    BY <2>1, <2>2 DEF TokenRow
<1>2. \A t \in Tokens \ S : token'[t] = token[t] /\ token'[t] \in TokenRow \cup {NoToken}
  BY TokenAt DEF Deleted
<1> QED
  BY <1>1, <1>2 DEF SameFamilies, Deleted

(* One row changes state, and is left by its holder.                        *)
LEMMA ChangedToken ==
  ASSUME ConnTypeOK, NEW t \in Tokens, token[t].state # "none", NEW q,
         \/ q = [token[t] EXCEPT !.state = "used", !.by = None]
         \/ q = [token[t] EXCEPT !.state = "expired"] /\ token[t].by = None,
         token' = [token EXCEPT ![t] = q]
  PROVE  /\ SameFamilies({t}) /\ token'[t].by = None
         /\ token'[t].state = "used" \/ (token'[t].state = "expired" /\ q = [token[t] EXCEPT !.state = "expired"])
<1>1. token[t] \in TokenRow
  BY TokenAt
<1>2. q \in TokenRow /\ q.by = None /\ q.fam = token[t].fam /\ q.conn = token[t].conn
      /\ (q.state = "used" \/ (q.state = "expired" /\ q = [token[t] EXCEPT !.state = "expired"]))
  BY <1>1 DEF TokenRow
<1>3. token'[t] = q /\ \A s \in Tokens \ {t} : token'[s] = token[s] /\ token'[s] \in TokenRow \cup {NoToken}
  BY TokenAt DEF ConnTypeOK
<1>4. q.state # "none"
  BY <1>2
<1>5. token' \in [Tokens -> TokenRow \cup {NoToken}]
  BY <1>2, <1>3 DEF ConnTypeOK
<1> QED
  BY <1>2, <1>3, <1>4, <1>5 DEF SameFamilies

(* An unspent token, or a request that holds an exchange already.           *)
Unspent(t, f) == token[t].fam = f /\ token[t].state \in {"unused", "expired"}
Holding(e, f) == exchange[e].pc = "issue" /\ exchange[e].fam = f

(* One heir for one family.                                                 *)
OneHeirOf(f) ==
  /\ \A g, h \in Heirs(f) : g = h
  /\ f \notin ended => Heirs(f) # {}

(* A family is one of tokens, and OneHeir is about each of them.            *)
LEMMA FamilyAt ==
  ASSUME ConnTypeOK, NEW t \in Tokens, token[t].fam # None
  PROVE  token[t].fam \in Tokens /\ (OneHeir => OneHeirOf(token[t].fam))
<1>1. token[t].fam \in Tokens
  BY TokenAt
<1> QED
  BY <1>1 DEF OneHeir, OneHeirOf

(* OneHeir after a step, family by family.                                  *)
LEMMA OneHeirAfter ==
  ASSUME \A t \in Tokens : token'[t].fam \in Tokens \cup {None},
         \A t, f \in Tokens : token'[t].fam = f => OneHeirOf(f)'
  PROVE  OneHeir'
<1>1. ASSUME NEW f \in {token'[t].fam : t \in Tokens} \ {None}
      PROVE  OneHeirOf(f)'
  OBVIOUS
<1> QED
  BY <1>1 DEF OneHeir, OneHeirOf

(* A family keeps its heirs, or loses them and is ended.                    *)
LEMMA HeirsKept ==
  ASSUME NEW f, OneHeirOf(f), ended \subseteq ended',
         \/ Heirs(f)' = Heirs(f)
         \/ Heirs(f)' \subseteq Heirs(f) /\ f \in ended'
  PROVE  OneHeirOf(f)'
  BY DEF OneHeirOf

(* No heir changes hands.                                                   *)
HeirsStay(f) ==
  /\ \A t \in Tokens : Unspent(t, f)' <=> Unspent(t, f)
  /\ \A e \in Exchanges : Holding(e, f)' <=> Holding(e, f)
HeirsGo(f) ==
  /\ f \in ended'
  /\ \A t \in Tokens : Unspent(t, f)' => Unspent(t, f)
  /\ \A e \in Exchanges : Holding(e, f)' => Holding(e, f)

(* A step that neither adds a token nor moves an heir keeps OneHeir.        *)
LEMMA HeirsFrame ==
  ASSUME ConnTypeOK, OneHeir, ended \subseteq ended',
         \A t \in Tokens : token'[t].fam = token[t].fam,
         \A f \in Tokens : HeirsStay(f) \/ HeirsGo(f)
  PROVE  OneHeir'
<1>1. ASSUME NEW t \in Tokens, NEW f \in Tokens, token'[t].fam = f
      PROVE  OneHeirOf(f)'
  <2>1. f # None /\ token[t].fam = f
    BY <1>1, ConnectionsAssumption
  <2>2. OneHeirOf(f)
    BY <2>1, FamilyAt
  <2>3. CASE HeirsStay(f)
    <3>1. Heirs(f)' = Heirs(f)
      BY <2>3 DEF Heirs, HeirsStay, Unspent, Holding
    <3> QED
      BY <2>2, <3>1, HeirsKept
  <2>4. CASE HeirsGo(f)
    <3>1. Heirs(f)' \subseteq Heirs(f) /\ f \in ended'
      BY <2>4 DEF Heirs, HeirsGo, Unspent, Holding
    <3> QED
      BY <2>2, <3>1, HeirsKept
  <2> QED
    BY <2>3, <2>4
<1>2. \A t \in Tokens : token'[t].fam \in Tokens \cup {None}
  BY TokenAt
<1> QED
  BY <1>1, <1>2, OneHeirAfter

(* Families go on being named after their first token.                      *)
LEMMA FamiliesFrame ==
  ASSUME ConnTypeOK, FamiliesExist, \A t \in Tokens : token'[t].fam = token[t].fam,
         \A e \in Exchanges : \/ exchange'[e].fam = None
                              \/ exchange'[e].fam = exchange[e].fam
                              \/ \E t \in Tokens : exchange'[e].fam = token[t].fam
  PROVE  FamiliesExist'
<1>1. ASSUME NEW t \in Tokens, token'[t].fam # None
      PROVE  token'[token'[t].fam].fam = token'[t].fam
  <2>1. token[t].fam \in Tokens /\ token[token[t].fam].fam = token[t].fam
    BY <1>1, TokenAt DEF FamiliesExist
  <2> QED
    BY <2>1
<1>2. ASSUME NEW e \in Exchanges, exchange'[e].fam # None
      PROVE  token'[exchange'[e].fam].fam = exchange'[e].fam
  <2>1. exchange[e].fam \in Tokens \cup {None} /\ \A t \in Tokens : token[t].fam \in Tokens \cup {None}
    BY TokenAt, ExchangeAt
  <2>2. exchange'[e].fam \in Tokens /\ token[exchange'[e].fam].fam = exchange'[e].fam
    BY <1>2, <2>1 DEF FamiliesExist
  <2> QED
    BY <2>2
<1> QED
  BY <1>1, <1>2 DEF FamiliesExist

(* A renewal that goes on holding its token.                                *)
LEMMA HoldsFrame ==
  ASSUME NEW e \in Exchanges, HoldsToken(e), exchange'[e] = exchange[e],
         exchange[e].pc = "locked" => token'[exchange[e].tok] = token[exchange[e].tok]
  PROVE  HoldsToken(e)'
  BY DEF HoldsToken

(* A token that a revocation goes on holding.                               *)
LEMMA HeldFrame ==
  ASSUME NEW t \in Tokens, HeldByEnder(t), token'[t].by = token[t].by, token'[t].conn = token[t].conn,
         token[t].by \in Enders => ending'[token[t].by] = ending[token[t].by]
  PROVE  HeldByEnder(t)'
  BY DEF HeldByEnder

(* Steps that leave tokens, exchanges and revocations alone.                *)
LEMMA TokensAlone ==
  ASSUME ConnInv, ConnTypeOK', UNCHANGED <<token, exchange, ending, ended>>
  PROVE  ConnInv'
<1>1. \A e \in Exchanges : HoldsToken(e)'
  BY DEF ConnInv, HoldsToken
<1>2. \A t \in Tokens : HeldByEnder(t)'
  BY DEF ConnInv, HeldByEnder
<1>3. FamiliesExist'
  BY DEF ConnInv, FamiliesExist
<1>4. \A f : Heirs(f)' = Heirs(f)
  BY DEF Heirs
<1>5. OneHeir'
  BY <1>4 DEF ConnInv, OneHeir
<1> QED
  BY <1>1, <1>2, <1>3, <1>5 DEF ConnInv

(* People, service accounts and approvals.                                  *)
LEMMA ApprovalKeeps ==
  ASSUME ConnInv,
         \/ \E u \in Persons, r \in Roles, off \in BOOLEAN : ChangeUser(u, r, off)
         \/ \E c \in Conns : RevokeKey(c) \/ Record(c) \/ ApproveLost(c) \/ \E k \in Codes : Approve(c, k)
         \/ \E k \in Codes : CodeExpires(k)
  PROVE  ConnInv'
<1>0. ConnTypeOK
  BY DEF ConnInv
<1>1. ASSUME NEW u \in Persons, NEW r \in Roles, NEW off \in BOOLEAN, ChangeUser(u, r, off)
      PROVE  ConnTypeOK' /\ UNCHANGED <<token, exchange, ending, ended>>
  BY <1>0, <1>1 DEF ConnTypeOK, ChangeUser
<1>2. ASSUME NEW c \in Conns, RevokeKey(c) \/ Record(c) \/ ApproveLost(c)
      PROVE  ConnTypeOK' /\ UNCHANGED <<token, exchange, ending, ended>>
  BY <1>0, <1>2 DEF ConnTypeOK, RevokeKey, Record, ApproveLost
<1>3. ASSUME NEW c \in Conns, NEW k \in Codes, Approve(c, k)
      PROVE  ConnTypeOK' /\ UNCHANGED <<token, exchange, ending, ended>>
  BY <1>0, <1>3 DEF ConnTypeOK, Approve
<1>4. ASSUME NEW k \in Codes, CodeExpires(k)
      PROVE  ConnTypeOK' /\ UNCHANGED <<token, exchange, ending, ended>>
  <2>1. code[k] \in CodeRow
    BY <1>0, <1>4 DEF ConnTypeOK, CodeExpires, CodeRow, NoCode
  <2>2. PICK q : q = [code[k] EXCEPT !.state = "expired"]
    OBVIOUS
  <2>3. q \in CodeRow
    BY <2>1, <2>2 DEF CodeRow
  <2>4. code' = [code EXCEPT ![k] = q]
    BY <1>4, <2>2 DEF CodeExpires
  <2>5. code' \in [Codes -> CodeRow \cup {NoCode}]
    BY <1>0, <2>3, <2>4 DEF ConnTypeOK, CodeRow
  <2> QED
    BY <1>0, <1>4, <2>5 DEF ConnTypeOK, CodeExpires, CodeRow
<1> QED
  BY <1>1, <1>2, <1>3, <1>4, TokensAlone

(* A code is exchanged: the request holds no family yet.                    *)
LEMMA RedeemKeeps ==
  ASSUME ConnInv, NEW e \in Exchanges, NEW k \in Codes, NEW ok \in BOOLEAN, Redeem(e, k, ok)
  PROVE  ConnInv'
<1>0. ConnTypeOK /\ token' = token /\ ending' = ending /\ ended' = ended /\ exchange[e] = Waiting
  BY DEF ConnInv, Redeem
<1>1. code[k] \in CodeRow
  BY <1>0 DEF ConnTypeOK, Redeem, CodeRow, NoCode
<1>2. PICK x : x = [Waiting EXCEPT !.pc = "issue", !.conn = code[k].conn]
  OBVIOUS
<1>3. x \in ExchangeRow /\ x.pc = "issue" /\ x.fam = None
  BY <1>1, <1>2 DEF ExchangeRow, CodeRow, Waiting
<1>4. exchange' = exchange \/ exchange' = [exchange EXCEPT ![e] = x]
  BY <1>2 DEF Redeem
<1>5. /\ exchange'[e] = Waiting \/ exchange'[e] = x
      /\ \A s \in Exchanges \ {e} : exchange'[s] = exchange[s]
      /\ exchange' \in [Exchanges -> ExchangeRow \cup {Waiting}]
  BY <1>0, <1>3, <1>4 DEF ConnTypeOK, ExchangeRow
<1>6. Waiting.pc = "idle" /\ Waiting.fam = None
  BY DEF Waiting
<1>7. PICK q : q = [code[k] EXCEPT !.state = "consumed"]
  OBVIOUS
<1>8. q \in CodeRow
  BY <1>1, <1>7 DEF CodeRow
<1>9. code' = [code EXCEPT ![k] = q]
  BY <1>7 DEF Redeem, Consumed
<1>10. code' \in [Codes -> CodeRow \cup {NoCode}]
  BY <1>0, <1>8, <1>9 DEF ConnTypeOK, CodeRow
<1>11. ConnTypeOK'
  BY <1>0, <1>5, <1>10 DEF ConnTypeOK, Redeem, CodeRow, ExchangeRow
<1>12. ASSUME NEW s \in Exchanges
       PROVE  HoldsToken(s)'
  <2>1. CASE s = e
    BY <1>3, <1>5, <1>6, <2>1 DEF HoldsToken
  <2>2. CASE s # e
    BY <1>0, <1>5, <2>2, HoldsFrame DEF ConnInv
  <2> QED
    BY <2>1, <2>2
<1>13. \A t \in Tokens : HeldByEnder(t)'
  BY <1>0 DEF ConnInv, HeldByEnder
<1>14. \A s \in Exchanges : exchange'[s].fam = None \/ exchange'[s].fam = exchange[s].fam
  BY <1>3, <1>5, <1>6
<1>15. FamiliesExist'
  BY <1>0, <1>14, FamiliesFrame DEF ConnInv
<1>16. \A f \in Tokens : HeirsStay(f)
  BY <1>0, <1>3, <1>5, <1>6, ConnectionsAssumption DEF HeirsStay, Unspent, Holding
<1>17. OneHeir'
  BY <1>0, <1>16, HeirsFrame DEF ConnInv
<1> QED
  BY <1>11, <1>12, <1>13, <1>15, <1>17 DEF ConnInv

(* A renewal locks its row.                                                 *)
LEMMA RotateReadKeeps ==
  ASSUME ConnInv, NEW e \in Exchanges, NEW t \in Tokens, RotateRead(e, t)
  PROVE  ConnInv'
<1>0. /\ ConnTypeOK /\ ending' = ending /\ ended' = ended /\ exchange[e] = Waiting
      /\ token[t].state = "unused" /\ token[t].by = None
      /\ e # None /\ e \notin Enders
  BY ConnectionsAssumption DEF ConnInv, RotateRead
<1>1. token[t] \in TokenRow /\ token[t].conn \in Conns /\ token[t].fam \in Tokens
  BY <1>0, TokenAt
<1>2. token' = [s \in Tokens |-> IF s \in {t} THEN [token[s] EXCEPT !.by = e] ELSE token[s]]
  BY <1>0 DEF RotateRead, ConnTypeOK
<1>3. SameFamilies({t}) /\ token'[t].by = e /\ token'[t].state = "unused"
  BY <1>0, <1>2, MarkedTokens
<1>4. PICK x : x = [pc |-> "locked", tok |-> t, conn |-> token[t].conn, fam |-> token[t].fam]
  OBVIOUS
<1>5. x \in ExchangeRow /\ x.pc = "locked" /\ x.tok = t /\ x.fam = token[t].fam /\ x.conn = token[t].conn
  BY <1>1, <1>4 DEF ExchangeRow
<1>6. exchange' = [exchange EXCEPT ![e] = x]
  BY <1>4 DEF RotateRead
<1>7. /\ exchange'[e] = x
      /\ \A s \in Exchanges \ {e} : exchange'[s] = exchange[s]
      /\ exchange' \in [Exchanges -> ExchangeRow \cup {Waiting}]
  BY <1>0, <1>5, <1>6 DEF ConnTypeOK, ExchangeRow
<1>8. ConnTypeOK'
  BY <1>0, <1>3, <1>7 DEF ConnTypeOK, RotateRead, SameFamilies, TokenRow, ExchangeRow
<1>9. ASSUME NEW s \in Exchanges \ {e}
      PROVE  HoldsToken(s)'
  <2>1. HoldsToken(s) /\ exchange'[s] = exchange[s] /\ s # None
    BY <1>7, ConnectionsAssumption DEF ConnInv
  <2>2. exchange[s].pc = "locked" => exchange[s].tok \in Tokens \ {t}
    BY <1>0, <2>1 DEF HoldsToken
  <2> QED
    BY <1>3, <2>1, <2>2, HoldsFrame DEF SameFamilies
<1>10. HoldsToken(e)'
  BY <1>3, <1>5, <1>7 DEF HoldsToken, SameFamilies
<1>11. ASSUME NEW s \in Tokens
       PROVE  HeldByEnder(s)'
  BY <1>0, <1>3 DEF ConnInv, HeldByEnder, SameFamilies
<1>12. \A s \in Exchanges : exchange'[s].fam = exchange[s].fam \/ exchange'[s].fam = token[t].fam
  BY <1>5, <1>7
<1>13. FamiliesExist'
  BY <1>0, <1>3, <1>12, FamiliesFrame DEF ConnInv, SameFamilies
<1>14. exchange[e].pc = "idle"
  BY <1>0, ExchangeAt
<1>15. \A f \in Tokens : HeirsStay(f)
  BY <1>0, <1>3, <1>5, <1>7, <1>14 DEF HeirsStay, Unspent, Holding, SameFamilies
<1>16. OneHeir'
  BY <1>0, <1>3, <1>15, HeirsFrame DEF ConnInv, SameFamilies
<1> QED
  BY <1>8, <1>9, <1>10, <1>11, <1>13, <1>16 DEF ConnInv

(* A replay ends the family, whose rows nobody holds.                       *)
LEMMA ReplayKeeps ==
  ASSUME ConnInv, NEW e \in Exchanges, NEW t \in Tokens, RotateReplay(e, t)
  PROVE  ConnInv'
<1>0. ConnTypeOK /\ ending' = ending /\ exchange' = exchange /\ token[t].state = "used"
  BY DEF ConnInv, RotateReplay
<1>1. PICK h \in Tokens : h = token[t].fam
  BY <1>0, TokenAt
<1>2. PICK S \in SUBSET Tokens : S = Family(h)
  BY DEF Family
<1>3. /\ \A s \in S : token[s].fam = h /\ token[s].state \in {"unused", "expired", "used"} /\ token[s].by = None
      /\ token' = Deleted(S) /\ ended' = ended \cup {h}
  BY <1>1, <1>2 DEF RotateReplay, Family
<1>4. SameFamilies(S) /\ \A s \in S : token'[s].by = None /\ token'[s].state = "deleted"
  BY <1>0, <1>3, DeletedTokens
<1>5. ConnTypeOK'
  BY <1>0, <1>3, <1>4 DEF ConnTypeOK, RotateReplay, SameFamilies, TokenRow
<1>6. ASSUME NEW s \in Exchanges
      PROVE  HoldsToken(s)'
  <2>1. HoldsToken(s) /\ exchange'[s] = exchange[s] /\ s # None
    BY <1>0, ConnectionsAssumption DEF ConnInv
  <2>2. exchange[s].pc = "locked" => exchange[s].tok \in Tokens \ S
    BY <1>3, <2>1 DEF HoldsToken
  <2> QED
    BY <1>4, <2>1, <2>2, HoldsFrame DEF SameFamilies
<1>7. ASSUME NEW s \in Tokens
      PROVE  HeldByEnder(s)'
  <2>1. None \notin Enders
    BY ConnectionsAssumption
  <2> QED
    BY <1>0, <1>4, <2>1 DEF ConnInv, HeldByEnder, SameFamilies
<1>8. FamiliesExist'
  BY <1>0, <1>4, FamiliesFrame DEF ConnInv, SameFamilies
<1>9. ASSUME NEW f \in Tokens
      PROVE  HeirsStay(f) \/ HeirsGo(f)
  <2>1. \A s \in Exchanges : Holding(s, f)' <=> Holding(s, f)
    BY <1>0 DEF Holding
  <2>2. CASE f = h
    <3>1. \A s \in Tokens : Unspent(s, f)' => Unspent(s, f)
      BY <1>4 DEF Unspent, SameFamilies
    <3> QED
      BY <1>3, <2>1, <2>2, <3>1 DEF HeirsGo
  <2>3. CASE f # h
    <3>1. \A s \in Tokens : Unspent(s, f)' <=> Unspent(s, f)
      BY <1>3, <1>4, <2>3 DEF Unspent, SameFamilies
    <3> QED
      BY <2>1, <3>1 DEF HeirsStay
  <2> QED
    BY <2>2, <2>3
<1>10. OneHeir'
  BY <1>0, <1>3, <1>4, <1>9, HeirsFrame DEF ConnInv, SameFamilies
<1> QED
  BY <1>5, <1>6, <1>7, <1>8, <1>10 DEF ConnInv

(* A token's lifetime ends: it is still what its family may be renewed by.  *)
LEMMA TokenExpiresKeeps ==
  ASSUME ConnInv, NEW t \in Tokens, TokenExpires(t)
  PROVE  ConnInv'
<1>0. /\ ConnTypeOK /\ ending' = ending /\ exchange' = exchange /\ ended' = ended
      /\ token[t].state = "unused" /\ token[t].by = None
  BY DEF ConnInv, TokenExpires
<1>1. PICK q : q = [token[t] EXCEPT !.state = "expired"]
  OBVIOUS
<1>2. token[t] \in TokenRow
  BY <1>0, TokenAt
<1>3. q.state = "expired"
  BY <1>1, <1>2 DEF TokenRow
<1>4. token' = [token EXCEPT ![t] = q] /\ token'[t] = q
  BY <1>0, <1>1 DEF TokenExpires, ConnTypeOK
<1>5. SameFamilies({t}) /\ token'[t].by = None /\ token'[t].state = "expired"
  BY <1>0, <1>1, <1>3, <1>4, ChangedToken
<1>6. ConnTypeOK'
  BY <1>0, <1>5 DEF ConnTypeOK, TokenExpires, SameFamilies, TokenRow
<1>7. ASSUME NEW s \in Exchanges
      PROVE  HoldsToken(s)'
  <2>1. HoldsToken(s) /\ exchange'[s] = exchange[s] /\ s # None
    BY <1>0, ConnectionsAssumption DEF ConnInv
  <2>2. exchange[s].pc = "locked" => exchange[s].tok \in Tokens \ {t}
    BY <1>0, <2>1 DEF HoldsToken
  <2> QED
    BY <1>5, <2>1, <2>2, HoldsFrame DEF SameFamilies
<1>8. ASSUME NEW s \in Tokens
      PROVE  HeldByEnder(s)'
  BY <1>0, <1>5, ConnectionsAssumption DEF ConnInv, HeldByEnder, SameFamilies
<1>9. FamiliesExist'
  BY <1>0, <1>5, FamiliesFrame DEF ConnInv, SameFamilies
<1>10. \A f \in Tokens : HeirsStay(f)
  BY <1>0, <1>5 DEF HeirsStay, Unspent, Holding, SameFamilies
<1>11. OneHeir'
  BY <1>0, <1>5, <1>10, HeirsFrame DEF ConnInv, SameFamilies
<1> QED
  BY <1>6, <1>7, <1>8, <1>9, <1>11 DEF ConnInv

(* A renewal's spending: the one heir of its family is now the request.     *)
LEMMA SpendKeeps ==
  ASSUME ConnInv, NEW e \in Exchanges, RotateSpend(e)
  PROVE  ConnInv'
<1>0. /\ ConnTypeOK /\ ending' = ending /\ ended' = ended /\ HoldsToken(e)
      /\ exchange[e].pc = "locked" /\ e # None
  BY ConnectionsAssumption DEF ConnInv, RotateSpend
<1>1. PICK t \in Tokens : t = exchange[e].tok
  BY <1>0 DEF HoldsToken
<1>2. /\ token[t].by = e /\ token[t].state = "unused"
      /\ token[t].fam = exchange[e].fam /\ token[t].conn = exchange[e].conn
  BY <1>0, <1>1 DEF HoldsToken
<1>3. PICK q : q = [token[t] EXCEPT !.state = "used", !.by = None]
  OBVIOUS
<1>4. token' = [token EXCEPT ![t] = q]
  BY <1>1, <1>3 DEF RotateSpend, Spent
<1>5. token[t] \in TokenRow /\ token[t].fam \in Tokens
  BY <1>2, TokenAt, <1>0
<1>6. q.state = "used" /\ token'[t] = q
  BY <1>0, <1>3, <1>4, <1>5 DEF TokenRow, ConnTypeOK
<1>7. SameFamilies({t}) /\ token'[t].by = None /\ token'[t].state = "used"
  BY <1>0, <1>2, <1>3, <1>4, <1>6, ChangedToken
<1>8. PICK x : x = [exchange[e] EXCEPT !.pc = "issue", !.tok = None]
  OBVIOUS
<1>9. x \in ExchangeRow /\ x.pc = "issue" /\ x.fam = token[t].fam
  BY <1>0, <1>2, <1>8, ExchangeAt DEF ExchangeRow
<1>10. exchange' = [exchange EXCEPT ![e] = x]
  BY <1>8 DEF RotateSpend
<1>11. /\ exchange'[e] = x
       /\ \A s \in Exchanges \ {e} : exchange'[s] = exchange[s]
       /\ exchange' \in [Exchanges -> ExchangeRow \cup {Waiting}]
  BY <1>0, <1>9, <1>10 DEF ConnTypeOK, ExchangeRow
<1>12. ConnTypeOK'
  BY <1>0, <1>7, <1>11 DEF ConnTypeOK, RotateSpend, SameFamilies, TokenRow, ExchangeRow
<1>13. ASSUME NEW s \in Exchanges \ {e}
       PROVE  HoldsToken(s)'
  <2>1. HoldsToken(s) /\ exchange'[s] = exchange[s]
    BY <1>11 DEF ConnInv
  <2>2. exchange[s].pc = "locked" => exchange[s].tok \in Tokens \ {t}
    BY <1>2, <2>1 DEF HoldsToken
  <2> QED
    BY <1>7, <2>1, <2>2, HoldsFrame DEF SameFamilies
<1>14. HoldsToken(e)'
  BY <1>9, <1>11 DEF HoldsToken
<1>15. ASSUME NEW s \in Tokens
       PROVE  HeldByEnder(s)'
  BY <1>0, <1>7, ConnectionsAssumption DEF ConnInv, HeldByEnder, SameFamilies
<1>16. \A s \in Exchanges : exchange'[s].fam = exchange[s].fam
  BY <1>2, <1>9, <1>11
<1>17. FamiliesExist'
  BY <1>0, <1>7, <1>16, FamiliesFrame DEF ConnInv, SameFamilies
<1>18. ASSUME NEW s \in Tokens, NEW f \in Tokens, token'[s].fam = f
       PROVE  OneHeirOf(f)'
  <2>1. OneHeirOf(f)
    BY <1>0, <1>7, <1>18, FamilyAt, ConnectionsAssumption DEF ConnInv, SameFamilies
  <2>2. CASE f # token[t].fam
    <3>1. HeirsStay(f)
      BY <1>2, <1>7, <1>9, <1>11, <2>2 DEF HeirsStay, Unspent, Holding, SameFamilies
    <3>2. Heirs(f)' = Heirs(f)
      BY <3>1 DEF Heirs, HeirsStay, Unspent, Holding
    <3> QED
      BY <1>0, <2>1, <3>2, HeirsKept
  <2>3. CASE f = token[t].fam
    <3>1. t \in Heirs(f)
      BY <1>2, <2>3 DEF Heirs
    <3>2. Heirs(f) = {t}
      BY <2>1, <3>1 DEF OneHeirOf
    <3>3. t \notin Exchanges
      BY ConnectionsAssumption
    <3>4. \A s2 \in Tokens : ~Unspent(s2, f)'
      <4>1. \A s2 \in Tokens : Unspent(s2, f) => s2 = t
        BY <3>2 DEF Heirs, Unspent
      <4> QED
        BY <1>7, <4>1 DEF Unspent, SameFamilies
    <3>5. \A s2 \in Exchanges : Holding(s2, f)' <=> s2 = e
      <4>1. \A s2 \in Exchanges : ~Holding(s2, f)
        BY <3>2, <3>3 DEF Heirs, Holding
      <4> QED
        BY <1>9, <1>11, <2>3, <4>1 DEF Holding
    <3>6. Heirs(f)' = {e}
      BY <3>4, <3>5 DEF Heirs, Unspent, Holding
    <3> QED
      BY <3>6 DEF OneHeirOf
  <2> QED
    BY <2>2, <2>3
<1>19. \A s \in Tokens : token'[s].fam \in Tokens \cup {None}
  BY <1>0, <1>7, TokenAt DEF SameFamilies
<1>20. OneHeir'
  BY <1>18, <1>19, OneHeirAfter
<1> QED
  BY <1>12, <1>13, <1>14, <1>15, <1>17, <1>20 DEF ConnInv

(* issue's INSERT: the request hands its family on to the new token, or the *)
(* token starts a family, which nothing else is of.                         *)
LEMMA IssueKeeps ==
  ASSUME ConnInv, NEW e \in Exchanges, NEW t \in Tokens, Issue(e, t)
  PROVE  ConnInv'
<1>0. /\ ConnTypeOK /\ ending' = ending /\ ended' = ended /\ exchange[e].pc = "issue"
      /\ token[t] = NoToken /\ t # None /\ e # None /\ t \notin Exchanges
  BY ConnectionsAssumption DEF ConnInv, Issue
<1>1. exchange[e].conn \in Conns /\ exchange[e].fam \in Tokens \cup {None}
  BY <1>0, ExchangeAt
<1>2. PICK h \in Tokens : h = FamilyFor(e, t)
  BY <1>1 DEF FamilyFor
<1>3. PICK q : q = [state |-> "unused", conn |-> exchange[e].conn, by |-> None, fam |-> h]
  OBVIOUS
<1>4. q \in TokenRow /\ q.state = "unused" /\ q.by = None /\ q.fam = h
  BY <1>1, <1>3 DEF TokenRow
<1>5. token' = [token EXCEPT ![t] = q] /\ exchange' = [exchange EXCEPT ![e] = Waiting]
  BY <1>2, <1>3 DEF Issue
<1>6. /\ token'[t] = q /\ \A s \in Tokens \ {t} : token'[s] = token[s]
      /\ token' \in [Tokens -> TokenRow \cup {NoToken}]
      /\ exchange'[e] = Waiting /\ \A s \in Exchanges \ {e} : exchange'[s] = exchange[s]
      /\ exchange' \in [Exchanges -> ExchangeRow \cup {Waiting}]
  BY <1>0, <1>4, <1>5 DEF ConnTypeOK, TokenRow, ExchangeRow
<1>7. ConnTypeOK'
  BY <1>0, <1>6 DEF ConnTypeOK, Issue, TokenRow, ExchangeRow
<1>8. /\ token[t].state = "none" /\ token[t].by = None /\ token[t].fam = None
      /\ Waiting.pc = "idle" /\ Waiting.fam = None
  BY <1>0, TokenAt DEF Waiting
<1>9. ASSUME NEW s \in Exchanges
      PROVE  HoldsToken(s)'
  <2>1. CASE s = e
    BY <1>6, <1>8, <2>1 DEF HoldsToken
  <2>2. CASE s # e
    <3>1. HoldsToken(s) /\ exchange'[s] = exchange[s]
      BY <1>6, <2>2 DEF ConnInv
    <3>2. exchange[s].pc = "locked" => exchange[s].tok \in Tokens \ {t}
      BY <1>8, <3>1 DEF HoldsToken
    <3> QED
      BY <1>6, <3>1, <3>2, HoldsFrame
  <2> QED
    BY <2>1, <2>2
<1>10. ASSUME NEW s \in Tokens
       PROVE  HeldByEnder(s)'
  BY <1>0, <1>4, <1>6, ConnectionsAssumption DEF ConnInv, HeldByEnder
<1>11. \/ exchange[e].fam = None /\ h = t
       \/ exchange[e].fam = h /\ h # t /\ token[h].fam = h
  <2>1. CASE exchange[e].fam = None
    BY <1>2, <2>1 DEF FamilyFor
  <2>2. CASE exchange[e].fam # None
    BY <1>0, <1>2, <1>8, <2>2 DEF FamilyFor, ConnInv, FamiliesExist
  <2> QED
    BY <2>1, <2>2
<1>12. token'[h].fam = h
  BY <1>4, <1>6, <1>11
<1>13. /\ \A s \in Tokens : token[s].fam # t
       /\ \A s \in Exchanges : exchange[s].fam # t
  BY <1>0, <1>8 DEF ConnInv, FamiliesExist
<1>14. FamiliesExist'
  <2>1. ASSUME NEW s \in Tokens, token'[s].fam # None
        PROVE  token'[token'[s].fam].fam = token'[s].fam
    <3>1. CASE s = t
      BY <1>4, <1>6, <1>12, <3>1
    <3>2. CASE s # t
      <4>1. token'[s].fam = token[s].fam /\ token[s].fam # t /\ token[s].fam \in Tokens
        BY <1>0, <1>6, <1>13, <2>1, <3>2, TokenAt
      <4>2. token[token[s].fam].fam = token[s].fam
        BY <2>1, <4>1 DEF ConnInv, FamiliesExist
      <4> QED
        BY <1>6, <4>1, <4>2
    <3> QED
      BY <3>1, <3>2
  <2>2. ASSUME NEW s \in Exchanges, exchange'[s].fam # None
        PROVE  token'[exchange'[s].fam].fam = exchange'[s].fam
    <3>1. s # e /\ exchange'[s].fam = exchange[s].fam /\ exchange[s].fam # t /\ exchange[s].fam \in Tokens
      BY <1>0, <1>6, <1>8, <1>13, <2>2, ExchangeAt
    <3>2. token[exchange[s].fam].fam = exchange[s].fam
      BY <2>2, <3>1 DEF ConnInv, FamiliesExist
    <3> QED
      BY <1>6, <3>1, <3>2
  <2> QED
    BY <2>1, <2>2 DEF FamiliesExist
<1>15. ASSUME NEW f \in Tokens, f # h, NEW s \in Tokens, token'[s].fam = f
       PROVE  OneHeirOf(f)'
  <2>1. s # t /\ token[s].fam = f /\ f # None
    BY <1>4, <1>6, <1>15, ConnectionsAssumption
  <2>2. OneHeirOf(f)
    BY <1>0, <2>1, FamilyAt DEF ConnInv
  <2>3. HeirsStay(f)
    BY <1>4, <1>6, <1>8, <1>11, <1>15, <2>1 DEF HeirsStay, Unspent, Holding
  <2>4. Heirs(f)' = Heirs(f)
    BY <2>3 DEF Heirs, HeirsStay, Unspent, Holding
  <2> QED
    BY <1>0, <2>2, <2>4, HeirsKept
<1>16. (\A s \in Tokens : ~Unspent(s, h)) /\ (\A s \in Exchanges : Holding(s, h) => s = e)
  <2>1. CASE h = t
    BY <1>13, <2>1 DEF Unspent, Holding
  <2>2. CASE h # t
    <3>1. OneHeirOf(h) /\ e \in Heirs(h)
      BY <1>0, <1>11, <2>2, FamilyAt, ConnectionsAssumption DEF ConnInv, Heirs
    <3>2. Heirs(h) = {e}
      BY <3>1 DEF OneHeirOf
    <3>3. e \notin Tokens
      BY ConnectionsAssumption
    <3> QED
      BY <3>2, <3>3 DEF Heirs, Unspent, Holding
  <2> QED
    BY <2>1, <2>2
<1>17. /\ \A s \in Tokens : Unspent(s, h)' <=> s = t
       /\ \A s \in Exchanges : ~Holding(s, h)'
  BY <1>4, <1>6, <1>8, <1>16 DEF Unspent, Holding
<1>18. Heirs(h)' = {t}
  BY <1>17 DEF Heirs, Unspent, Holding
<1>19. OneHeirOf(h)'
  BY <1>18 DEF OneHeirOf
<1>20. \A s \in Tokens : token'[s].fam \in Tokens \cup {None}
  BY <1>0, <1>4, <1>6, TokenAt
<1>21. \A s, f \in Tokens : token'[s].fam = f => OneHeirOf(f)'
  BY <1>15, <1>19
<1>22. OneHeir'
  BY <1>20, <1>21, OneHeirAfter
<1> QED
  BY <1>7, <1>9, <1>10, <1>14, <1>22 DEF ConnInv

(* A request dies: before its spending nothing has happened, after it the   *)
(* family has ended.                                                        *)
LEMMA LostKeeps ==
  ASSUME ConnInv, NEW e \in Exchanges, ExchangeLost(e)
  PROVE  ConnInv'
<1>0. /\ ConnTypeOK /\ ending' = ending /\ HoldsToken(e) /\ exchange[e].pc # "idle" /\ e # None
      /\ exchange' = [exchange EXCEPT ![e] = Waiting]
      /\ None \in Exchanges \cup Enders \cup {None} /\ None \notin Enders /\ e \notin Enders
  BY ConnectionsAssumption DEF ConnInv, ExchangeLost
<1>1. exchange[e].pc \in {"locked", "issue"} /\ exchange[e].fam \in Tokens \cup {None}
  BY <1>0, ExchangeAt
<1>2. /\ exchange'[e] = Waiting /\ \A s \in Exchanges \ {e} : exchange'[s] = exchange[s]
      /\ exchange' \in [Exchanges -> ExchangeRow \cup {Waiting}]
  BY <1>0 DEF ConnTypeOK, ExchangeRow
<1>3. Waiting.pc = "idle" /\ Waiting.fam = None
  BY DEF Waiting
<1>4. PICK S \in SUBSET Tokens :
        /\ SameFamilies(S)
        /\ \A s \in Tokens : token'[s].state = token[s].state
        /\ \A s \in S : token[s].by = e /\ token'[s].by = None
  <2>1. CASE exchange[e].pc = "locked"
    <3>1. PICK t \in Tokens : t = exchange[e].tok
      BY <1>0, <2>1 DEF HoldsToken
    <3>2. token[t].by = e /\ token[t].state = "unused"
      BY <1>0, <2>1, <3>1 DEF HoldsToken
    <3>3. token' = [s \in Tokens |-> IF s \in {t} THEN [token[s] EXCEPT !.by = None] ELSE token[s]]
      BY <1>0, <2>1, <3>1 DEF ExchangeLost, ConnTypeOK
    <3>4. SameFamilies({t}) /\ token'[t].by = None /\ token'[t].state = token[t].state
      BY <1>0, <3>2, <3>3, MarkedTokens
    <3>5. \A s \in Tokens : token'[s].state = token[s].state
      BY <3>4 DEF SameFamilies
    <3> QED
      BY <3>2, <3>4, <3>5
  <2>2. CASE exchange[e].pc = "issue"
    <3>1. token' = token
      BY <2>2 DEF ExchangeLost
    <3>2. SameFamilies({})
      BY <1>0, <3>1 DEF SameFamilies, ConnTypeOK, TokenRow
    <3> QED
      BY <3>1, <3>2
  <2> QED
    BY <1>1, <2>1, <2>2
<1>5. ended \subseteq ended' /\ ended' \subseteq Tokens
  BY <1>0, <1>1 DEF ExchangeLost, ConnTypeOK
<1>6. ConnTypeOK'
  BY <1>0, <1>2, <1>4, <1>5 DEF ConnTypeOK, ExchangeLost, SameFamilies, TokenRow, ExchangeRow
<1>7. ASSUME NEW s \in Exchanges
      PROVE  HoldsToken(s)'
  <2>1. CASE s = e
    BY <1>2, <1>3, <2>1 DEF HoldsToken
  <2>2. CASE s # e
    <3>1. HoldsToken(s) /\ exchange'[s] = exchange[s]
      BY <1>2, <2>2 DEF ConnInv
    <3>2. exchange[s].pc = "locked" => exchange[s].tok \in Tokens \ S
      BY <1>4, <2>2, <3>1 DEF HoldsToken
    <3> QED
      BY <1>4, <3>1, <3>2, HoldsFrame DEF SameFamilies
  <2> QED
    BY <2>1, <2>2
<1>8. ASSUME NEW s \in Tokens
      PROVE  HeldByEnder(s)'
  BY <1>0, <1>4 DEF ConnInv, HeldByEnder, SameFamilies
<1>9. \A s \in Exchanges : exchange'[s].fam = None \/ exchange'[s].fam = exchange[s].fam
  BY <1>2, <1>3
<1>10. FamiliesExist'
  BY <1>0, <1>4, <1>9, FamiliesFrame DEF ConnInv, SameFamilies
<1>11. ASSUME NEW f \in Tokens
       PROVE  HeirsStay(f) \/ HeirsGo(f)
  <2>0. f # None
    BY ConnectionsAssumption
  <2>1. \A s \in Tokens : Unspent(s, f)' <=> Unspent(s, f)
    BY <1>4 DEF Unspent, SameFamilies
  <2>2. CASE Holding(e, f)
    <3>1. f \in ended'
      BY <2>0, <2>2 DEF Holding, ExchangeLost
    <3>2. \A s \in Exchanges : Holding(s, f)' => Holding(s, f)
      BY <1>2, <1>3 DEF Holding
    <3> QED
      BY <2>1, <3>1, <3>2 DEF HeirsGo
  <2>3. CASE ~Holding(e, f)
    <3>1. \A s \in Exchanges : Holding(s, f)' <=> Holding(s, f)
      BY <1>2, <1>3, <2>3 DEF Holding
    <3> QED
      BY <2>1, <3>1 DEF HeirsStay
  <2> QED
    BY <2>2, <2>3
<1>12. OneHeir'
  BY <1>0, <1>4, <1>5, <1>11, HeirsFrame DEF ConnInv, SameFamilies
<1> QED
  BY <1>6, <1>7, <1>8, <1>10, <1>12 DEF ConnInv

(* A revocation marks the consent.                                          *)
LEMMA MarkKeeps ==
  ASSUME ConnInv, NEW r \in Enders, NEW c \in Conns, RevokeMark(r, c)
  PROVE  ConnInv'
<1>0. /\ ConnTypeOK /\ token' = token /\ exchange' = exchange /\ ended' = ended /\ ending[r].pc = "idle"
      /\ ending' = [ending EXCEPT ![r] = [pc |-> "marked", conn |-> c]]
  BY EndingAt DEF ConnInv, RevokeMark
<1>1. /\ \A s \in Enders \ {r} : ending'[s] = ending[s]
      /\ ending' \in [Enders -> EndingRow \cup {NotEnding}]
  BY <1>0 DEF ConnTypeOK, EndingRow
<1>2. ConnTypeOK'
  BY <1>0, <1>1 DEF ConnTypeOK, RevokeMark, EndingRow
<1>3. ASSUME NEW t \in Tokens
      PROVE  HeldByEnder(t)'
  <2>1. HeldByEnder(t)
    BY DEF ConnInv
  <2>2. token[t].by \in Enders => token[t].by # r
    BY <1>0, <2>1 DEF HeldByEnder
  <2> QED
    BY <1>0, <1>1, <2>1, <2>2, HeldFrame
<1>4. \A e \in Exchanges : HoldsToken(e)'
  BY <1>0 DEF ConnInv, HoldsToken
<1>5. FamiliesExist'
  BY <1>0 DEF ConnInv, FamiliesExist
<1>6. \A f : Heirs(f)' = Heirs(f)
  BY <1>0 DEF Heirs
<1>7. OneHeir'
  BY <1>0, <1>6 DEF ConnInv, OneHeir
<1> QED
  BY <1>2, <1>3, <1>4, <1>5, <1>7 DEF ConnInv

(* What the steps of a revocation on tokens have in common: rows that no    *)
(* renewal holds change holder or state, and no request at the endpoint     *)
(* moves.                                                                   *)
LEMMA RevocationFrame ==
  ASSUME ConnInv, ConnTypeOK', NEW S \in SUBSET Tokens, SameFamilies(S), exchange' = exchange,
         \A s \in S : token[s].by \notin Exchanges
  PROVE  FamiliesExist' /\ \A e \in Exchanges : HoldsToken(e)'
<1>1. ASSUME NEW s \in Exchanges
      PROVE  HoldsToken(s)'
  <2>1. HoldsToken(s) /\ exchange'[s] = exchange[s]
    BY DEF ConnInv
  <2>2. exchange[s].pc = "locked" => exchange[s].tok \in Tokens \ S
    BY <2>1 DEF HoldsToken
  <2> QED
    BY <2>1, <2>2, HoldsFrame DEF SameFamilies
<1>2. FamiliesExist'
  BY FamiliesFrame DEF ConnInv, SameFamilies
<1> QED
  BY <1>1, <1>2

(* The DELETE: the rows of the connection are held.                         *)
LEMMA RevokeTokensKeeps ==
  ASSUME ConnInv, NEW r \in Enders, RevokeTokens(r)
  PROVE  ConnInv'
<1>0. /\ ConnTypeOK /\ exchange' = exchange /\ ended' = ended /\ ending[r].pc = "marked"
      /\ None \notin Exchanges /\ None \notin Enders
  BY ConnectionsAssumption DEF ConnInv, RevokeTokens
<1>1. PICK S \in SUBSET Tokens : S = Rows(ending[r].conn)
  BY DEF Rows
<1>2. /\ \A s \in S : token[s].by = None /\ token[s].state # "none" /\ token[s].conn = ending[r].conn
      /\ token' = [t \in Tokens |-> IF t \in S THEN [token[t] EXCEPT !.by = r] ELSE token[t]]
  BY <1>1 DEF RevokeTokens, Rows
<1>3. SameFamilies(S) /\ \A s \in S : token'[s].by = r /\ token'[s].state = token[s].state
  BY <1>0, <1>2, MarkedTokens
<1>4. PICK x : x = [ending[r] EXCEPT !.pc = "deleted"]
  OBVIOUS
<1>5. x \in EndingRow /\ x.pc = "deleted" /\ x.conn = ending[r].conn
  BY <1>0, <1>4, EndingAt DEF EndingRow
<1>6. ending' = [ending EXCEPT ![r] = x]
  BY <1>4 DEF RevokeTokens
<1>7. /\ ending'[r] = x /\ \A s \in Enders \ {r} : ending'[s] = ending[s]
      /\ ending' \in [Enders -> EndingRow \cup {NotEnding}]
  BY <1>0, <1>5, <1>6 DEF ConnTypeOK, EndingRow
<1>8. ConnTypeOK'
  BY <1>0, <1>3, <1>7 DEF ConnTypeOK, RevokeTokens, SameFamilies, TokenRow, EndingRow
<1>9. ASSUME NEW t \in Tokens
      PROVE  HeldByEnder(t)'
  <2>1. CASE t \in S
    BY <1>2, <1>3, <1>5, <1>7, <2>1 DEF HeldByEnder, SameFamilies
  <2>2. CASE t \notin S
    <3>1. HeldByEnder(t) /\ token'[t] = token[t]
      BY <1>3, <2>2 DEF ConnInv, SameFamilies
    <3>2. token[t].by \in Enders => token[t].by # r
      BY <1>0, <3>1 DEF HeldByEnder
    <3> QED
      BY <1>7, <3>1, <3>2, HeldFrame
  <2> QED
    BY <2>1, <2>2
<1>10. FamiliesExist' /\ \A e \in Exchanges : HoldsToken(e)'
  BY <1>0, <1>2, <1>3, <1>8, RevocationFrame
<1>11. \A f \in Tokens : HeirsStay(f)
  BY <1>0, <1>3 DEF HeirsStay, Unspent, Holding, SameFamilies
<1>12. OneHeir'
  BY <1>0, <1>3, <1>11, HeirsFrame DEF ConnInv, SameFamilies
<1> QED
  BY <1>8, <1>9, <1>10, <1>12 DEF ConnInv

(* The commit: what it deletes is of its connection, whose families have    *)
(* all ended.                                                               *)
LEMMA RevokeCommitKeeps ==
  ASSUME ConnInv, NEW r \in Enders, RevokeCommit(r)
  PROVE  ConnInv'
<1>0. /\ ConnTypeOK /\ exchange' = exchange /\ ending[r].pc = "deleted"
      /\ None \notin Exchanges /\ None \notin Enders /\ r \notin Exchanges /\ r # None
      /\ ending' = [ending EXCEPT ![r] = NotEnding]
  BY ConnectionsAssumption DEF ConnInv, RevokeCommit
<1>1. PICK S \in SUBSET Tokens : S = Held(r)
  BY DEF Held
<1>2. /\ \A s \in Tokens : s \in S <=> token[s].by = r
      /\ token' = Deleted(S)
  BY <1>1 DEF RevokeCommit, Held
<1>3. \A s \in S : token[s].state # "none" /\ token[s].conn = ending[r].conn /\ token[s].fam \in Tokens
  <2> TAKE s \in S
  <2>1. token[s].by = r /\ HeldByEnder(s) /\ s \in Tokens
    BY <1>2 DEF ConnInv
  <2>2. token[s] \in TokenRow
    BY <1>0, <2>1, TokenAt
  <2> QED
    BY <1>0, <2>1, <2>2, TokenAt DEF HeldByEnder
<1>4. SameFamilies(S) /\ \A s \in S : token'[s].by = None /\ token'[s].state = "deleted"
  BY <1>0, <1>2, <1>3, DeletedTokens
<1>5. /\ \A s \in Enders \ {r} : ending'[s] = ending[s]
      /\ ending' \in [Enders -> EndingRow \cup {NotEnding}]
  BY <1>0 DEF ConnTypeOK, EndingRow
<1>6. ended \subseteq ended' /\ \A s \in S : token[s].fam \in ended'
  BY <1>3 DEF RevokeCommit
<1>7. ended' \subseteq Tokens
  <2>1. ending[r].conn \in Conns /\ None \notin Conns
    BY <1>0, EndingAt, ConnectionsAssumption
  <2>2. \A s \in Tokens : token[s].conn = ending[r].conn => token[s].fam \in Tokens
    BY <1>0, <2>1, TokenAt
  <2>3. \A e \in Exchanges : exchange[e].fam \in Tokens \cup {None}
    BY <1>0, ExchangeAt
  <2> QED
    BY <1>0, <2>2, <2>3 DEF RevokeCommit, ConnTypeOK
<1>8. consent' \in [Conns -> {"none", "live", "revoked"}]
  BY <1>0 DEF RevokeCommit, ConnTypeOK
<1>9. ConnTypeOK'
  BY <1>0, <1>4, <1>5, <1>7, <1>8 DEF ConnTypeOK, RevokeCommit, SameFamilies, TokenRow, EndingRow
<1>10. ASSUME NEW t \in Tokens
       PROVE  HeldByEnder(t)'
  <2>1. CASE t \in S
    BY <1>0, <1>4, <2>1 DEF HeldByEnder
  <2>2. CASE t \notin S
    <3>1. HeldByEnder(t) /\ token'[t] = token[t] /\ token[t].by # r
      BY <1>2, <1>4, <2>2 DEF ConnInv, SameFamilies
    <3> QED
      BY <1>5, <3>1, HeldFrame
  <2> QED
    BY <2>1, <2>2
<1>11. FamiliesExist' /\ \A e \in Exchanges : HoldsToken(e)'
  BY <1>0, <1>2, <1>4, <1>9, RevocationFrame
<1>12. ASSUME NEW f \in Tokens
       PROVE  HeirsStay(f) \/ HeirsGo(f)
  <2>1. \A e \in Exchanges : Holding(e, f)' <=> Holding(e, f)
    BY <1>0 DEF Holding
  <2>2. CASE \E s \in S : token[s].fam = f
    <3>1. f \in ended'
      BY <1>6, <2>2
    <3>2. \A t \in Tokens : Unspent(t, f)' => Unspent(t, f)
      BY <1>4 DEF Unspent, SameFamilies
    <3> QED
      BY <2>1, <3>1, <3>2 DEF HeirsGo
  <2>3. CASE \A s \in S : token[s].fam # f
    <3>1. \A t \in Tokens : Unspent(t, f)' <=> Unspent(t, f)
      BY <1>4, <2>3 DEF Unspent, SameFamilies
    <3> QED
      BY <2>1, <3>1 DEF HeirsStay
  <2> QED
    BY <2>2, <2>3
<1>13. OneHeir'
  BY <1>0, <1>4, <1>6, <1>12, HeirsFrame DEF ConnInv, SameFamilies
<1> QED
  BY <1>9, <1>10, <1>11, <1>13 DEF ConnInv

(* The rollback: the rows are as they were.                                 *)
LEMMA RevokeLostKeeps ==
  ASSUME ConnInv, NEW r \in Enders, RevokeLost(r)
  PROVE  ConnInv'
<1>0. /\ ConnTypeOK /\ exchange' = exchange /\ ended' = ended
      /\ None \notin Enders /\ r \notin Exchanges /\ r # None
      /\ ending' = [ending EXCEPT ![r] = NotEnding]
  BY ConnectionsAssumption DEF ConnInv, RevokeLost
<1>1. PICK S \in SUBSET Tokens : S = Held(r)
  BY DEF Held
<1>2. /\ \A s \in Tokens : s \in S <=> token[s].by = r
      /\ token' = [t \in Tokens |-> IF t \in S THEN [token[t] EXCEPT !.by = None] ELSE token[t]]
  BY <1>1 DEF RevokeLost, Held
<1>3. \A s \in S : token[s].state # "none"
  BY <1>0, <1>2, TokenAt
<1>4. SameFamilies(S) /\ \A s \in S : token'[s].by = None /\ token'[s].state = token[s].state
  BY <1>0, <1>2, <1>3, MarkedTokens
<1>5. /\ \A s \in Enders \ {r} : ending'[s] = ending[s]
      /\ ending' \in [Enders -> EndingRow \cup {NotEnding}]
  BY <1>0 DEF ConnTypeOK, EndingRow
<1>6. ConnTypeOK'
  BY <1>0, <1>4, <1>5 DEF ConnTypeOK, RevokeLost, SameFamilies, TokenRow, EndingRow
<1>7. ASSUME NEW t \in Tokens
      PROVE  HeldByEnder(t)'
  <2>1. CASE t \in S
    BY <1>0, <1>4, <2>1 DEF HeldByEnder
  <2>2. CASE t \notin S
    <3>1. HeldByEnder(t) /\ token'[t] = token[t] /\ token[t].by # r
      BY <1>2, <1>4, <2>2 DEF ConnInv, SameFamilies
    <3> QED
      BY <1>5, <3>1, HeldFrame
  <2> QED
    BY <2>1, <2>2
<1>8. FamiliesExist' /\ \A e \in Exchanges : HoldsToken(e)'
  BY <1>0, <1>2, <1>4, <1>6, RevocationFrame
<1>9. \A f \in Tokens : HeirsStay(f)
  BY <1>0, <1>4 DEF HeirsStay, Unspent, Holding, SameFamilies
<1>10. OneHeir'
  BY <1>0, <1>4, <1>9, HeirsFrame DEF ConnInv, SameFamilies
<1> QED
  BY <1>6, <1>7, <1>8, <1>10 DEF ConnInv

(* Every step of connections.                                               *)
LEMMA ConnectionsKeep ==
  ASSUME ConnInv, ConnAction \/ UNCHANGED connVars
  PROVE  ConnInv'
<1>1. CASE UNCHANGED connVars
  <2>1. ConnTypeOK'
    BY <1>1 DEF ConnInv, ConnTypeOK, connVars
  <2> QED
    BY <1>1, <2>1, TokensAlone DEF connVars
<1>2. ASSUME NEW e \in Exchanges, RotateSpend(e) \/ ExchangeLost(e)
      PROVE  ConnInv'
  BY <1>2, SpendKeeps, LostKeeps
<1>3. ASSUME NEW e \in Exchanges, NEW t \in Tokens, RotateRead(e, t) \/ RotateReplay(e, t) \/ Issue(e, t)
      PROVE  ConnInv'
  BY <1>3, RotateReadKeeps, ReplayKeeps, IssueKeeps
<1>4. ASSUME NEW e \in Exchanges, NEW k \in Codes, NEW ok \in BOOLEAN, Redeem(e, k, ok)
      PROVE  ConnInv'
  BY <1>4, RedeemKeeps
<1>5. ASSUME NEW r \in Enders, RevokeTokens(r) \/ RevokeCommit(r) \/ RevokeLost(r)
      PROVE  ConnInv'
  BY <1>5, RevokeTokensKeeps, RevokeCommitKeeps, RevokeLostKeeps
<1>6. ASSUME NEW r \in Enders, NEW c \in Conns, RevokeMark(r, c)
      PROVE  ConnInv'
  BY <1>6, MarkKeeps
<1>7. ASSUME NEW t \in Tokens, TokenExpires(t)
      PROVE  ConnInv'
  BY <1>7, TokenExpiresKeeps
<1> QED
  BY <1>1, <1>2, <1>3, <1>4, <1>5, <1>6, <1>7, ApprovalKeeps DEF ConnAction, ConnStep

(* There is nothing but people at first.                                    *)
LEMMA InitConnections == ConnInit => ConnInv
<1> SUFFICES ASSUME ConnInit PROVE ConnInv
  OBVIOUS
<1>1. ConnTypeOK
  BY ConnectionsAssumption DEF ConnInit, ConnTypeOK
<1>2. \A t \in Tokens : token[t].fam = None /\ token[t].by = None
  BY DEF ConnInit, NoToken
<1>3. \A e \in Exchanges : exchange[e].pc = "idle" /\ exchange[e].fam = None
  BY DEF ConnInit, Waiting
<1>4. OneHeir
  BY <1>2 DEF OneHeir
<1> QED
  BY <1>1, <1>2, <1>3, <1>4, ConnectionsAssumption DEF ConnInv, HoldsToken, HeldByEnder, FamiliesExist
----------------------------------------------------------------------------
(* The proposals.                                                           *)

PropRow == [status: {"open", "applying", "applied", "failed", "cancelled", "expired", "pruned"},
            conn: Conns, late: BOOLEAN, by: Enders \cup {None}]
CallRow == [pc: {"propose", "insert", "run", "settle"}, conn: Conns, prop: Props \cup {None}, ok: BOOLEAN]

PropTypeOK ==
  /\ prop \in [Props -> PropRow \cup {NoProp}]
  /\ call \in [Calls -> CallRow \cup {NoCall}]
  /\ ran \in [Props -> Nat]

(* A request has claimed a proposal and not settled it.                     *)
Applies(k, p) == call[k].pc \in {"run", "settle"} /\ call[k].prop = p

(* What a request that has claimed a proposal relies on: it alone has, the  *)
(* record no longer says open, and the tool has run only if it says so.     *)
Claimed(k) ==
  call[k].pc \in {"run", "settle"} =>
    /\ call[k].prop \in Props
    /\ prop[call[k].prop].status \in {"applying", "failed", "pruned"}
    /\ call[k].pc = "run" => ran[call[k].prop] = 0
    /\ call[k].pc = "settle" /\ call[k].ok => ran[call[k].prop] = 1
    /\ \A j \in Calls : Applies(j, call[k].prop) => j = k

(* What a row says of its tool.                                             *)
Tells(p) ==
  /\ ran[p] <= 1
  /\ prop[p].status \in {"none", "open", "cancelled", "expired"} => ran[p] = 0
  /\ prop[p].status = "applied" => ran[p] = 1
  /\ prop[p].by # None => prop[p].status = "open"

PropInv ==
  /\ PropTypeOK
  /\ \A k \in Calls : Claimed(k)
  /\ \A p \in Props : Tells(p)

(* A proposal is a row or there is none.                                    *)
LEMMA PropAt ==
  ASSUME PropTypeOK, NEW p \in Props
  PROVE  /\ prop[p] \in PropRow \/ prop[p] = NoProp
         /\ prop[p].status # "none" => prop[p] \in PropRow
         /\ prop[p].by # None => prop[p] \in PropRow
         /\ prop[p] = NoProp => prop[p].status = "none" /\ prop[p].by = None
<1>1. prop[p] \in PropRow \/ prop[p] = NoProp
  BY DEF PropTypeOK
<1> QED
  BY <1>1 DEF PropRow, NoProp

(* The same for a request.                                                  *)
LEMMA CallAt ==
  ASSUME PropTypeOK, NEW k \in Calls
  PROVE  /\ call[k].pc # "idle" => call[k] \in CallRow
         /\ call[k] = NoCall => call[k].pc = "idle"
<1>1. call[k] \in CallRow \/ call[k] = NoCall
  BY DEF PropTypeOK
<1> QED
  BY <1>1 DEF CallRow, NoCall

(* A row is held or left, ends, or is pruned.                               *)
RowStep(p) ==
  /\ prop'[p] \in PropRow \cup {NoProp}
  /\ prop'[p].by # None => prop'[p].status = "open"
  /\ \/ prop'[p].status = prop[p].status
     \/ prop[p].status = "open" /\ prop'[p].status \in {"cancelled", "expired"}
     \/ prop[p].status = "applying" /\ prop'[p].status = "failed"
     \/ prop'[p].status = "pruned"

(* None of these contradicts a request that is applying a proposal, or what *)
(* the rows say.                                                            *)
LEMMA RowsMove ==
  ASSUME PropInv, call' = call, ran' = ran, prop' \in [Props -> PropRow \cup {NoProp}],
         \A p \in Props : RowStep(p)
  PROVE  PropInv'
<1>1. PropTypeOK'
  BY DEF PropInv, PropTypeOK
<1>2. ASSUME NEW p \in Props
      PROVE  Tells(p)'
  <2>1. RowStep(p) /\ Tells(p)
    BY DEF PropInv
  <2> QED
    BY <2>1 DEF RowStep, Tells
<1>3. ASSUME NEW k \in Calls, call[k].pc \in {"run", "settle"}
      PROVE  Claimed(k)'
  <2>1. Claimed(k) /\ call[k].prop \in Props
    BY <1>3 DEF PropInv, Claimed
  <2>2. RowStep(call[k].prop)
    BY <2>1
  <2>3. prop'[call[k].prop].status \in {"applying", "failed", "pruned"}
    BY <1>3, <2>1, <2>2 DEF RowStep, Claimed
  <2> QED
    BY <1>3, <2>1, <2>3 DEF Claimed, Applies
<1>4. \A k \in Calls : Claimed(k)'
  BY <1>3 DEF Claimed
<1> QED
  BY <1>1, <1>2, <1>4 DEF PropInv

(* A row keeps its status and its place.                                    *)
LEMMA RowStays ==
  ASSUME PropInv, NEW p \in Props, prop'[p] = prop[p]
  PROVE  RowStep(p)
  BY PropAt DEF PropInv, RowStep, Tells

(* One row changes.                                                         *)
LEMMA RowMoves ==
  ASSUME PropInv, call' = call, ran' = ran, NEW p \in Props, NEW q \in PropRow, prop' = [prop EXCEPT ![p] = q],
         q.by # None => q.status = "open",
         \/ q.status = prop[p].status \/ q.status = "pruned"
         \/ prop[p].status = "open" /\ q.status = "cancelled"
  PROVE  PropInv'
<1>1. prop'[p] = q /\ \A s \in Props \ {p} : prop'[s] = prop[s]
  BY DEF PropInv, PropTypeOK
<1>2. prop' \in [Props -> PropRow \cup {NoProp}]
  BY DEF PropInv, PropTypeOK
<1>3. RowStep(p)
  BY <1>1 DEF RowStep
<1>4. \A s \in Props \ {p} : RowStep(s)
  BY <1>1, RowStays
<1> QED
  BY <1>2, <1>3, <1>4, RowsMove

(* cancelProposal, the clock and the retention.                             *)
LEMMA RowActions ==
  ASSUME PropInv, NEW p \in Props, Cancel(p) \/ RunsOut(p) \/ PruneProposal(p)
  PROVE  PropInv'
<1>1. Tells(p) /\ PropTypeOK /\ call' = call /\ ran' = ran
  BY DEF PropInv, Cancel, RunsOut, PruneProposal
<1>2. prop[p].status # "none" => prop[p] \in PropRow
  BY <1>1, PropAt
<1>3. CASE Cancel(p)
  <2>1. PICK q : q = [prop[p] EXCEPT !.status = "cancelled"]
    OBVIOUS
  <2>2. prop[p].status = "open" /\ prop[p].by = None
    BY <1>3 DEF Cancel, Decidable
  <2>3. q \in PropRow /\ q.status = "cancelled" /\ q.by = None
    BY <2>1, <2>2, <1>2 DEF PropRow
  <2>4. prop' = [prop EXCEPT ![p] = q]
    BY <1>3, <2>1 DEF Cancel
  <2> QED
    BY <1>1, <2>2, <2>3, <2>4, RowMoves
<1>4. CASE RunsOut(p)
  <2>1. PICK q : q = [prop[p] EXCEPT !.late = TRUE]
    OBVIOUS
  <2>2. prop[p].status \in {"open", "applying"}
    BY <1>4 DEF RunsOut
  <2>3. q \in PropRow /\ q.status = prop[p].status /\ q.by = prop[p].by
    BY <2>1, <2>2, <1>2 DEF PropRow
  <2>4. prop' = [prop EXCEPT ![p] = q]
    BY <1>4, <2>1 DEF RunsOut
  <2> QED
    BY <1>1, <2>3, <2>4, RowMoves DEF Tells
<1>5. CASE PruneProposal(p)
  <2>1. PICK q : q = [prop[p] EXCEPT !.status = "pruned"]
    OBVIOUS
  <2>2. prop[p].status \in {"applied", "failed", "cancelled", "expired"}
    BY <1>5 DEF PruneProposal
  <2>3. q \in PropRow /\ q.status = "pruned" /\ q.by = None
    BY <2>1, <2>2, <1>1, <1>2 DEF PropRow, Tells
  <2>4. prop' = [prop EXCEPT ![p] = q]
    BY <1>5, <2>1 DEF PruneProposal
  <2> QED
    BY <1>1, <2>3, <2>4, RowMoves
<1> QED
  BY <1>3, <1>4, <1>5

(* The worker's pass.                                                       *)
LEMMA ExpireKeeps ==
  ASSUME PropInv, ExpireProposals
  PROVE  PropInv'
<1>1. ASSUME NEW p \in Due
      PROVE  RowStep(p) /\ p \in Props
  <2>1. p \in Props /\ prop[p].status \in {"open", "applying"} /\ prop[p].by = None
    BY DEF Due
  <2>2. prop[p] \in PropRow
    BY <2>1, PropAt DEF PropInv
  <2>3. prop'[p] = [prop[p] EXCEPT !.status = IF prop[p].status = "open" THEN "expired" ELSE "failed"]
    BY <2>1 DEF ExpireProposals
  <2> QED
    BY <2>1, <2>2, <2>3 DEF RowStep, PropRow
<1>2. ASSUME NEW p \in Props \ Due
      PROVE  RowStep(p)
  BY RowStays DEF ExpireProposals
<1>3. \A p \in Props : RowStep(p)
  BY <1>1, <1>2
<1>4. prop' \in [Props -> PropRow \cup {NoProp}]
  BY <1>3 DEF RowStep, ExpireProposals
<1> QED
  BY <1>3, <1>4, RowsMove DEF ExpireProposals

(* A revocation holds the open rows, cancels them or leaves them again.     *)
LEMMA RevocationKeeps ==
  ASSUME PropInv, NEW r \in Enders, EndTokens(r) \/ EndCommit(r) \/ EndLost(r)
  PROVE  PropInv'
<1>0. call' = call /\ ran' = ran /\ r # None
  BY ConnectionsAssumption DEF EndTokens, EndCommit, EndLost
<1>1. ASSUME NEW p \in Props, prop'[p] # prop[p]
      PROVE  RowStep(p)
  <2>1. Tells(p) /\ PropTypeOK
    BY DEF PropInv
  <2>2. CASE EndTokens(r)
    <3>1. prop[p].status = "open" /\ prop'[p] = [prop[p] EXCEPT !.by = r]
      BY <1>1, <2>2 DEF EndTokens, HoldOpen
    <3>2. prop[p] \in PropRow
      BY <2>1, <3>1, PropAt
    <3> QED
      BY <3>1, <3>2 DEF RowStep, PropRow
  <2>3. CASE EndCommit(r)
    <3>1. prop[p].by = r /\ prop'[p] = [prop[p] EXCEPT !.status = "cancelled", !.by = None]
      BY <1>1, <2>3 DEF EndCommit, CancelHeld
    <3>2. prop[p] \in PropRow /\ prop[p].status = "open"
      BY <1>0, <2>1, <3>1, PropAt DEF Tells
    <3> QED
      BY <3>1, <3>2 DEF RowStep, PropRow
  <2>4. CASE EndLost(r)
    <3>1. prop[p].by = r /\ prop'[p] = [prop[p] EXCEPT !.by = None]
      BY <1>1, <2>4 DEF EndLost, ReleaseHeld
    <3>2. prop[p] \in PropRow
      BY <1>0, <2>1, <3>1, PropAt
    <3> QED
      BY <3>1, <3>2 DEF RowStep, PropRow
  <2> QED
    BY <2>2, <2>3, <2>4
<1>2. \A p \in Props : RowStep(p)
  BY <1>1, RowStays
<1>3. prop' = [p \in Props |-> prop'[p]]
  BY DEF EndTokens, EndCommit, EndLost, HoldOpen, CancelHeld, ReleaseHeld
<1>4. prop' \in [Props -> PropRow \cup {NoProp}]
  BY <1>2, <1>3 DEF RowStep
<1> QED
  BY <1>0, <1>2, <1>4, RowsMove

(* A request goes on, or away, and is not applying anything afterwards.     *)
LEMMA CallRests ==
  ASSUME PropInv, NEW k \in Calls, NEW q \in CallRow \cup {NoCall}, q.pc \notin {"run", "settle"},
         call' = [call EXCEPT ![k] = q], prop' = prop, ran' = ran
  PROVE  PropInv'
<1>1. call'[k] = q /\ \A j \in Calls \ {k} : call'[j] = call[j]
  BY DEF PropInv, PropTypeOK
<1>2. PropTypeOK'
  BY DEF PropInv, PropTypeOK
<1>3. \A j \in Calls, p \in Props : Applies(j, p)' => Applies(j, p)
  BY <1>1 DEF Applies
<1>4. ASSUME NEW j \in Calls \ {k}
      PROVE  Claimed(j)'
  <2>1. Claimed(j) /\ call'[j] = call[j]
    BY <1>1 DEF PropInv
  <2> QED
    BY <2>1, <1>3 DEF Claimed, Applies
<1>5. Claimed(k)'
  BY <1>1 DEF Claimed
<1> QED
  BY <1>2, <1>4, <1>5 DEF PropInv, Tells

(* A request is made, counted or lost.                                      *)
LEMMA CallActions ==
  ASSUME PropInv, NEW k \in Calls,
         CreateCount(k) \/ CallLost(k) \/ \E c \in Conns : ProposeStart(k, c)
  PROVE  PropInv'
<1>0. prop' = prop /\ ran' = ran
  BY DEF CreateCount, CallLost, ProposeStart
<1>1. CASE CallLost(k) \/ (CreateCount(k) /\ call' = [call EXCEPT ![k] = NoCall])
  <2>1. NoCall \in CallRow \cup {NoCall} /\ NoCall.pc \notin {"run", "settle"}
    BY DEF NoCall
  <2>2. call' = [call EXCEPT ![k] = NoCall]
    BY <1>1 DEF CallLost
  <2> QED
    BY <2>1, <2>2, <1>0, CallRests
<1>2. CASE CreateCount(k) /\ call' # [call EXCEPT ![k] = NoCall]
  <2>1. PICK q : q = [call[k] EXCEPT !.pc = "insert"]
    OBVIOUS
  <2>2. call' = [call EXCEPT ![k] = q] /\ call[k].pc = "propose"
    BY <1>2, <2>1 DEF CreateCount
  <2>3. call[k] \in CallRow
    BY <2>2, CallAt DEF PropInv
  <2>4. q \in CallRow /\ q.pc = "insert"
    BY <2>1, <2>3 DEF CallRow
  <2> QED
    BY <2>2, <2>4, <1>0, CallRests
<1>3. ASSUME NEW c \in Conns, ProposeStart(k, c)
      PROVE  PropInv'
  <2>1. PICK q : q = [NoCall EXCEPT !.pc = "propose", !.conn = c]
    OBVIOUS
  <2>2. q \in CallRow /\ q.pc = "propose"
    BY <2>1 DEF CallRow, NoCall
  <2>3. call' = [call EXCEPT ![k] = q]
    BY <1>3, <2>1 DEF ProposeStart
  <2> QED
    BY <2>2, <2>3, <1>0, CallRests
<1> QED
  BY <1>1, <1>2, <1>3

(* A request that applies a proposal is the one of whoever claims it.       *)
LEMMA AppliesClaimed ==
  ASSUME PropInv, NEW k \in Calls, NEW p \in Props, Applies(k, p)
  PROVE  /\ prop[p].status \in {"applying", "failed", "pruned"}
         /\ call[k].pc = "run" => ran[p] = 0
         /\ call[k].pc = "settle" /\ call[k].ok => ran[p] = 1
         /\ \A j \in Calls : Applies(j, p) => j = k
  BY DEF PropInv, Claimed, Applies

(* create's INSERT.                                                         *)
LEMMA InsertKeeps ==
  ASSUME PropInv, NEW k \in Calls, NEW p \in Props, CreateInsert(k, p)
  PROVE  PropInv'
<1>0. call[k] \in CallRow /\ prop[p].status = "none"
  BY CallAt, PropAt DEF PropInv, CreateInsert
<1>1. PICK q : q = [status |-> "open", conn |-> call[k].conn, late |-> FALSE, by |-> None]
  OBVIOUS
<1>2. q \in PropRow /\ q.status = "open" /\ q.by = None
  BY <1>0, <1>1 DEF PropRow, CallRow
<1>3. prop' = [prop EXCEPT ![p] = q] /\ call' = [call EXCEPT ![k] = NoCall] /\ ran' = ran
  BY <1>1 DEF CreateInsert
<1>4. /\ prop'[p] = q /\ \A s \in Props \ {p} : prop'[s] = prop[s]
      /\ call'[k] = NoCall /\ \A j \in Calls \ {k} : call'[j] = call[j]
  BY <1>3 DEF PropInv, PropTypeOK
<1>5. PropTypeOK'
  BY <1>2, <1>3 DEF PropInv, PropTypeOK
<1>6. NoCall.pc = "idle"
  BY DEF NoCall
<1>7. \A j \in Calls, s \in Props : Applies(j, s)' => Applies(j, s) /\ j # k
  BY <1>4, <1>6 DEF Applies
<1>8. \A j \in Calls : ~Applies(j, p)
  BY <1>0, AppliesClaimed
<1>9. ASSUME NEW j \in Calls, call'[j].pc \in {"run", "settle"}
      PROVE  Claimed(j)'
  <2>1. j # k /\ call'[j] = call[j] /\ Claimed(j)
    BY <1>4, <1>6, <1>9 DEF PropInv
  <2>2. call[j].prop \in Props /\ Applies(j, call[j].prop)
    BY <1>9, <2>1 DEF Claimed, Applies
  <2>3. call[j].prop # p
    BY <1>8, <2>2
  <2>4. prop'[call[j].prop] = prop[call[j].prop]
    BY <1>4, <2>2, <2>3
  <2> QED
    BY <1>3, <1>7, <1>9, <2>1, <2>2, <2>4 DEF Claimed
<1>10. ASSUME NEW s \in Props
       PROVE  Tells(s)'
  BY <1>0, <1>2, <1>3, <1>4 DEF PropInv, Tells
<1>11. \A j \in Calls : Claimed(j)'
  BY <1>9 DEF Claimed
<1> QED
  BY <1>5, <1>10, <1>11 DEF PropInv

(* claim: the row was open, so nobody has claimed it and it never ran.      *)
LEMMA ClaimKeeps ==
  ASSUME PropInv, NEW k \in Calls, NEW p \in Props, Claim(k, p)
  PROVE  PropInv'
<1>0. prop[p].status = "open" /\ prop[p].by = None /\ prop[p] \in PropRow /\ ran[p] = 0
  BY PropAt DEF PropInv, Claim, Decidable, Tells
<1>1. PICK q : q = [prop[p] EXCEPT !.status = "applying"]
  OBVIOUS
<1>2. q \in PropRow /\ q.status = "applying" /\ q.by = None
  BY <1>0, <1>1 DEF PropRow
<1>3. PICK x : x = [NoCall EXCEPT !.pc = "run", !.conn = prop[p].conn, !.prop = p]
  OBVIOUS
<1>4. x \in CallRow /\ x.pc = "run" /\ x.prop = p
  BY <1>0, <1>3 DEF CallRow, NoCall, PropRow
<1>5. prop' = [prop EXCEPT ![p] = q] /\ call' = [call EXCEPT ![k] = x] /\ ran' = ran
  BY <1>1, <1>3 DEF Claim
<1>6. /\ prop'[p] = q /\ \A s \in Props \ {p} : prop'[s] = prop[s]
      /\ call'[k] = x /\ \A j \in Calls \ {k} : call'[j] = call[j]
  BY <1>5 DEF PropInv, PropTypeOK
<1>7. PropTypeOK'
  BY <1>2, <1>4, <1>5 DEF PropInv, PropTypeOK
<1>8. \A j \in Calls : ~Applies(j, p)
  BY <1>0, AppliesClaimed
<1>9. \A j \in Calls, s \in Props : Applies(j, s)' => (Applies(j, s) /\ j # k /\ s # p) \/ (j = k /\ s = p)
  BY <1>4, <1>6, <1>8 DEF Applies
<1>10. ASSUME NEW j \in Calls \ {k}, call'[j].pc \in {"run", "settle"}
       PROVE  Claimed(j)'
  <2>1. call'[j] = call[j] /\ Claimed(j)
    BY <1>6 DEF PropInv
  <2>2. call[j].prop \in Props /\ Applies(j, call[j].prop)
    BY <1>10, <2>1 DEF Claimed, Applies
  <2>3. call[j].prop # p
    BY <1>8, <2>2
  <2>4. prop'[call[j].prop] = prop[call[j].prop]
    BY <1>6, <2>2, <2>3
  <2> QED
    BY <1>5, <1>9, <1>10, <2>1, <2>2, <2>3, <2>4 DEF Claimed
<1>11. Claimed(k)'
  BY <1>0, <1>2, <1>4, <1>5, <1>6, <1>9 DEF Claimed
<1>12. ASSUME NEW s \in Props
       PROVE  Tells(s)'
  BY <1>0, <1>2, <1>5, <1>6 DEF PropInv, Tells
<1>13. \A j \in Calls : Claimed(j)'
  BY <1>10, <1>11 DEF Claimed
<1> QED
  BY <1>7, <1>12, <1>13 DEF PropInv

(* applyProposal runs the tool: for a proposal that has not run.            *)
LEMMA RunKeeps ==
  ASSUME PropInv, NEW k \in Calls, NEW offered \in BOOLEAN, NEW ok \in BOOLEAN, RunTool(k, offered, ok)
  PROVE  PropInv'
<1>0. /\ call[k].pc = "run" /\ call[k] \in CallRow /\ call[k].prop \in Props /\ Applies(k, call[k].prop)
      /\ prop' = prop
  BY CallAt DEF PropInv, RunTool, Claimed, Applies
<1>1. PICK p \in Props : p = call[k].prop
  BY <1>0
<1>2. ran[p] = 0 /\ prop[p].status \in {"applying", "failed", "pruned"}
  BY <1>0, <1>1, AppliesClaimed
<1>3. PICK x : x = [call[k] EXCEPT !.pc = "settle", !.ok = ok]
  OBVIOUS
<1>4. x \in CallRow /\ x.pc = "settle" /\ x.ok = ok /\ x.prop = p
  BY <1>0, <1>1, <1>3 DEF CallRow
<1>5. call' = [call EXCEPT ![k] = x]
  BY <1>3 DEF RunTool
<1>6. call'[k] = x /\ \A j \in Calls \ {k} : call'[j] = call[j]
  BY <1>5 DEF PropInv, PropTypeOK
<1>7. /\ ran' \in [Props -> Nat] /\ \A s \in Props \ {p} : ran'[s] = ran[s]
      /\ ran'[p] = IF offered THEN 1 ELSE 0
  BY <1>1, <1>2 DEF RunTool, PropInv, PropTypeOK
<1>8. PropTypeOK'
  BY <1>0, <1>4, <1>5, <1>7 DEF PropInv, PropTypeOK
<1>9. \A j \in Calls, s \in Props : Applies(j, s)' => Applies(j, s)
  BY <1>0, <1>1, <1>4, <1>6 DEF Applies
<1>10. ASSUME NEW j \in Calls \ {k}, call'[j].pc \in {"run", "settle"}
       PROVE  Claimed(j)'
  <2>1. call'[j] = call[j] /\ Claimed(j)
    BY <1>6 DEF PropInv
  <2>2. call[j].prop \in Props /\ Applies(j, call[j].prop)
    BY <1>10, <2>1 DEF Claimed, Applies
  <2>3. call[j].prop # p
    BY <1>0, <1>1, <2>2, AppliesClaimed
  <2>4. ran'[call[j].prop] = ran[call[j].prop]
    BY <1>7, <2>2, <2>3
  <2> QED
    BY <1>0, <1>9, <1>10, <2>1, <2>2, <2>4 DEF Claimed
<1>11. \A j \in Calls : Applies(j, p)' => j = k
  BY <1>0, <1>1, <1>9, AppliesClaimed
<1>12. Claimed(k)'
  BY <1>0, <1>2, <1>4, <1>6, <1>7, <1>11 DEF Claimed, RunTool
<1>13. ASSUME NEW s \in Props
       PROVE  Tells(s)'
  BY <1>0, <1>2, <1>7 DEF PropInv, Tells
<1>14. \A j \in Calls : Claimed(j)'
  BY <1>10, <1>12 DEF Claimed
<1> QED
  BY <1>8, <1>13, <1>14 DEF PropInv

(* settle: applied only after the tool has run.                             *)
LEMMA SettleKeeps ==
  ASSUME PropInv, NEW k \in Calls, Settle(k)
  PROVE  PropInv'
<1>0. /\ call[k].pc = "settle" /\ call[k] \in CallRow /\ call[k].prop \in Props /\ Applies(k, call[k].prop)
      /\ ran' = ran /\ call' = [call EXCEPT ![k] = NoCall]
  BY CallAt DEF PropInv, Settle, Claimed, Applies
<1>1. PICK p \in Props : p = call[k].prop
  BY <1>0
<1>2. CASE prop[p].status = "applying"
  <2>1. PICK q : q = [prop[p] EXCEPT !.status = IF call[k].ok THEN "applied" ELSE "failed"]
    OBVIOUS
  <2>2. prop[p] \in PropRow /\ prop[p].by = None
    BY <1>2, PropAt DEF PropInv, Tells
  <2>3. q \in PropRow /\ q.by = None /\ q.status = IF call[k].ok THEN "applied" ELSE "failed"
    BY <2>1, <2>2 DEF PropRow
  <2>4. prop' = [prop EXCEPT ![p] = q]
    BY <1>1, <1>2, <2>1 DEF Settle
  <2>5. /\ prop'[p] = q /\ \A s \in Props \ {p} : prop'[s] = prop[s]
        /\ call'[k] = NoCall /\ \A j \in Calls \ {k} : call'[j] = call[j]
    BY <1>0, <2>4 DEF PropInv, PropTypeOK
  <2>6. PropTypeOK'
    BY <1>0, <2>3, <2>4 DEF PropInv, PropTypeOK
  <2>7. NoCall.pc = "idle"
    BY DEF NoCall
  <2>8. \A j \in Calls, s \in Props : Applies(j, s)' => Applies(j, s)
    BY <2>5, <2>7 DEF Applies
  <2>9. ASSUME NEW j \in Calls, call'[j].pc \in {"run", "settle"}
        PROVE  Claimed(j)'
    <3>1. j # k /\ call'[j] = call[j] /\ Claimed(j)
      BY <2>5, <2>7, <2>9 DEF PropInv
    <3>2. call[j].prop \in Props /\ Applies(j, call[j].prop)
      BY <2>9, <3>1 DEF Claimed, Applies
    <3>3. call[j].prop # p
      BY <1>0, <1>1, <3>1, <3>2, AppliesClaimed
    <3>4. prop'[call[j].prop] = prop[call[j].prop]
      BY <2>5, <3>2, <3>3
    <3> QED
      BY <1>0, <2>8, <2>9, <3>1, <3>2, <3>4 DEF Claimed
  <2>10. call[k].ok => ran[p] = 1
    BY <1>0, <1>1, AppliesClaimed
  <2>11. ASSUME NEW s \in Props
         PROVE  Tells(s)'
    BY <1>0, <2>3, <2>5, <2>10 DEF PropInv, Tells
  <2>12. \A j \in Calls : Claimed(j)'
    BY <2>9 DEF Claimed
  <2> QED
    BY <2>6, <2>11, <2>12 DEF PropInv
<1>3. CASE prop[p].status # "applying"
  <2>1. prop' = prop
    BY <1>1, <1>3 DEF Settle
  <2>2. NoCall \in CallRow \cup {NoCall} /\ NoCall.pc \notin {"run", "settle"}
    BY DEF NoCall
  <2> QED
    BY <1>0, <2>1, <2>2, CallRests
<1> QED
  BY <1>2, <1>3

(* A step of connections, or none, leaves the proposals alone.              *)
LEMMA ProposalsAlone ==
  ASSUME PropInv, UNCHANGED propVars
  PROVE  PropInv'
  BY DEF PropInv, PropTypeOK, Claimed, Tells, Applies, propVars

(* Every step.                                                              *)
LEMMA ProposalsKeep == PropInv /\ [Next]_vars => PropInv'
<1> SUFFICES ASSUME PropInv, [Next]_vars PROVE PropInv'
  OBVIOUS
<1>1. CASE UNCHANGED propVars
  BY <1>1, ProposalsAlone
<1>2. ASSUME NEW r \in Enders, EndTokens(r) \/ EndCommit(r) \/ EndLost(r)
      PROVE  PropInv'
  BY <1>2, RevocationKeeps
<1>3. ASSUME NEW k \in Calls, CreateCount(k) \/ CallLost(k) \/ \E c \in Conns : ProposeStart(k, c)
      PROVE  PropInv'
  BY <1>3, CallActions
<1>4. ASSUME NEW k \in Calls, NEW p \in Props, CreateInsert(k, p) \/ Claim(k, p)
      PROVE  PropInv'
  BY <1>4, InsertKeeps, ClaimKeeps
<1>5. ASSUME NEW k \in Calls, NEW offered \in BOOLEAN, NEW ok \in BOOLEAN, RunTool(k, offered, ok)
      PROVE  PropInv'
  BY <1>5, RunKeeps
<1>6. ASSUME NEW k \in Calls, Settle(k)
      PROVE  PropInv'
  BY <1>6, SettleKeeps
<1>7. ASSUME NEW p \in Props, Cancel(p) \/ RunsOut(p) \/ PruneProposal(p)
      PROVE  PropInv'
  BY <1>7, RowActions
<1>8. CASE ExpireProposals
  BY <1>8, ExpireKeeps
<1> QED
  BY <1>1, <1>2, <1>3, <1>4, <1>5, <1>6, <1>7, <1>8 DEF Next, vars

(* Nothing is proposed at first.                                            *)
LEMMA InitProposals == Init => PropInv
  BY DEF Init, PropInv, PropTypeOK, Claimed, Tells, NoProp, NoCall

(* A proposal's tool is run at most once, and the record tells whether it   *)
(* was.  The claim is the single use: it takes a row that is open, a state  *)
(* no other request, no revocation and no pass of the worker leaves behind  *)
(* for a proposal that has been claimed.                                    *)
THEOREM RunsAtMostOnce == Spec => []RunsOnce
<1>1. PropInv => RunsOnce
  BY DEF PropInv, Tells, RunsOnce
<1> QED
  BY <1>1, InitProposals, ProposalsKeep, PTL DEF Spec

(* A step of the whole is one of connections, or leaves them alone.         *)
LEMMA StepOfConnections == [Next]_vars => ConnAction \/ UNCHANGED connVars
<1> SUFFICES ASSUME [Next]_vars PROVE ConnAction \/ UNCHANGED connVars
  OBVIOUS
<1>1. ASSUME NEW r \in Enders, EndTokens(r) \/ EndCommit(r) \/ EndLost(r)
      PROVE  ConnAction
  BY <1>1 DEF EndTokens, EndCommit, EndLost, ConnAction
<1>2. ASSUME NEW k \in Calls,
             \/ CreateCount(k) \/ Settle(k) \/ CallLost(k)
             \/ \E c \in Conns : ProposeStart(k, c)
             \/ \E p \in Props : CreateInsert(k, p) \/ Claim(k, p)
             \/ \E offered, ok \in BOOLEAN : RunTool(k, offered, ok)
      PROVE  UNCHANGED connVars
  BY <1>2 DEF CreateCount, Settle, CallLost, ProposeStart, CreateInsert, Claim, RunTool
<1>3. ASSUME NEW p \in Props, Cancel(p) \/ RunsOut(p) \/ PruneProposal(p)
      PROVE  UNCHANGED connVars
  BY <1>3 DEF Cancel, RunsOut, PruneProposal
<1>4. CASE ExpireProposals
  BY <1>4 DEF ExpireProposals
<1> QED
  BY <1>1, <1>2, <1>3, <1>4 DEF Next, vars, ConnAction

(* The connections' invariant, of every step.                               *)
LEMMA StepKeeps == ConnInv /\ [Next]_vars => ConnInv'
  BY StepOfConnections, ConnectionsKeep

(* A family of refresh tokens never forks, and is lost only to a            *)
(* revocation, a replay or a crash: the unspent token passes to the request *)
(* that spends it and from there to the token that request stores.          *)
THEOREM FamiliesNeverFork == Spec => []OneHeir
<1>1. Init => ConnInv
  BY InitConnections DEF Init
<1>2. ConnInv => OneHeir
  BY DEF ConnInv
<1> QED
  BY <1>1, <1>2, StepKeeps, PTL DEF Spec

(* Connections, proposals and the requests on them always hold values of    *)
(* their columns.                                                           *)
THEOREM ProposalTypes == Spec => []TypeOK
<1>1. Init => ConnInv /\ PropInv
  BY InitConnections, InitProposals DEF Init
<1>2. ConnInv /\ PropInv => TypeOK
  BY DEF ConnInv, PropInv, PropTypeOK, PropRow, CallRow, TypeOK
<1> QED
  BY <1>1, <1>2, StepKeeps, ProposalsKeep, PTL DEF Spec

----------------------------------------------------------------------------
(* RevokedOnlyWanes: each way of renewal comes of one that is spent.        *)

UnspentOf(c) == {t \in Tokens : token[t].conn = c /\ token[t].state \in {"unused", "expired"}}
IssuingOf(c) == {e \in Exchanges : exchange[e].pc = "issue" /\ exchange[e].conn = c}
FreshOf(c) == {k \in Codes : code[k].state = "fresh" /\ code[k].conn = c}
ApprovedOf(c) == approving \cap {c}

(* There are finitely many of each.                                         *)
LEMMA FiniteRenewals ==
  ASSUME NEW c
  PROVE  /\ IsFiniteSet(UnspentOf(c)) /\ IsFiniteSet(UnspentOf(c)')
         /\ IsFiniteSet(IssuingOf(c)) /\ IsFiniteSet(IssuingOf(c)')
         /\ IsFiniteSet(FreshOf(c)) /\ IsFiniteSet(FreshOf(c)')
         /\ IsFiniteSet(ApprovedOf(c)) /\ IsFiniteSet(ApprovedOf(c)')
<1>1. IsFiniteSet(Tokens) /\ IsFiniteSet(Exchanges) /\ IsFiniteSet(Codes) /\ IsFiniteSet({c})
  <2>1. PICK U : U = Tokens \cup Exchanges \cup Codes
    OBVIOUS
  <2>2. IsFiniteSet(U) /\ Tokens \in SUBSET U /\ Exchanges \in SUBSET U /\ Codes \in SUBSET U
    BY <2>1, ConnectionsAssumption
  <2> QED
    BY <2>2, FS_Subset, FS_Singleton
<1>2. /\ UnspentOf(c) \subseteq Tokens /\ UnspentOf(c)' \subseteq Tokens
      /\ IssuingOf(c) \subseteq Exchanges /\ IssuingOf(c)' \subseteq Exchanges
      /\ FreshOf(c) \subseteq Codes /\ FreshOf(c)' \subseteq Codes
      /\ ApprovedOf(c) \subseteq {c} /\ ApprovedOf(c)' \subseteq {c}
  BY DEF UnspentOf, IssuingOf, FreshOf, ApprovedOf
<1> QED
  BY <1>1, <1>2, FS_Subset

(* A set that loses elements.                                               *)
LEMMA Fewer ==
  ASSUME NEW S, IsFiniteSet(S), NEW T, T \subseteq S
  PROVE  Cardinality(T) \in Nat /\ Cardinality(S) \in Nat /\ Cardinality(T) <= Cardinality(S)
<1>1. IsFiniteSet(T) /\ Cardinality(T) <= Cardinality(S)
  BY FS_Subset
<1> QED
  BY <1>1, FS_CardinalityType

(* One set loses an element while another gains one.                        *)
LEMMA Passed ==
  ASSUME NEW S, NEW T, IsFiniteSet(S), IsFiniteSet(T), NEW x, NEW y \in T,
         NEW S2, S2 \subseteq S \cup {x}, NEW T2, T2 \subseteq T \ {y}
  PROVE  /\ Cardinality(S) \in Nat /\ Cardinality(T) \in Nat /\ Cardinality(S2) \in Nat /\ Cardinality(T2) \in Nat
         /\ Cardinality(S2) + Cardinality(T2) <= Cardinality(S) + Cardinality(T)
<1>1. /\ IsFiniteSet(S \cup {x})
      /\ Cardinality(S \cup {x}) = IF x \in S THEN Cardinality(S) ELSE Cardinality(S) + 1
  BY FS_AddElement
<1>2. IsFiniteSet(T \ {y}) /\ Cardinality(T \ {y}) = Cardinality(T) - 1
  BY FS_RemoveElement
<1>3. Cardinality(S2) \in Nat /\ Cardinality(S2) <= Cardinality(S \cup {x})
  BY <1>1, Fewer
<1>4. Cardinality(T2) \in Nat /\ Cardinality(T2) <= Cardinality(T \ {y})
  BY <1>2, Fewer
<1>5. Cardinality(S) \in Nat /\ Cardinality(T) \in Nat
  BY FS_CardinalityType
<1> QED
  BY <1>1, <1>2, <1>3, <1>4, <1>5

(* The ways a connection may be renewed do not multiply: none is added, or  *)
(* one passes from an approval to a code, from a code to a request, from a  *)
(* token to a request or from a request to a token.                         *)
NoneAdded(c) ==
  /\ UnspentOf(c)' \subseteq UnspentOf(c) /\ IssuingOf(c)' \subseteq IssuingOf(c)
  /\ FreshOf(c)' \subseteq FreshOf(c) /\ ApprovedOf(c)' \subseteq ApprovedOf(c)
ToCode(c) ==
  /\ c \in ApprovedOf(c) /\ ApprovedOf(c)' \subseteq ApprovedOf(c) \ {c}
  /\ \E k : FreshOf(c)' \subseteq FreshOf(c) \cup {k}
  /\ UnspentOf(c)' \subseteq UnspentOf(c) /\ IssuingOf(c)' \subseteq IssuingOf(c)
CodeToRequest(c) ==
  /\ \E k \in FreshOf(c) : FreshOf(c)' \subseteq FreshOf(c) \ {k}
  /\ \E e : IssuingOf(c)' \subseteq IssuingOf(c) \cup {e}
  /\ UnspentOf(c)' \subseteq UnspentOf(c) /\ ApprovedOf(c)' \subseteq ApprovedOf(c)
TokenToRequest(c) ==
  /\ \E t \in UnspentOf(c) : UnspentOf(c)' \subseteq UnspentOf(c) \ {t}
  /\ \E e : IssuingOf(c)' \subseteq IssuingOf(c) \cup {e}
  /\ FreshOf(c)' \subseteq FreshOf(c) /\ ApprovedOf(c)' \subseteq ApprovedOf(c)
RequestToToken(c) ==
  /\ \E e \in IssuingOf(c) : IssuingOf(c)' \subseteq IssuingOf(c) \ {e}
  /\ \E t : UnspentOf(c)' \subseteq UnspentOf(c) \cup {t}
  /\ FreshOf(c)' \subseteq FreshOf(c) /\ ApprovedOf(c)' \subseteq ApprovedOf(c)

(* In each case there are not more of them.                                 *)
LEMMA RenewalsWane ==
  ASSUME NEW c,
         NoneAdded(c) \/ ToCode(c) \/ CodeToRequest(c) \/ TokenToRequest(c) \/ RequestToToken(c)
  PROVE  Renewals(c)' <= Renewals(c)
<1>1. PICK u, i, k, a : u = UnspentOf(c) /\ i = IssuingOf(c) /\ k = FreshOf(c) /\ a = ApprovedOf(c)
  OBVIOUS
<1>2. PICK u2, i2, k2, a2 : u2 = UnspentOf(c)' /\ i2 = IssuingOf(c)' /\ k2 = FreshOf(c)' /\ a2 = ApprovedOf(c)'
  OBVIOUS
<1>3. /\ Renewals(c) = Cardinality(u) + Cardinality(i) + Cardinality(k) + Cardinality(a)
      /\ Renewals(c)' = Cardinality(u2) + Cardinality(i2) + Cardinality(k2) + Cardinality(a2)
  BY <1>1, <1>2 DEF Renewals, UnspentOf, IssuingOf, FreshOf, ApprovedOf
<1>4. /\ IsFiniteSet(u) /\ IsFiniteSet(i) /\ IsFiniteSet(k) /\ IsFiniteSet(a)
  BY <1>1, FiniteRenewals
<1>5. CASE NoneAdded(c)
  <2>1. u2 \subseteq u /\ i2 \subseteq i /\ k2 \subseteq k /\ a2 \subseteq a
    BY <1>1, <1>2, <1>5 DEF NoneAdded
  <2> QED
    BY <1>3, <1>4, <2>1, Fewer
<1>6. CASE ToCode(c)
  <2>1. PICK x : c \in a /\ a2 \subseteq a \ {c} /\ u2 \subseteq u /\ i2 \subseteq i /\ k2 \subseteq k \cup {x}
    BY <1>1, <1>2, <1>6 DEF ToCode
  <2>2. /\ Cardinality(k) \in Nat /\ Cardinality(a) \in Nat /\ Cardinality(k2) \in Nat /\ Cardinality(a2) \in Nat
        /\ Cardinality(k2) + Cardinality(a2) <= Cardinality(k) + Cardinality(a)
    BY <1>4, <2>1, Passed
  <2>3. /\ Cardinality(u2) \in Nat /\ Cardinality(u) \in Nat /\ Cardinality(u2) <= Cardinality(u)
        /\ Cardinality(i2) \in Nat /\ Cardinality(i) \in Nat /\ Cardinality(i2) <= Cardinality(i)
    BY <1>4, <2>1, Fewer
  <2> QED
    BY <1>3, <2>2, <2>3
<1>7. CASE CodeToRequest(c)
  <2>1. PICK y \in k : k2 \subseteq k \ {y}
    BY <1>1, <1>2, <1>7 DEF CodeToRequest
  <2>2. PICK x : a2 \subseteq a /\ u2 \subseteq u /\ i2 \subseteq i \cup {x}
    BY <1>1, <1>2, <1>7 DEF CodeToRequest
  <2>3. /\ Cardinality(i) \in Nat /\ Cardinality(k) \in Nat /\ Cardinality(i2) \in Nat /\ Cardinality(k2) \in Nat
        /\ Cardinality(i2) + Cardinality(k2) <= Cardinality(i) + Cardinality(k)
    BY <1>4, <2>1, <2>2, Passed
  <2>4. /\ Cardinality(u2) \in Nat /\ Cardinality(u) \in Nat /\ Cardinality(u2) <= Cardinality(u)
        /\ Cardinality(a2) \in Nat /\ Cardinality(a) \in Nat /\ Cardinality(a2) <= Cardinality(a)
    BY <1>4, <2>2, Fewer
  <2> QED
    BY <1>3, <2>3, <2>4
<1>8. CASE TokenToRequest(c)
  <2>1. PICK y \in u : u2 \subseteq u \ {y}
    BY <1>1, <1>2, <1>8 DEF TokenToRequest
  <2>2. PICK x : a2 \subseteq a /\ k2 \subseteq k /\ i2 \subseteq i \cup {x}
    BY <1>1, <1>2, <1>8 DEF TokenToRequest
  <2>3. /\ Cardinality(i) \in Nat /\ Cardinality(u) \in Nat /\ Cardinality(i2) \in Nat /\ Cardinality(u2) \in Nat
        /\ Cardinality(i2) + Cardinality(u2) <= Cardinality(i) + Cardinality(u)
    BY <1>4, <2>1, <2>2, Passed
  <2>4. /\ Cardinality(k2) \in Nat /\ Cardinality(k) \in Nat /\ Cardinality(k2) <= Cardinality(k)
        /\ Cardinality(a2) \in Nat /\ Cardinality(a) \in Nat /\ Cardinality(a2) <= Cardinality(a)
    BY <1>4, <2>2, Fewer
  <2> QED
    BY <1>3, <2>3, <2>4
<1>9. CASE RequestToToken(c)
  <2>1. PICK y \in i : i2 \subseteq i \ {y}
    BY <1>1, <1>2, <1>9 DEF RequestToToken
  <2>2. PICK x : a2 \subseteq a /\ k2 \subseteq k /\ u2 \subseteq u \cup {x}
    BY <1>1, <1>2, <1>9 DEF RequestToToken
  <2>3. /\ Cardinality(u) \in Nat /\ Cardinality(i) \in Nat /\ Cardinality(u2) \in Nat /\ Cardinality(i2) \in Nat
        /\ Cardinality(u2) + Cardinality(i2) <= Cardinality(u) + Cardinality(i)
    BY <1>4, <2>1, <2>2, Passed
  <2>4. /\ Cardinality(k2) \in Nat /\ Cardinality(k) \in Nat /\ Cardinality(k2) <= Cardinality(k)
        /\ Cardinality(a2) \in Nat /\ Cardinality(a) \in Nat /\ Cardinality(a2) <= Cardinality(a)
    BY <1>4, <2>2, Fewer
  <2> QED
    BY <1>3, <2>3, <2>4
<1> QED
  BY <1>5, <1>6, <1>7, <1>8, <1>9

(* A step that edits the tokens' holders, or takes tokens away.             *)
LEMMA TokensOnlyGo ==
  ASSUME NEW c, NEW S, SameFamilies(S),
         \A s \in Tokens : token'[s].state \in {"unused", "expired"} => token[s].state \in {"unused", "expired"},
         UNCHANGED <<code, approving>>, IssuingOf(c)' \subseteq IssuingOf(c)
  PROVE  NoneAdded(c)
<1>1. UnspentOf(c)' \subseteq UnspentOf(c)
  BY DEF UnspentOf, SameFamilies
<1> QED
  BY <1>1 DEF NoneAdded, FreshOf, ApprovedOf

(* Approvals and codes.                                                     *)
LEMMA ApprovalsWane ==
  ASSUME ConnInv, NEW c \in Conns, consent'[c] = "revoked",
         \/ \E u \in Persons, r \in Roles, off \in BOOLEAN : ChangeUser(u, r, off)
         \/ \E b \in Conns : RevokeKey(b) \/ Record(b) \/ ApproveLost(b) \/ \E k \in Codes : Approve(b, k)
         \/ \E k \in Codes : CodeExpires(k)
         \/ \E r \in Enders, b \in Conns : RevokeMark(r, b)
         \/ UNCHANGED connVars
  PROVE  NoneAdded(c) \/ ToCode(c)
<1>0. ConnTypeOK
  BY DEF ConnInv
<1>1. CASE UNCHANGED <<token, exchange, code>> /\ approving' \cap {c} \subseteq approving \cap {c}
  BY <1>1 DEF NoneAdded, UnspentOf, IssuingOf, FreshOf, ApprovedOf
<1>2. ASSUME NEW b \in Conns, Record(b)
      PROVE  NoneAdded(c)
  <2>1. b # c
    BY <1>0, <1>2 DEF Record, ConnTypeOK
  <2> QED
    BY <1>2, <2>1 DEF Record, NoneAdded, UnspentOf, IssuingOf, FreshOf, ApprovedOf
<1>3. ASSUME NEW b \in Conns, NEW k \in Codes, Approve(b, k)
      PROVE  NoneAdded(c) \/ ToCode(c)
  <2>1. PICK q : q = [state |-> "fresh", conn |-> b]
    OBVIOUS
  <2>2. q.conn = b /\ code' = [code EXCEPT ![k] = q]
    BY <1>3, <2>1 DEF Approve
  <2>3. code'[k] = q /\ \A s \in Codes \ {k} : code'[s] = code[s]
    BY <1>0, <2>2 DEF ConnTypeOK
  <2>4. UnspentOf(c)' = UnspentOf(c) /\ IssuingOf(c)' = IssuingOf(c)
    BY <1>3 DEF Approve, UnspentOf, IssuingOf
  <2>5. CASE b = c
    <3>1. FreshOf(c)' \subseteq FreshOf(c) \cup {k}
      BY <2>3 DEF FreshOf
    <3>2. c \in ApprovedOf(c) /\ ApprovedOf(c)' \subseteq ApprovedOf(c) \ {c}
      BY <1>3, <2>5 DEF Approve, ApprovedOf
    <3> QED
      BY <2>4, <3>1, <3>2 DEF ToCode
  <2>6. CASE b # c
    <3>1. FreshOf(c)' \subseteq FreshOf(c)
      BY <2>2, <2>3, <2>6 DEF FreshOf
    <3>2. ApprovedOf(c)' \subseteq ApprovedOf(c)
      BY <1>3 DEF Approve, ApprovedOf
    <3> QED
      BY <2>4, <3>1, <3>2 DEF NoneAdded
  <2> QED
    BY <2>5, <2>6
<1>4. ASSUME NEW k \in Codes, CodeExpires(k)
      PROVE  NoneAdded(c)
  <2>1. code[k] \in CodeRow
    BY <1>0, <1>4 DEF ConnTypeOK, CodeExpires, CodeRow, NoCode
  <2>2. PICK q : q = [code[k] EXCEPT !.state = "expired"]
    OBVIOUS
  <2>3. q.state = "expired" /\ code' = [code EXCEPT ![k] = q]
    BY <1>4, <2>1, <2>2 DEF CodeRow, CodeExpires
  <2>4. code'[k] = q /\ \A s \in Codes \ {k} : code'[s] = code[s]
    BY <1>0, <2>3 DEF ConnTypeOK
  <2>5. FreshOf(c)' \subseteq FreshOf(c)
    BY <2>3, <2>4 DEF FreshOf
  <2> QED
    BY <1>4, <2>5 DEF CodeExpires, NoneAdded, UnspentOf, IssuingOf, ApprovedOf
<1>5. ASSUME \/ \E u \in Persons, r \in Roles, off \in BOOLEAN : ChangeUser(u, r, off)
             \/ \E b \in Conns : RevokeKey(b) \/ ApproveLost(b)
             \/ \E r \in Enders, b \in Conns : RevokeMark(r, b)
             \/ UNCHANGED connVars
      PROVE  UNCHANGED <<token, exchange, code>> /\ approving' \cap {c} \subseteq approving \cap {c}
  BY <1>5 DEF ChangeUser, RevokeKey, ApproveLost, RevokeMark, connVars
<1> QED
  BY <1>1, <1>2, <1>3, <1>4, <1>5

(* A code is exchanged.                                                     *)
LEMMA RedeemWanes ==
  ASSUME ConnInv, NEW c \in Conns, NEW e \in Exchanges, NEW k \in Codes, NEW ok \in BOOLEAN, Redeem(e, k, ok)
  PROVE  NoneAdded(c) \/ CodeToRequest(c)
<1>0. ConnTypeOK /\ token' = token /\ approving' = approving /\ code[k].state = "fresh"
  BY DEF ConnInv, Redeem
<1>1. code[k] \in CodeRow
  BY <1>0 DEF ConnTypeOK, CodeRow, NoCode
<1>2. PICK x : x = [Waiting EXCEPT !.pc = "issue", !.conn = code[k].conn]
  OBVIOUS
<1>3. x.conn = code[k].conn
  BY <1>2 DEF Waiting
<1>4. exchange' = exchange \/ exchange' = [exchange EXCEPT ![e] = x]
  BY <1>2 DEF Redeem
<1>5. /\ exchange'[e] = exchange[e] \/ exchange'[e] = x
      /\ \A s \in Exchanges \ {e} : exchange'[s] = exchange[s]
  BY <1>0, <1>4 DEF ConnTypeOK
<1>6. PICK q : q = [code[k] EXCEPT !.state = "consumed"]
  OBVIOUS
<1>7. q.state = "consumed" /\ code' = [code EXCEPT ![k] = q]
  BY <1>1, <1>6 DEF CodeRow, Redeem, Consumed
<1>8. code'[k] = q /\ \A s \in Codes \ {k} : code'[s] = code[s]
  BY <1>0, <1>7 DEF ConnTypeOK
<1>9. FreshOf(c)' \subseteq FreshOf(c) \ {k}
  BY <1>7, <1>8 DEF FreshOf
<1>10. UnspentOf(c)' = UnspentOf(c) /\ ApprovedOf(c)' = ApprovedOf(c)
  BY <1>0 DEF UnspentOf, ApprovedOf
<1>11. CASE code[k].conn = c
  <2>1. k \in FreshOf(c) /\ IssuingOf(c)' \subseteq IssuingOf(c) \cup {e}
    BY <1>0, <1>5, <1>11 DEF FreshOf, IssuingOf
  <2> QED
    BY <1>9, <1>10, <2>1 DEF CodeToRequest
<1>12. CASE code[k].conn # c
  <2>1. IssuingOf(c)' \subseteq IssuingOf(c)
    BY <1>3, <1>5, <1>12 DEF IssuingOf
  <2> QED
    BY <1>9, <1>10, <2>1 DEF NoneAdded
<1> QED
  BY <1>11, <1>12

(* A renewal spends its token.                                              *)
LEMMA SpendWanes ==
  ASSUME ConnInv, NEW c \in Conns, NEW e \in Exchanges, RotateSpend(e)
  PROVE  NoneAdded(c) \/ TokenToRequest(c)
<1>0. ConnTypeOK /\ HoldsToken(e) /\ exchange[e].pc = "locked" /\ code' = code /\ approving' = approving
  BY DEF ConnInv, RotateSpend
<1>1. PICK t \in Tokens : t = exchange[e].tok
  BY <1>0 DEF HoldsToken
<1>2. token[t].state = "unused" /\ token[t].conn = exchange[e].conn
  BY <1>0, <1>1 DEF HoldsToken
<1>3. PICK q : q = [token[t] EXCEPT !.state = "used", !.by = None]
  OBVIOUS
<1>4. q.state = "used"
  BY <1>0, <1>2, <1>3, TokenAt DEF TokenRow
<1>5. token' = [token EXCEPT ![t] = q]
  BY <1>1, <1>3 DEF RotateSpend, Spent
<1>6. token'[t] = q /\ \A s \in Tokens \ {t} : token'[s] = token[s]
  BY <1>0, <1>5 DEF ConnTypeOK
<1>7. PICK x : x = [exchange[e] EXCEPT !.pc = "issue", !.tok = None]
  OBVIOUS
<1>8. x.conn = token[t].conn
  BY <1>0, <1>2, <1>7, ExchangeAt DEF ExchangeRow
<1>9. exchange' = [exchange EXCEPT ![e] = x]
  BY <1>7 DEF RotateSpend
<1>10. exchange'[e] = x /\ \A s \in Exchanges \ {e} : exchange'[s] = exchange[s]
  BY <1>0, <1>9 DEF ConnTypeOK
<1>11. UnspentOf(c)' \subseteq UnspentOf(c) \ {t}
  BY <1>4, <1>6 DEF UnspentOf
<1>12. FreshOf(c)' = FreshOf(c) /\ ApprovedOf(c)' = ApprovedOf(c)
  BY <1>0 DEF FreshOf, ApprovedOf
<1>13. CASE token[t].conn = c
  <2>1. t \in UnspentOf(c) /\ IssuingOf(c)' \subseteq IssuingOf(c) \cup {e}
    BY <1>2, <1>10, <1>13 DEF UnspentOf, IssuingOf
  <2> QED
    BY <1>11, <1>12, <2>1 DEF TokenToRequest
<1>14. CASE token[t].conn # c
  <2>1. IssuingOf(c)' \subseteq IssuingOf(c)
    BY <1>8, <1>10, <1>14 DEF IssuingOf
  <2> QED
    BY <1>11, <1>12, <2>1 DEF NoneAdded
<1> QED
  BY <1>13, <1>14

(* A request stores its token.                                              *)
LEMMA IssueWanes ==
  ASSUME ConnInv, NEW c \in Conns, NEW e \in Exchanges, NEW t \in Tokens, Issue(e, t)
  PROVE  NoneAdded(c) \/ RequestToToken(c)
<1>0. ConnTypeOK /\ exchange[e].pc = "issue" /\ code' = code /\ approving' = approving
  BY DEF ConnInv, Issue
<1>1. PICK q : q = [state |-> "unused", conn |-> exchange[e].conn, by |-> None, fam |-> FamilyFor(e, t)]
  OBVIOUS
<1>2. q.conn = exchange[e].conn
  BY <1>1
<1>3. token' = [token EXCEPT ![t] = q] /\ exchange' = [exchange EXCEPT ![e] = Waiting]
  BY <1>1 DEF Issue
<1>4. /\ token'[t] = q /\ \A s \in Tokens \ {t} : token'[s] = token[s]
      /\ exchange'[e] = Waiting /\ \A s \in Exchanges \ {e} : exchange'[s] = exchange[s]
  BY <1>0, <1>3 DEF ConnTypeOK
<1>5. Waiting.pc = "idle"
  BY DEF Waiting
<1>6. IssuingOf(c)' \subseteq IssuingOf(c) \ {e}
  BY <1>4, <1>5 DEF IssuingOf
<1>7. FreshOf(c)' = FreshOf(c) /\ ApprovedOf(c)' = ApprovedOf(c)
  BY <1>0 DEF FreshOf, ApprovedOf
<1>8. CASE exchange[e].conn = c
  <2>1. e \in IssuingOf(c) /\ UnspentOf(c)' \subseteq UnspentOf(c) \cup {t}
    BY <1>0, <1>4, <1>8 DEF UnspentOf, IssuingOf
  <2> QED
    BY <1>6, <1>7, <2>1 DEF RequestToToken
<1>9. CASE exchange[e].conn # c
  <2>1. UnspentOf(c)' \subseteq UnspentOf(c)
    BY <1>2, <1>4, <1>9 DEF UnspentOf
  <2> QED
    BY <1>6, <1>7, <2>1 DEF NoneAdded
<1> QED
  BY <1>8, <1>9

(* The other steps on tokens: rows are locked, left, outlived or deleted.   *)
LEMMA TokensWane ==
  ASSUME ConnInv, NEW c \in Conns,
         \/ \E e \in Exchanges, t \in Tokens : RotateRead(e, t) \/ RotateReplay(e, t)
         \/ \E e \in Exchanges : ExchangeLost(e)
         \/ \E t \in Tokens : TokenExpires(t)
         \/ \E r \in Enders : RevokeTokens(r) \/ RevokeCommit(r) \/ RevokeLost(r)
  PROVE  NoneAdded(c)
<1>0. ConnTypeOK /\ code' = code /\ approving' = approving /\ \A r \in Enders : r # None
  BY ConnectionsAssumption DEF ConnInv, RotateRead, RotateReplay, ExchangeLost, TokenExpires,
     RevokeTokens, RevokeCommit, RevokeLost
<1>1. ASSUME NEW e \in Exchanges, NEW t \in Tokens, RotateRead(e, t)
      PROVE  NoneAdded(c)
  <2>1. token[t].state = "unused"
    BY <1>1 DEF RotateRead
  <2>2. token' = [s \in Tokens |-> IF s \in {t} THEN [token[s] EXCEPT !.by = e] ELSE token[s]]
    BY <1>0, <1>1 DEF RotateRead, ConnTypeOK
  <2>3. SameFamilies({t}) /\ token'[t].state = token[t].state
    BY <1>0, <2>1, <2>2, MarkedTokens
  <2>4. PICK x : x = [pc |-> "locked", tok |-> t, conn |-> token[t].conn, fam |-> token[t].fam]
    OBVIOUS
  <2>5. x.pc = "locked" /\ exchange' = [exchange EXCEPT ![e] = x]
    BY <1>1, <2>4 DEF RotateRead
  <2>6. exchange'[e] = x /\ \A s \in Exchanges \ {e} : exchange'[s] = exchange[s]
    BY <1>0, <2>5 DEF ConnTypeOK
  <2>7. IssuingOf(c)' \subseteq IssuingOf(c)
    BY <2>5, <2>6 DEF IssuingOf
  <2>8. \A s \in Tokens : token'[s].state = token[s].state
    BY <2>3 DEF SameFamilies
  <2> QED
    BY <1>0, <2>3, <2>7, <2>8, TokensOnlyGo
<1>2. ASSUME NEW e \in Exchanges, NEW t \in Tokens, RotateReplay(e, t)
      PROVE  NoneAdded(c)
  <2>1. PICK S \in SUBSET Tokens : S = Family(token[t].fam)
    BY DEF Family
  <2>2. token' = Deleted(S) /\ exchange' = exchange /\ \A s \in S : token[s].state # "none"
    BY <1>2, <2>1 DEF RotateReplay, Family
  <2>3. SameFamilies(S) /\ \A s \in S : token'[s].state = "deleted"
    BY <1>0, <2>2, DeletedTokens
  <2>4. IssuingOf(c)' \subseteq IssuingOf(c)
    BY <2>2 DEF IssuingOf
  <2>5. \A s \in Tokens : token'[s].state \in {"unused", "expired"} => token[s].state \in {"unused", "expired"}
    BY <2>3 DEF SameFamilies
  <2> QED
    BY <1>0, <2>3, <2>4, <2>5, TokensOnlyGo
<1>3. ASSUME NEW e \in Exchanges, ExchangeLost(e)
      PROVE  NoneAdded(c)
  <2>1. exchange' = [exchange EXCEPT ![e] = Waiting] /\ Waiting.pc = "idle"
    BY <1>3 DEF ExchangeLost, Waiting
  <2>2. exchange'[e] = Waiting /\ \A s \in Exchanges \ {e} : exchange'[s] = exchange[s]
    BY <1>0, <2>1 DEF ConnTypeOK
  <2>3. IssuingOf(c)' \subseteq IssuingOf(c)
    BY <2>1, <2>2 DEF IssuingOf
  <2>4. CASE exchange[e].pc = "locked"
    <3>1. PICK t \in Tokens : t = exchange[e].tok
      BY <2>4 DEF ConnInv, HoldsToken
    <3>2. token[t].state = "unused"
      BY <2>4, <3>1 DEF ConnInv, HoldsToken
    <3>3. token' = [s \in Tokens |-> IF s \in {t} THEN [token[s] EXCEPT !.by = None] ELSE token[s]]
      BY <1>0, <1>3, <2>4, <3>1 DEF ExchangeLost, ConnTypeOK
    <3>4. SameFamilies({t}) /\ token'[t].state = token[t].state
      BY <1>0, <3>2, <3>3, MarkedTokens
    <3>5. \A s \in Tokens : token'[s].state = token[s].state
      BY <3>4 DEF SameFamilies
    <3> QED
      BY <1>0, <2>3, <3>4, <3>5, TokensOnlyGo
  <2>5. CASE exchange[e].pc # "locked"
    <3>1. token' = token
      BY <1>3, <2>5 DEF ExchangeLost
    <3> QED
      BY <1>0, <2>3, <3>1 DEF NoneAdded, UnspentOf, FreshOf, ApprovedOf
  <2> QED
    BY <2>4, <2>5
<1>4. ASSUME NEW t \in Tokens, TokenExpires(t)
      PROVE  NoneAdded(c)
  <2>1. PICK q : q = [token[t] EXCEPT !.state = "expired"]
    OBVIOUS
  <2>2. token' = [token EXCEPT ![t] = q] /\ token[t].state = "unused" /\ token[t].by = None /\ exchange' = exchange
    BY <1>4, <2>1 DEF TokenExpires
  <2>3. SameFamilies({t})
    BY <1>0, <2>1, <2>2, ChangedToken
  <2>4. IssuingOf(c)' \subseteq IssuingOf(c)
    BY <2>2 DEF IssuingOf
  <2>5. \A s \in Tokens : token'[s].state \in {"unused", "expired"} => token[s].state \in {"unused", "expired"}
    BY <2>2, <2>3 DEF SameFamilies
  <2> QED
    BY <1>0, <2>3, <2>4, <2>5, TokensOnlyGo
<1>5. ASSUME NEW r \in Enders, RevokeTokens(r) \/ RevokeCommit(r) \/ RevokeLost(r)
      PROVE  NoneAdded(c)
  <2>1. exchange' = exchange
    BY <1>5 DEF RevokeTokens, RevokeCommit, RevokeLost
  <2>2. IssuingOf(c)' \subseteq IssuingOf(c)
    BY <2>1 DEF IssuingOf
  <2>3. PICK H \in SUBSET Tokens : H = Held(r)
    BY DEF Held
  <2>4. PICK R \in SUBSET Tokens : R = Rows(ending[r].conn)
    BY DEF Rows
  <2>5. (\A s \in H : token[s].state # "none") /\ (\A s \in R : token[s].state # "none")
    BY <1>0, <2>3, <2>4, TokenAt DEF Held, Rows
  <2>6. CASE RevokeTokens(r)
    <3>1. token' = [t \in Tokens |-> IF t \in R THEN [token[t] EXCEPT !.by = r] ELSE token[t]]
      BY <2>4, <2>6 DEF RevokeTokens
    <3>2. SameFamilies(R) /\ \A s \in R : token'[s].state = token[s].state
      BY <1>0, <2>5, <3>1, MarkedTokens
    <3>3. \A s \in Tokens : token'[s].state = token[s].state
      BY <3>2 DEF SameFamilies
    <3> QED
      BY <1>0, <2>2, <3>2, <3>3, TokensOnlyGo
  <2>7. CASE RevokeCommit(r)
    <3>1. token' = Deleted(H)
      BY <2>3, <2>7 DEF RevokeCommit
    <3>2. SameFamilies(H) /\ \A s \in H : token'[s].state = "deleted"
      BY <1>0, <2>5, <3>1, DeletedTokens
    <3>3. \A s \in Tokens : token'[s].state \in {"unused", "expired"} => token[s].state \in {"unused", "expired"}
      BY <3>2 DEF SameFamilies
    <3> QED
      BY <1>0, <2>2, <3>2, <3>3, TokensOnlyGo
  <2>8. CASE RevokeLost(r)
    <3>1. token' = [t \in Tokens |-> IF t \in H THEN [token[t] EXCEPT !.by = None] ELSE token[t]]
      BY <2>3, <2>8 DEF RevokeLost, Held
    <3>2. SameFamilies(H) /\ \A s \in H : token'[s].state = token[s].state
      BY <1>0, <2>5, <3>1, MarkedTokens
    <3>3. \A s \in Tokens : token'[s].state = token[s].state
      BY <3>2 DEF SameFamilies
    <3> QED
      BY <1>0, <2>2, <3>2, <3>3, TokensOnlyGo
  <2> QED
    BY <1>5, <2>6, <2>7, <2>8
<1> QED
  BY <1>1, <1>2, <1>3, <1>4, <1>5

(* Every step of connections.                                               *)
LEMMA StepWanes ==
  ASSUME ConnInv, ConnAction \/ UNCHANGED connVars, NEW c \in Conns, consent'[c] = "revoked"
  PROVE  Renewals(c)' <= Renewals(c)
<1>1. ASSUME NEW e \in Exchanges, NEW k \in Codes, NEW ok \in BOOLEAN, Redeem(e, k, ok)
      PROVE  Renewals(c)' <= Renewals(c)
  BY <1>1, RedeemWanes, RenewalsWane
<1>2. ASSUME NEW e \in Exchanges, RotateSpend(e) \/ \E t \in Tokens : Issue(e, t)
      PROVE  Renewals(c)' <= Renewals(c)
  BY <1>2, SpendWanes, IssueWanes, RenewalsWane
<1>3. ASSUME \/ \E e \in Exchanges, t \in Tokens : RotateRead(e, t) \/ RotateReplay(e, t)
             \/ \E e \in Exchanges : ExchangeLost(e)
             \/ \E t \in Tokens : TokenExpires(t)
             \/ \E r \in Enders : RevokeTokens(r) \/ RevokeCommit(r) \/ RevokeLost(r)
      PROVE  Renewals(c)' <= Renewals(c)
  BY <1>3, TokensWane, RenewalsWane
<1>4. ASSUME \/ \E u \in Persons, r \in Roles, off \in BOOLEAN : ChangeUser(u, r, off)
             \/ \E b \in Conns : RevokeKey(b) \/ Record(b) \/ ApproveLost(b) \/ \E k \in Codes : Approve(b, k)
             \/ \E k \in Codes : CodeExpires(k)
             \/ \E r \in Enders, b \in Conns : RevokeMark(r, b)
             \/ UNCHANGED connVars
      PROVE  Renewals(c)' <= Renewals(c)
  BY <1>4, ApprovalsWane, RenewalsWane
<1> QED
  BY <1>1, <1>2, <1>3, <1>4 DEF ConnAction, ConnStep

(* While a connection stays revoked, the ways it may be renewed only        *)
(* dwindle: what was under way may leave one token behind, and no token,    *)
(* code or request begets two.                                              *)
THEOREM RevokedConnectionsWane == Spec => RevokedOnlyWanes
<1>1. Init => ConnInv
  BY InitConnections DEF Init
<1>2. ConnInv /\ [Next]_vars =>
        [\A c \in Conns : consent[c] = "revoked" /\ consent'[c] = "revoked" => Renewals(c)' <= Renewals(c)]_connVars
  BY StepOfConnections, StepWanes
<1> QED
  BY <1>1, <1>2, StepKeeps, PTL DEF Spec, RevokedOnlyWanes
============================================================================
