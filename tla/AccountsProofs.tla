--------------------------- MODULE AccountsProofs --------------------------
(***************************************************************************)
(* What holds of Accounts for any number of people, factors, codes, links  *)
(* and requests: its types, that an organization always has an             *)
(* administrator who can act, that no proof is accepted twice, that        *)
(* guesses are bounded, that recovery codes follow the factors, and that   *)
(* asking for a reset link again invalidates the previous one.             *)
(*                                                                         *)
(* The count of the other administrators is made before the UPDATE, so the *)
(* first rests on nobody changing a role in between: the call that counted *)
(* holds the organization's lock until it commits or dies, and what it is  *)
(* about to write leaves an administrator.  The others rest on what a      *)
(* request under way holds: the row of its factor, its challenge, the      *)
(* marks it put on older links.                                            *)
(***************************************************************************)
EXTENDS Accounts, FiniteSetTheorems, TLAPS

(* The requests, with as much of their type as the argument needs.          *)
Counts == {Cardinality(S) : S \in SUBSET (Factors \cup Codes)}

CallRecord == [pc: {"idle", "update", "confirming", "remove", "removing", "asked", "asking", "redeeming"},
               user: Users \cup {None}, role: {"member", "org_admin"}, off: BOOLEAN,
               factor: Factors \cup {None}, challenge: Challenges \cup {None},
               link: Links \cup {None}, step: Steps \cup {0}, found: Counts, seen: SUBSET Links]

UserInv ==
  /\ role \in [Users -> {"member", "org_admin"}]
  /\ disabled \subseteq Users
  /\ call \in [Calls -> CallRecord]

(* A call between its count and its UPDATE holds the organization's lock.   *)
LockInv ==
  /\ orgLock \in Calls \cup {None}
  /\ \A k \in Calls : call[k].pc = "update" <=> orgLock = k

(* The administrators there will be once k has written.                     *)
AfterUpdate(k) ==
  {u \in Users : IF u = call[k].user THEN call[k].role = "org_admin" /\ ~call[k].off
                 ELSE u \in Administrators}

PendingInv ==
  \A k \in Calls : call[k].pc = "update" => call[k].user \in Users /\ AfterUpdate(k) # {}

AdminInv == UserInv /\ LockInv /\ PendingInv /\ Administered

----------------------------------------------------------------------------

(* What every step but UpdateRead, UpdateWrite and CallLost does to the     *)
(* state the argument is about: it leaves the people and the lock alone,    *)
(* and moves at most one call, from and to somewhere that holds no lock.    *)
Quiet ==
  /\ UNCHANGED <<role, disabled, orgLock>>
  /\ \/ UNCHANGED call
     \/ \E k \in Calls, r \in CallRecord :
          call[k].pc # "update" /\ r.pc # "update" /\ call' = [call EXCEPT ![k] = r]

(* The record of a request that waits is one of the records of requests.    *)
LEMMA IdleIsRecord == Idle \in CallRecord /\ Idle.pc = "idle" /\ 0 \in Counts
<1>1. Cardinality({}) = 0
  BY FS_EmptySet
<1>2. 0 \in Counts
  BY <1>1 DEF Counts
<1> QED
  BY <1>2 DEF CallRecord, Idle

(* Cardinality of a set of factors or of codes is one of the counts.        *)
LEMMA CountsOf == ASSUME NEW S, S \subseteq Factors \cup Codes PROVE Cardinality(S) \in Counts
  BY DEF Counts

(* A quiet step keeps the invariant.                                        *)
LEMMA QuietKeeps == AdminInv /\ Quiet => AdminInv'
<1> SUFFICES ASSUME AdminInv, Quiet PROVE AdminInv'
  OBVIOUS
<1> USE DEF AdminInv
<1>0. role' = role /\ disabled' = disabled /\ orgLock' = orgLock /\ Administrators' = Administrators
  BY DEF Quiet, Administrators
<1>1. CASE UNCHANGED call
  BY <1>0, <1>1 DEF UserInv, LockInv, PendingInv, AfterUpdate, Administered
<1>2. ASSUME NEW k \in Calls, NEW r \in CallRecord, call[k].pc # "update", r.pc # "update",
             call' = [call EXCEPT ![k] = r]
      PROVE  AdminInv'
  <2>1. call' \in [Calls -> CallRecord] /\ call'[k] = r /\ \A j \in Calls \ {k} : call'[j] = call[j]
    BY <1>2 DEF UserInv
  <2>2. UserInv'
    BY <1>0, <2>1 DEF UserInv
  <2>3. LockInv'
    BY <1>0, <1>2, <2>1 DEF LockInv
  <2>4. PendingInv'
    BY <1>0, <1>2, <2>1 DEF PendingInv, AfterUpdate
  <2> QED
    BY <1>0, <2>2, <2>3, <2>4 DEF Administered
<1> QED
  BY <1>1, <1>2 DEF Quiet

(* The call that counts takes the lock, and counted somebody else.          *)
LEMMA ReadKeeps ==
  ASSUME NEW k \in Calls, NEW u \in Users, NEW r \in {"member", "org_admin"}, NEW off \in BOOLEAN,
         AdminInv, UpdateRead(k, u, r, off)
  PROVE  AdminInv'
<1> DEFINE c == [Idle EXCEPT !.pc = "update", !.user = u, !.role = r, !.off = off]
<1>1. c \in CallRecord /\ c.pc = "update" /\ c.user = u /\ c.role = r /\ c.off = off
  BY IdleIsRecord DEF CallRecord, Idle
<1>2. call' = [call EXCEPT ![k] = c] /\ orgLock = None /\ orgLock' = k
  BY DEF UpdateRead, LockFree
<1>3. role' = role /\ disabled' = disabled /\ Administrators' = Administrators
  BY DEF UpdateRead, Administrators
<1>4. ~(u \in Administrators /\ (r # "org_admin" \/ off) /\ Administrators \ {u} = {})
  BY DEF UpdateRead
<1> HIDE DEF c
<1>5. call' \in [Calls -> CallRecord] /\ call'[k] = c /\ \A j \in Calls \ {k} : call'[j] = call[j]
  BY <1>1, <1>2 DEF AdminInv, UserInv
<1>6. UserInv'
  BY <1>3, <1>5 DEF AdminInv, UserInv
<1>7. \A j \in Calls : call[j].pc # "update"
  BY <1>2, AccountsAssumption DEF AdminInv, LockInv
<1>8. LockInv'
  BY <1>1, <1>2, <1>5, <1>7 DEF LockInv
<1>9. AfterUpdate(k)' # {}
  <2>1. AfterUpdate(k)' = {x \in Users : IF x = u THEN r = "org_admin" /\ ~off ELSE x \in Administrators}
    BY <1>1, <1>3, <1>5 DEF AfterUpdate
  <2>2. Administrators # {} /\ Administrators \subseteq Users
    BY DEF AdminInv, Administered, Administrators
  <2> QED
    BY <1>4, <2>1, <2>2
<1>10. PendingInv'
  BY <1>1, <1>5, <1>7, <1>9 DEF PendingInv
<1> QED
  BY <1>3, <1>6, <1>8, <1>10 DEF AdminInv, Administered

(* The UPDATE: no other call is between its own count and its own UPDATE.   *)
LEMMA WriteKeeps ==
  ASSUME NEW k \in Calls, AdminInv, UpdateWrite(k) PROVE AdminInv'
<1>1. /\ call[k].pc = "update" /\ orgLock' = None /\ call' = [call EXCEPT ![k] = Idle]
      /\ role' = [role EXCEPT ![call[k].user] = call[k].role]
      /\ disabled' = IF call[k].off THEN disabled \cup {call[k].user} ELSE disabled \ {call[k].user}
  BY DEF UpdateWrite, Ends
<1>2. call[k].user \in Users /\ AfterUpdate(k) # {} /\ orgLock = k
  BY <1>1 DEF AdminInv, PendingInv, LockInv
<1>3. call[k] \in CallRecord
  BY DEF AdminInv, UserInv
<1>4. call[k].role \in {"member", "org_admin"} /\ call[k].off \in BOOLEAN
  BY <1>3 DEF CallRecord
<1>5. call' \in [Calls -> CallRecord] /\ call'[k] = Idle /\ \A j \in Calls \ {k} : call'[j] = call[j]
  BY <1>1, IdleIsRecord DEF AdminInv, UserInv
<1>6. role' \in [Users -> {"member", "org_admin"}] /\ disabled' \subseteq Users
  BY <1>1, <1>2, <1>4 DEF AdminInv, UserInv
<1>7. \A j \in Calls : call'[j].pc # "update"
  BY <1>2, <1>5, IdleIsRecord DEF AdminInv, LockInv
<1>8. Administrators' = AfterUpdate(k)
  BY <1>1, <1>2, <1>4 DEF Administrators, AfterUpdate, AdminInv, UserInv
<1> QED
  BY <1>1, <1>2, <1>5, <1>6, <1>7, <1>8, AccountsAssumption
     DEF AdminInv, UserInv, LockInv, PendingInv, Administered

(* A call that dies writes nothing and gives its lock back.                 *)
LEMMA LostKeeps ==
  ASSUME NEW k \in Calls, AdminInv, CallLost(k) PROVE AdminInv'
<1>1. /\ role' = role /\ disabled' = disabled /\ call' = [call EXCEPT ![k] = Idle]
      /\ orgLock' = IF orgLock = k THEN None ELSE orgLock
      /\ Administrators' = Administrators
  BY DEF CallLost, Ends, Administrators
<1>2. call' \in [Calls -> CallRecord] /\ call'[k] = Idle /\ \A j \in Calls \ {k} : call'[j] = call[j]
  BY <1>1, IdleIsRecord DEF AdminInv, UserInv
<1>3. LockInv'
  BY <1>1, <1>2, IdleIsRecord, AccountsAssumption DEF AdminInv, LockInv
<1>4. PendingInv'
  BY <1>1, <1>2, IdleIsRecord DEF AdminInv, PendingInv, AfterUpdate
<1> QED
  BY <1>1, <1>2, <1>3, <1>4 DEF AdminInv, UserInv, Administered

----------------------------------------------------------------------------

(* A request that starts or proves something, other than an update of a     *)
(* person, moves its call to a record that holds no lock.                   *)
LEMMA StartQuiet ==
  ASSUME NEW k \in Calls, NEW r \in CallRecord, r.pc # "update", call[k] = Idle,
         UNCHANGED userVars, UNCHANGED call \/ call' = [call EXCEPT ![k] = r]
  PROVE  Quiet
  BY IdleIsRecord DEF Quiet, userVars

(* The same for a request that ends.                                        *)
LEMMA EndQuiet ==
  ASSUME NEW k \in Calls, call[k].pc # "update", UNCHANGED userVars, Ends(k)
  PROVE  Quiet
  BY IdleIsRecord DEF Quiet, userVars, Ends

(* A proof leads to a sign-in, which is over, or to the removal of f.       *)
LEMMA ProvedRecord ==
  ASSUME NEW f \in Factors \cup {None}
  PROVE  LET r == IF f = None THEN Idle ELSE [Idle EXCEPT !.pc = "remove", !.factor = f]
         IN  r \in CallRecord /\ r.pc # "update"
  BY IdleIsRecord DEF CallRecord, Idle

(* Either way no lock is taken.                                             *)
LEMMA ProvedQuiet ==
  ASSUME NEW k \in Calls, NEW f \in Factors \cup {None}, call[k] = Idle, UNCHANGED userVars,
         UNCHANGED call \/ Proved(k, f)
  PROVE  Quiet
<1> DEFINE r == IF f = None THEN Idle ELSE [Idle EXCEPT !.pc = "remove", !.factor = f]
<1>1. r \in CallRecord /\ r.pc # "update"
  BY ProvedRecord
<1>2. UNCHANGED call \/ call' = [call EXCEPT ![k] = r]
  BY DEF Proved
<1> HIDE DEF r
<1> QED
  BY <1>1, <1>2, StartQuiet

(* Steps of nobody's request.                                               *)
LEMMA ClockQuiet ==
  ASSUME Tick \/ (\E c \in Challenges : ChallengeExpires(c)) \/ (\E l \in Links : LinkExpires(l))
           \/ (\E f \in Factors : LockLapses(f))
  PROVE  Quiet
  BY DEF Quiet, userVars, Tick, ChallengeExpires, LinkExpires, LockLapses

(* Enrolments: the row or the challenge they begin with.                    *)
LEMMA BeginQuiet ==
  ASSUME NEW k \in Calls, NEW f, NEW purpose, Begin(k, f) \/ IssueChallenge(k, f, purpose)
  PROVE  Quiet
  BY IdleIsRecord, StartQuiet DEF Begin, IssueChallenge, Begins

(* The code of an authenticator that is being enrolled.                     *)
LEMMA ConfirmReadQuiet ==
  ASSUME NEW k \in Calls, NEW f \in Factors, NEW s \in Steps, ConfirmRead(k, f, s)
  PROVE  Quiet
<1> DEFINE n == Cardinality(Unused)
           r == [Idle EXCEPT !.pc = "confirming", !.factor = f, !.step = s, !.found = n]
<1>1. n \in Counts
  BY CountsOf DEF Unused
<1>2. call[k] = Idle /\ UNCHANGED userVars /\ call' = [call EXCEPT ![k] = r]
  BY DEF ConfirmRead, Begins
<1> HIDE DEF n
<1>3. r \in CallRecord /\ r.pc # "update"
  BY <1>1, IdleIsRecord DEF CallRecord, Idle
<1> HIDE DEF r
<1> QED
  BY <1>2, <1>3, StartQuiet

(* The answer of a security key that is being enrolled.                     *)
LEMMA RegisterReadQuiet ==
  ASSUME NEW k \in Calls, NEW f \in Factors, NEW c \in Challenges, NEW s \in Steps \cup {0}, RegisterRead(k, f, c, s)
  PROVE  Quiet
<1> DEFINE n == Cardinality(Unused)
           r == [Idle EXCEPT !.pc = "confirming", !.factor = f, !.challenge = c, !.step = s, !.found = n]
<1>1. n \in Counts
  BY CountsOf DEF Unused
<1>2. call[k] = Idle /\ UNCHANGED userVars /\ call' = [call EXCEPT ![k] = r]
  BY DEF RegisterRead, Begins
<1> HIDE DEF n
<1>3. r \in CallRecord /\ r.pc # "update"
  BY <1>1, IdleIsRecord DEF CallRecord, Idle
<1> HIDE DEF r
<1> QED
  BY <1>2, <1>3, StartQuiet

(* The requests that end with their step.                                   *)
LEMMA CommitQuiet ==
  ASSUME NEW k \in Calls, NEW x,
         ConfirmCommit(k, x) \/ RemoveCommit(k) \/ AskCommit(k, x) \/ RedeemSpend(k)
  PROVE  Quiet
<1>1. call[k].pc # "update" /\ UNCHANGED userVars /\ Ends(k)
  BY DEF ConfirmCommit, RemoveCommit, AskCommit, RedeemSpend
<1> QED
  BY <1>1, EndQuiet

(* The three proofs of a second factor.                                     *)
LEMMA VerifyQuiet ==
  ASSUME NEW k \in Calls, NEW g \in Factors \cup {None}, NEW f, NEW c, NEW s, NEW x,
         VerifyRecovery(k, x, g) \/ VerifyTotp(k, f, s, g) \/ VerifyAssertion(k, c, f, s, g)
  PROVE  Quiet
<1>1. call[k] = Idle /\ UNCHANGED userVars /\ (UNCHANGED call \/ Proved(k, g))
  BY DEF VerifyRecovery, VerifyTotp, VerifyAssertion, Begins
<1> QED
  BY <1>1, ProvedQuiet

(* The removal of a factor.                                                 *)
LEMMA RemoveQuiet ==
  ASSUME NEW k \in Calls, UserInv, RemoveDelete(k)
  PROVE  Quiet
<1>1. call[k].pc = "remove" /\ UNCHANGED userVars
  BY DEF RemoveDelete
<1>2. CASE Ends(k)
  BY <1>1, <1>2, EndQuiet
<1>3. CASE ~Ends(k)
  <2> DEFINE n == Cardinality(Confirmed \ {call[k].factor})
             r == [call[k] EXCEPT !.pc = "removing", !.found = n]
  <2>1. n \in Counts
    BY CountsOf DEF Confirmed
  <2>2. call' = [call EXCEPT ![k].pc = "removing", ![k].found = n]
    BY <1>3 DEF RemoveDelete
  <2> HIDE DEF n
  <2>3. call[k] \in CallRecord
    BY DEF UserInv
  <2>4. r \in CallRecord /\ r.pc = "removing"
    BY <2>1, <2>3 DEF CallRecord
  <2>5. call' = [call EXCEPT ![k] = r]
    BY <2>2, <2>3 DEF UserInv, CallRecord
  <2> HIDE DEF r
  <2> QED
    BY <1>1, <2>4, <2>5 DEF Quiet, userVars
<1> QED
  BY <1>2, <1>3

(* A reset link is asked for.                                               *)
LEMMA AskReadQuiet ==
  ASSUME NEW k \in Calls, AskRead(k) PROVE Quiet
<1> DEFINE r == [Idle EXCEPT !.pc = "asked", !.seen = Live]
<1>1. r \in CallRecord /\ r.pc # "update"
  BY IdleIsRecord DEF CallRecord, Idle, Live
<1>2. call[k] = Idle /\ UNCHANGED userVars /\ call' = [call EXCEPT ![k] = r]
  BY DEF AskRead, Begins
<1> HIDE DEF r
<1> QED
  BY <1>1, <1>2, StartQuiet

(* The older ones are marked.                                               *)
LEMMA AskMarkQuiet ==
  ASSUME NEW k \in Calls, UserInv, AskMark(k) PROVE Quiet
<1> DEFINE r == [call[k] EXCEPT !.pc = "asking"]
<1>1. call[k].pc = "asked" /\ UNCHANGED userVars /\ call' = [call EXCEPT ![k].pc = "asking"]
  BY DEF AskMark
<1>2. call[k] \in CallRecord
  BY DEF UserInv
<1>3. r \in CallRecord /\ r.pc = "asking"
  BY <1>2 DEF CallRecord
<1>4. call' = [call EXCEPT ![k] = r]
  BY <1>1, <1>2 DEF UserInv, CallRecord
<1> HIDE DEF r
<1> QED
  BY <1>1, <1>3, <1>4 DEF Quiet, userVars

(* A reset link is presented.                                               *)
LEMMA RedeemQuiet ==
  ASSUME NEW k \in Calls, NEW l \in Links, RedeemRead(k, l) PROVE Quiet
<1> DEFINE r == [Idle EXCEPT !.pc = "redeeming", !.link = l]
<1>1. r \in CallRecord /\ r.pc # "update"
  BY IdleIsRecord DEF CallRecord, Idle
<1>2. call[k] = Idle /\ UNCHANGED userVars /\ call' = [call EXCEPT ![k] = r]
  BY DEF RedeemRead, Begins
<1> HIDE DEF r
<1> QED
  BY <1>1, <1>2, StartQuiet

----------------------------------------------------------------------------

(* The steps that touch the people or the lock, and all the others.         *)
LEMMA NextSplits ==
  ASSUME UserInv, Next
  PROVE  \/ Quiet
         \/ \E k \in Calls, u \in Users, r \in {"member", "org_admin"}, off \in BOOLEAN : UpdateRead(k, u, r, off)
         \/ \E k \in Calls : UpdateWrite(k) \/ CallLost(k)
<1>1. ASSUME NEW k \in Calls, RemoveDelete(k) \/ RemoveCommit(k) \/ AskRead(k) \/ AskMark(k) \/ RedeemSpend(k)
      PROVE  Quiet
  BY <1>1, RemoveQuiet, CommitQuiet, AskReadQuiet, AskMarkQuiet
<1>2. ASSUME NEW k \in Calls, NEW f \in Authenticators, Begin(k, f) \/ \E s \in Steps : ConfirmRead(k, f, s)
      PROVE  Quiet
  BY <1>2, BeginQuiet, ConfirmReadQuiet DEF Authenticators
<1>3. ASSUME NEW k \in Calls, NEW c \in Challenges, NEW purpose \in {"register", "authenticate"}, IssueChallenge(k, c, purpose)
      PROVE  Quiet
  BY <1>3, BeginQuiet
<1>4. ASSUME NEW k \in Calls, NEW f \in Keys, NEW c \in Challenges, NEW n \in Steps \cup {0},
             RegisterRead(k, f, c, n) \/ \E g \in Factors \cup {None} : VerifyAssertion(k, c, f, n, g)
      PROVE  Quiet
  BY <1>4, RegisterReadQuiet, VerifyQuiet, AccountsAssumption
<1>5. ASSUME NEW k \in Calls, NEW minted \in SUBSET Codes, ConfirmCommit(k, minted)
      PROVE  Quiet
  BY <1>5, CommitQuiet
<1>6. ASSUME NEW k \in Calls, NEW g \in Factors \cup {None},
             \/ \E x \in Codes : VerifyRecovery(k, x, g)
             \/ \E f \in Authenticators, s \in Steps \cup {0} : VerifyTotp(k, f, s, g)
      PROVE  Quiet
  BY <1>6, VerifyQuiet
<1>7. ASSUME NEW k \in Calls, NEW l \in Links, AskCommit(k, l) \/ RedeemRead(k, l)
      PROVE  Quiet
  BY <1>7, CommitQuiet, RedeemQuiet
<1> QED
  BY <1>1, <1>2, <1>3, <1>4, <1>5, <1>6, <1>7, ClockQuiet DEF Next

(* Every step keeps the invariant.                                          *)
LEMMA StepKeeps == AdminInv /\ [Next]_vars => AdminInv'
<1> SUFFICES ASSUME AdminInv, [Next]_vars PROVE AdminInv'
  OBVIOUS
<1>1. CASE UNCHANGED vars
  BY <1>1, QuietKeeps DEF vars, userVars, Quiet
<1>2. CASE Next
  BY <1>2, NextSplits, QuietKeeps, ReadKeeps, WriteKeeps, LostKeeps DEF AdminInv
<1> QED
  BY <1>1, <1>2

(* An organization starts with an administrator.                            *)
LEMMA InitAdministered == Init => AdminInv
<1> SUFFICES ASSUME Init PROVE AdminInv
  OBVIOUS
<1>1. UserInv
  BY IdleIsRecord DEF Init, UserInv
<1>2. LockInv /\ PendingInv
  BY IdleIsRecord, AccountsAssumption DEF Init, LockInv, PendingInv
<1>3. Owner \in Administrators
  BY AccountsAssumption DEF Init, Administrators
<1> QED
  BY <1>1, <1>2, <1>3 DEF AdminInv, Administered

(* The organization always has an administrator who can act: PATCH          *)
(* /v1/users/<id> counts the other administrators and writes under the      *)
(* organization's lock, so of two that demote each other one is refused,    *)
(* for any number of people and of requests, some of which die.             *)
THEOREM AlwaysAdministered == Spec => []Administered
<1>1. AdminInv => Administered
  BY DEF AdminInv
<1> QED
  BY <1>1, InitAdministered, StepKeeps, PTL DEF Spec

----------------------------------------------------------------------------
(* The factors: the failures of a row are the guesses made since its last   *)
(* success, its lock keeps them within the bound, and a row that is not     *)
(* confirmed has none and no step.                                          *)
FactorRow ==
  [state: {"none", "begun", "confirmed"}, step: Steps \cup {0}, fails: 0 .. (MaxFailures + MaxLapses),
   locked: BOOLEAN, by: Calls \cup {None}]

GoodFactor(r, g, n) ==
  /\ r \in FactorRow /\ g = r.fails /\ n \in 0 .. MaxLapses
  /\ r.fails <= MaxFailures + n
  /\ ~r.locked => r.fails < MaxFailures + n
  /\ r.state # "confirmed" => r.step = 0 /\ r.fails = 0

GuessInv ==
  /\ factor \in [Factors -> FactorRow]
  /\ guesses \in [Factors -> Nat] /\ lapses \in [Factors -> Nat]
  /\ \A f \in Factors : GoodFactor(factor[f], guesses[f], lapses[f])

(* A request that enrols or removes a factor has its row locked; one that   *)
(* enrols a security key has its challenge too, which is live until then.   *)
ChallengeRow ==
  [state: {"none", "live", "used", "expired"}, purpose: {"register", "authenticate", None}, by: Calls \cup {None}]

HoldsFactor(k) == call[k].factor \in Factors /\ factor[call[k].factor].by = k

HoldsProof(k) ==
  \/ call[k].challenge = None /\ call[k].factor \in Authenticators /\ call[k].step \in Steps
  \/ /\ call[k].challenge \in Challenges /\ call[k].factor \in Keys
     /\ challenge[call[k].challenge].by = k

Holds(k) ==
  /\ call[k].pc = "remove" => call[k].factor \in Factors
  /\ call[k].pc = "removing" => HoldsFactor(k)
  /\ call[k].pc = "confirming" =>
        HoldsFactor(k) /\ HoldsProof(k) /\ factor[call[k].factor].state # "confirmed"

HoldInv ==
  /\ challenge \in [Challenges -> ChallengeRow]
  /\ \A c \in Challenges : challenge[c].by # None => challenge[c].state = "live"
  /\ \A k \in Calls : Holds(k)

(* A proof that was accepted shows it: a recovery code or a challenge is    *)
(* past its use, a TOTP step is not above the one the row remembers.        *)
AcceptInv ==
  /\ accepted \in [Proofs -> {0, 1}]
  /\ code \in [Codes -> {"none", "unused", "used", "gone"}]
  /\ \A x \in Codes : code[x] \in {"none", "unused"} => accepted[x] = 0
  /\ \A c \in Challenges : challenge[c].state \in {"none", "live"} => accepted[c] = 0
  /\ \A f \in Authenticators, s \in Steps : s > factor[f].step => accepted[<<f, s>>] = 0

(* While enrolments and removals do not overlap: one request at a time      *)
(* enrols or removes, what it counted still holds, and codes follow.        *)
FollowInv ==
  /\ raced \in BOOLEAN
  /\ ~raced =>
       /\ \A j, k \in Calls : Enrolling(j) /\ Enrolling(k) => j = k
       /\ \A k \in Calls : call[k].pc = "confirming" /\ call[k].found > 0 =>
             \E x \in Codes : code[x] \in {"unused", "used"}
       /\ \A k \in Calls : call[k].pc = "removing" =>
             call[k].found = Cardinality(Confirmed \ {call[k].factor})
       /\ Confirmed = {} => Unused = {}
       /\ Confirmed # {} => \E x \in Codes : code[x] \in {"unused", "used"}

(* A request for a link has marked every live link there was when it began; *)
(* a link not yet sent was there for nobody; a link that set a password is  *)
(* past its use.                                                            *)
LinkRow == [state: {"none", "live", "used", "expired"}, by: Calls \cup {None}, older: SUBSET Links]

Sent == {l \in Links : link[l].state # "none"}

LinkInv ==
  /\ link \in [Links -> LinkRow] /\ resets \in [Links -> {0, 1}]
  /\ \A l \in Links : link[l].state \in {"none", "live"} => resets[l] = 0
  /\ \A l \in Links : link[l].older \subseteq Sent
  /\ \A k \in Calls : call[k].pc = "redeeming" => call[k].link \in Links
  /\ \A k \in Calls : call[k].pc \in {"asked", "asking"} => call[k].seen \subseteq Sent
  /\ \A k \in Calls : call[k].pc = "asking" => \A l \in Live \cap call[k].seen : link[l].by = k
  /\ AskingAgainInvalidates

ClockInv == now \in Steps /\ ops \in 0 .. MaxOps

----------------------------------------------------------------------------
(* What each step does to the requests.                                     *)

(* A request ends.                                                          *)
LEMMA EndsCall ==
  ASSUME UserInv, NEW k \in Calls, Ends(k)
  PROVE  call'[k].pc = "idle" /\ \A j \in Calls \ {k} : call'[j] = call[j]
  BY IdleIsRecord DEF Ends, UserInv

(* One moves on.                                                            *)
LEMMA MovesCall ==
  ASSUME UserInv, NEW k \in Calls, NEW r, call' = [call EXCEPT ![k] = r]
  PROVE  call'[k] = r /\ \A j \in Calls \ {k} : call'[j] = call[j]
  BY DEF UserInv

(* A person is looked up for an update.                                     *)
LEMMA UpdateReadCall ==
  ASSUME UserInv, NEW k \in Calls, NEW u, NEW r, NEW off, UpdateRead(k, u, r, off)
  PROVE  /\ call[k].pc = "idle" /\ call'[k].pc = "update"
         /\ \A j \in Calls \ {k} : call'[j] = call[j]
  BY DEF UserInv, UpdateRead, Begins, Idle

(* The code that confirms an authenticator is verified.                     *)
LEMMA ConfirmReadCall ==
  ASSUME UserInv, NEW k \in Calls, NEW f, NEW s, ConfirmRead(k, f, s)
  PROVE  /\ call[k].pc = "idle" /\ call'[k].pc = "confirming"
         /\ call'[k].factor = f /\ call'[k].challenge = None /\ call'[k].step = s
         /\ call'[k].found = Cardinality(Unused)
         /\ \A j \in Calls \ {k} : call'[j] = call[j]
<1> DEFINE n == Cardinality(Unused)
<1>1. call[k] = Idle /\ call' = [call EXCEPT ![k] = [Idle EXCEPT !.pc = "confirming", !.factor = f, !.step = s, !.found = n]]
  BY DEF ConfirmRead, Begins
<1> HIDE DEF n
<1>2. /\ call[k].pc = "idle" /\ call'[k].pc = "confirming"
      /\ call'[k].factor = f /\ call'[k].challenge = None /\ call'[k].step = s
      /\ call'[k].found = n
      /\ \A j \in Calls \ {k} : call'[j] = call[j]
  BY <1>1 DEF UserInv, Idle
<1> QED
  BY <1>2 DEF n

(* The answer of a security key is looked at.                               *)
LEMMA RegisterReadCall ==
  ASSUME UserInv, NEW k \in Calls, NEW f, NEW c, NEW s, RegisterRead(k, f, c, s)
  PROVE  /\ call[k].pc = "idle" /\ call'[k].pc = "confirming"
         /\ call'[k].factor = f /\ call'[k].challenge = c /\ call'[k].step = s
         /\ call'[k].found = Cardinality(Unused)
         /\ \A j \in Calls \ {k} : call'[j] = call[j]
<1> DEFINE n == Cardinality(Unused)
<1>1. /\ call[k] = Idle
      /\ call' = [call EXCEPT ![k] = [Idle EXCEPT !.pc = "confirming", !.factor = f, !.challenge = c, !.step = s, !.found = n]]
  BY DEF RegisterRead, Begins
<1> HIDE DEF n
<1>2. /\ call[k].pc = "idle" /\ call'[k].pc = "confirming"
      /\ call'[k].factor = f /\ call'[k].challenge = c /\ call'[k].step = s
      /\ call'[k].found = n
      /\ \A j \in Calls \ {k} : call'[j] = call[j]
  BY <1>1 DEF UserInv, Idle
<1> QED
  BY <1>2 DEF n

(* Something is proved, or not.                                             *)
LEMMA ProvedCall ==
  ASSUME UserInv, NEW k \in Calls, NEW g \in Factors \cup {None}, call[k] = Idle,
         UNCHANGED call \/ Proved(k, g)
  PROVE  /\ call[k].pc = "idle" /\ call'[k].pc \in {"idle", "remove"}
         /\ call'[k].pc = "remove" => call'[k].factor \in Factors
         /\ \A j \in Calls \ {k} : call'[j] = call[j]
<1>0. Idle.pc = "idle"
  BY DEF Idle
<1>1. CASE UNCHANGED call
  BY <1>0, <1>1
<1>2. CASE Proved(k, g) /\ g = None
  BY <1>0, <1>2 DEF UserInv, Proved
<1>3. CASE Proved(k, g) /\ g # None
  BY <1>3 DEF UserInv, Proved, Idle
<1> QED
  BY <1>1, <1>2, <1>3

(* A factor is deleted.                                                     *)
LEMMA RemoveDeleteCall ==
  ASSUME UserInv, NEW k \in Calls, RemoveDelete(k), ~Ends(k)
  PROVE  /\ call[k].pc = "remove" /\ call'[k].pc = "removing" /\ call'[k].factor = call[k].factor
         /\ call'[k].found = Cardinality(Confirmed \ {call[k].factor})
         /\ \A j \in Calls \ {k} : call'[j] = call[j]
<1> DEFINE n == Cardinality(Confirmed \ {call[k].factor})
<1>1. call[k].pc = "remove" /\ call' = [call EXCEPT ![k].pc = "removing", ![k].found = n]
  BY DEF RemoveDelete
<1> HIDE DEF n
<1>2. call[k] \in CallRecord
  BY DEF UserInv
<1>3. /\ call'[k].pc = "removing" /\ call'[k].factor = call[k].factor /\ call'[k].found = n
      /\ \A j \in Calls \ {k} : call'[j] = call[j]
  BY <1>1, <1>2 DEF UserInv, CallRecord
<1> QED
  BY <1>1, <1>3 DEF n

(* A link is asked for.                                                     *)
LEMMA AskReadCall ==
  ASSUME UserInv, NEW k \in Calls, AskRead(k)
  PROVE  /\ call[k].pc = "idle" /\ call'[k].pc = "asked" /\ call'[k].seen = Live
         /\ \A j \in Calls \ {k} : call'[j] = call[j]
  BY DEF UserInv, AskRead, Begins, Idle

(* The older ones are marked.                                               *)
LEMMA AskMarkCall ==
  ASSUME UserInv, NEW k \in Calls, AskMark(k)
  PROVE  /\ call[k].pc = "asked" /\ call'[k].pc = "asking" /\ call'[k].seen = call[k].seen
         /\ \A j \in Calls \ {k} : call'[j] = call[j]
<1>1. call[k].pc = "asked" /\ call' = [call EXCEPT ![k].pc = "asking"]
  BY DEF AskMark
<1>2. call[k] \in CallRecord
  BY DEF UserInv
<1> QED
  BY <1>1, <1>2 DEF UserInv, CallRecord

(* A link is presented.                                                     *)
LEMMA RedeemReadCall ==
  ASSUME UserInv, NEW k \in Calls, NEW l, RedeemRead(k, l)
  PROVE  /\ call[k].pc = "idle" /\ call'[k].pc = "redeeming" /\ call'[k].link = l
         /\ \A j \in Calls \ {k} : call'[j] = call[j]
  BY DEF UserInv, RedeemRead, Begins, Idle

----------------------------------------------------------------------------
(* Reset links.                                                             *)

(* What the steps that are not about links do to LinkInv's state.           *)
LinkSpared ==
  /\ UNCHANGED linkVars
  /\ \A k \in Calls : call'[k].pc \in {"asked", "asking", "redeeming"} => call'[k] = call[k]

(* They keep it.                                                            *)
LEMMA LinkFrame == LinkInv /\ LinkSpared => LinkInv'
  BY DEF LinkInv, LinkSpared, linkVars, Live, Sent, AskingAgainInvalidates

(* All but seven of the steps are not about links.                            *)
LEMMA LinkSplits ==
  ASSUME UserInv, Next
  PROVE  \/ LinkSpared
         \/ \E k \in Calls : AskRead(k) \/ AskMark(k) \/ RedeemSpend(k) \/ CallLost(k)
         \/ \E k \in Calls, l \in Links : AskCommit(k, l) \/ RedeemRead(k, l)
         \/ \E l \in Links : LinkExpires(l)
<1> USE DEF LinkSpared
<1>1. ASSUME NEW k \in Calls, NEW u \in Users, NEW r \in {"member", "org_admin"}, NEW off \in BOOLEAN,
             UpdateRead(k, u, r, off)
      PROVE  LinkSpared
  BY <1>1, UpdateReadCall DEF UpdateRead, linkVars
<1>2. ASSUME NEW k \in Calls, NEW m, UpdateWrite(k) \/ RemoveCommit(k) \/ ConfirmCommit(k, m)
      PROVE  LinkSpared
  BY <1>2, EndsCall DEF UpdateWrite, RemoveCommit, ConfirmCommit
<1>3. ASSUME NEW k \in Calls, RemoveDelete(k)
      PROVE  LinkSpared
  <2>1. CASE Ends(k)
    BY <1>3, <2>1, EndsCall DEF RemoveDelete
  <2>2. CASE ~Ends(k)
    BY <1>3, <2>2, RemoveDeleteCall DEF RemoveDelete
  <2> QED
    BY <2>1, <2>2
<1>4. ASSUME NEW k \in Calls, NEW f, NEW p, Begin(k, f) \/ IssueChallenge(k, f, p)
      PROVE  LinkSpared
  BY <1>4 DEF Begin, IssueChallenge
<1>5. ASSUME NEW k \in Calls, NEW f, NEW c, NEW s, ConfirmRead(k, f, s) \/ RegisterRead(k, f, c, s)
      PROVE  LinkSpared
  BY <1>5, ConfirmReadCall, RegisterReadCall DEF ConfirmRead, RegisterRead
<1>6. ASSUME NEW k \in Calls, NEW g \in Factors \cup {None}, NEW f, NEW c, NEW s, NEW x,
             VerifyRecovery(k, x, g) \/ VerifyTotp(k, f, s, g) \/ VerifyAssertion(k, c, f, s, g)
      PROVE  LinkSpared
  <2>1. call[k] = Idle /\ UNCHANGED linkVars /\ (UNCHANGED call \/ Proved(k, g))
    BY <1>6 DEF VerifyRecovery, VerifyTotp, VerifyAssertion, Begins
  <2> QED
    BY <2>1, ProvedCall
<1>7. ASSUME NEW c, ChallengeExpires(c) \/ LockLapses(c) \/ Tick
      PROVE  LinkSpared
  BY <1>7 DEF ChallengeExpires, LockLapses, Tick
<1> HIDE DEF LinkSpared
<1> QED
  BY <1>1, <1>2, <1>3, <1>4, <1>5, <1>6, <1>7 DEF Next

(* A request begins to end the older links.                                 *)
LEMMA AskReadLink ==
  ASSUME UserInv, LinkInv, NEW k \in Calls, AskRead(k) PROVE LinkInv'
<1>1. UNCHANGED linkVars /\ Live \subseteq Sent
  BY DEF AskRead, Live, Sent
<1> QED
  BY <1>1, AskReadCall DEF LinkInv, linkVars, Live, Sent, AskingAgainInvalidates

(* It marks them.                                                           *)
LEMMA AskMarkLink ==
  ASSUME UserInv, LinkInv, NEW k \in Calls, AskMark(k) PROVE LinkInv'
<1>1. /\ \A l \in call[k].seen : link[l].by = None
      /\ UNCHANGED resets
      /\ link' = [l \in Links |-> IF l \in Older(k) THEN [link[l] EXCEPT !.by = k] ELSE link[l]]
  BY DEF AskMark
<1>2. \A l \in Links : /\ link'[l] \in LinkRow /\ link'[l].state = link[l].state /\ link'[l].older = link[l].older
                       /\ link'[l].by = IF l \in Older(k) THEN k ELSE link[l].by
  BY <1>1 DEF LinkInv, LinkRow
<1>3. Live' = Live /\ Sent' = Sent /\ link' \in [Links -> LinkRow]
  BY <1>1, <1>2 DEF Live, Sent
<1>4. \A j \in Calls : call'[j].pc = "asking" => \A l \in Live \cap call'[j].seen : link'[l].by = j
  <2>1. \A l \in Live \cap call[k].seen : link'[l].by = k
    BY <1>2 DEF Live, Older
  <2>2. ASSUME NEW j \in Calls, j # k, call[j].pc = "asking", NEW l \in Live \cap call[j].seen
        PROVE  link'[l].by = j
    <3>1. l \in Links /\ link[l].by = j /\ link[l].by # None
      BY <2>2, AccountsAssumption DEF LinkInv, Live
    <3>2. l \notin Older(k)
      BY <1>1, <3>1 DEF Older
    <3> QED
      BY <1>2, <3>1, <3>2
  <2> QED
    BY <2>1, <2>2, AskMarkCall
<1>5. \A j \in Calls : call'[j].pc = "redeeming" => call'[j].link \in Links
  BY AskMarkCall DEF LinkInv
<1>6. AskingAgainInvalidates'
  BY <1>2, <1>3 DEF LinkInv, AskingAgainInvalidates, Live
<1>7. \A l \in Links : link'[l].state \in {"none", "live"} => resets'[l] = 0
  BY <1>1, <1>2 DEF LinkInv
<1>8. \A j \in Calls : call'[j].pc \in {"asked", "asking"} => call'[j].seen \subseteq Sent'
  BY <1>3, AskMarkCall DEF LinkInv
<1>9. \A l \in Links : link'[l].older \subseteq Sent'
  BY <1>2, <1>3 DEF LinkInv
<1> QED
  BY <1>1, <1>3, <1>4, <1>5, <1>6, <1>7, <1>8, <1>9 DEF LinkInv

(* The new link is inserted, those marked are used.                         *)
LEMMA AskCommitLink ==
  ASSUME UserInv, LinkInv, NEW k \in Calls, NEW n \in Links, AskCommit(k, n) PROVE LinkInv'
<1> DEFINE fresh == [state |-> "live", by |-> None, older |-> call[k].seen]
           spent(l) == [link[l] EXCEPT !.state = "used", !.by = None]
<1>1. /\ call[k].pc = "asking" /\ link[n] = NoLink /\ Ends(k) /\ UNCHANGED resets
      /\ link' = [l \in Links |-> IF l = n THEN fresh ELSE IF link[l].by = k THEN spent(l) ELSE link[l]]
  BY DEF AskCommit
<1>a. call[k].seen \subseteq Sent /\ Sent \subseteq Links /\ n \notin Sent
  <2>0. link[n] = NoLink
    BY DEF AskCommit
  <2>1. link[n].state = "none" /\ Sent \subseteq Links
    BY <2>0 DEF NoLink, Sent
  <2>2. call[k].seen \subseteq Sent
    BY <1>1 DEF LinkInv
  <2> QED
    BY <2>1, <2>2 DEF Sent
<1>b. \A j \in Calls : call'[j].pc \in {"asked", "asking", "redeeming"} => j # k /\ call'[j] = call[j]
  BY <1>1, EndsCall
<1>f. fresh \in LinkRow /\ fresh.state = "live" /\ fresh.older = call[k].seen
  BY <1>a DEF LinkRow
<1>s. \A l \in Links : /\ spent(l) \in LinkRow /\ spent(l).older = link[l].older
                        /\ spent(l).state = "used" /\ spent(l).by = None
  <2> SUFFICES ASSUME NEW l \in Links
               PROVE  /\ spent(l) \in LinkRow /\ spent(l).older = link[l].older
                      /\ spent(l).state = "used" /\ spent(l).by = None
    OBVIOUS
  <2>1. link[l] \in LinkRow
    BY DEF LinkInv
  <2> QED
    BY <2>1 DEF LinkRow
<1> HIDE DEF fresh, spent
<1>2. link'[n] \in LinkRow /\ link'[n].state = "live" /\ link'[n].older = call[k].seen
  BY <1>1, <1>f
<1>3. \A l \in Links \ {n} : /\ link'[l] \in LinkRow /\ link'[l].older = link[l].older
                             /\ link'[l].state = IF link[l].by = k THEN "used" ELSE link[l].state
                             /\ link'[l].by = IF link[l].by = k THEN None ELSE link[l].by
  BY <1>1, <1>s DEF LinkInv
<1>4. Live' = {n} \cup {l \in Live : link[l].by # k} /\ n \notin Live /\ Live \subseteq Links
  BY <1>1, <1>2, <1>3 DEF Live, NoLink
<1>5. Sent \subseteq Sent' /\ \A l \in Links : link'[l].older \subseteq Sent'
  <2>1. Sent \subseteq Sent'
    BY <1>2, <1>3 DEF Sent
  <2> QED
    BY <1>2, <1>3, <1>a, <2>1 DEF LinkInv
<1>6. AskingAgainInvalidates'
  <2> SUFFICES ASSUME NEW l \in Live', NEW m \in Live' PROVE l \notin link'[m].older
    BY DEF AskingAgainInvalidates
  <2>1. CASE l = n
    BY <1>2, <1>3, <1>4, <1>a, <2>1 DEF LinkInv
  <2>2. CASE l # n /\ m = n
    BY <1>1, <1>2, <1>4, <2>2 DEF LinkInv
  <2>3. CASE l # n /\ m # n
    BY <1>3, <1>4, <2>3 DEF LinkInv, AskingAgainInvalidates
  <2> QED
    BY <2>1, <2>2, <2>3
<1>7. \A j \in Calls : call'[j].pc = "asking" => \A l \in Live' \cap call'[j].seen : link'[l].by = j
  <2> SUFFICES ASSUME NEW j \in Calls, call'[j].pc = "asking", NEW l \in Live' \cap call'[j].seen PROVE link'[l].by = j
    OBVIOUS
  <2>1. j # k /\ call'[j] = call[j] /\ call[j].pc = "asking" /\ call[j].seen \subseteq Sent
    BY <1>b DEF LinkInv
  <2>2. l # n /\ l \in Live \cap call[j].seen /\ l \in Links
    BY <1>4, <1>a, <2>1
  <2> QED
    BY <1>3, <2>1, <2>2 DEF LinkInv
<1>8. \A j \in Calls : /\ call'[j].pc = "redeeming" => call'[j].link \in Links
                       /\ call'[j].pc \in {"asked", "asking"} => call'[j].seen \subseteq Sent'
  BY <1>b, <1>5 DEF LinkInv
<1>9. \A l \in Links : link'[l].state \in {"none", "live"} => resets'[l] = 0
  <2>1. link[n].state = "none"
    BY <1>1 DEF NoLink
  <2> QED
    BY <1>1, <1>3, <2>1 DEF LinkInv
<1>10. link' \in [Links -> LinkRow]
  BY <1>1, <1>2, <1>3
<1> QED
  BY <1>1, <1>5, <1>6, <1>7, <1>8, <1>9, <1>10 DEF LinkInv

(* A link is presented.                                                     *)
LEMMA RedeemReadLink ==
  ASSUME UserInv, LinkInv, NEW k \in Calls, NEW l \in Links, RedeemRead(k, l) PROVE LinkInv'
<1>1. UNCHANGED linkVars
  BY DEF RedeemRead
<1> QED
  BY <1>1, RedeemReadCall DEF LinkInv, linkVars, Live, Sent, AskingAgainInvalidates

(* A live link is live no more.                                             *)
LEMMA LinkEnds ==
  ASSUME LinkInv, NEW l \in Live, NEW state \in {"used", "expired"}, link' = [link EXCEPT ![l].state = state],
         resets' \in [Links -> {0, 1}], \A m \in Links \ {l} : resets'[m] = resets[m],
         \A j \in Calls : call'[j].pc \in {"asked", "asking", "redeeming"} => call'[j] = call[j]
  PROVE  LinkInv'
<1>1. l \in Links /\ link[l] \in LinkRow
  BY DEF Live, LinkInv
<1>2. /\ link' \in [Links -> LinkRow] /\ link'[l].state = state /\ link'[l].older = link[l].older
      /\ \A m \in Links \ {l} : link'[m] = link[m]
  BY <1>1 DEF LinkInv, LinkRow
<1>3. Live' = Live \ {l} /\ \A m \in Live' : link'[m] = link[m]
  BY <1>1, <1>2 DEF Live
<1>4. Sent' = Sent
  BY <1>1, <1>2 DEF Live, Sent
<1>5. AskingAgainInvalidates'
  BY <1>3 DEF LinkInv, AskingAgainInvalidates
<1>6. \A m \in Links : link'[m].older \subseteq Sent'
  BY <1>2, <1>4 DEF LinkInv
<1>7. \A m \in Links : link'[m].state \in {"none", "live"} => resets'[m] = 0
  BY <1>2 DEF LinkInv
<1> QED
  BY <1>2, <1>3, <1>4, <1>5, <1>6, <1>7 DEF LinkInv

(* It is spent, or was.                                                     *)
LEMMA RedeemSpendLink ==
  ASSUME UserInv, LinkInv, NEW k \in Calls, RedeemSpend(k) PROVE LinkInv'
<1> DEFINE l == call[k].link
<1>1. l \in Links /\ Ends(k)
  BY DEF RedeemSpend, LinkInv
<1>2. \/ UNCHANGED linkVars
      \/ l \in Live /\ link' = Spend(l) /\ resets' \in {resets, [resets EXCEPT ![l] = @ + 1]}
  BY DEF RedeemSpend, linkVars
<1>3. \A j \in Calls : call'[j].pc \in {"asked", "asking", "redeeming"} => call'[j] = call[j]
  BY <1>1, EndsCall
<1> HIDE DEF l
<1>4. CASE UNCHANGED linkVars
  BY <1>3, <1>4, LinkFrame DEF LinkSpared
<1>5. CASE l \in Live /\ link' = Spend(l) /\ resets' \in {resets, [resets EXCEPT ![l] = @ + 1]}
  <2>1. resets[l] = 0
    BY <1>1, <1>5 DEF Live, LinkInv
  <2>2. resets' \in [Links -> {0, 1}] /\ \A m \in Links \ {l} : resets'[m] = resets[m]
    <3>1. CASE resets' = resets
      BY <3>1 DEF LinkInv
    <3>2. CASE resets' = [resets EXCEPT ![l] = @ + 1]
      BY <1>1, <2>1, <3>2 DEF LinkInv
    <3> QED
      BY <1>5, <3>1, <3>2
  <2> QED
    BY <1>3, <1>5, <2>2, LinkEnds DEF Spend
<1> QED
  BY <1>2, <1>4, <1>5

(* It runs out.                                                             *)
LEMMA ExpiresLink ==
  ASSUME LinkInv, NEW l \in Links, LinkExpires(l) PROVE LinkInv'
<1>1. l \in Live /\ link' = [link EXCEPT ![l].state = "expired"] /\ UNCHANGED <<resets, call>>
  BY DEF LinkExpires
<1>2. resets' \in [Links -> {0, 1}]
  BY <1>1 DEF LinkInv
<1> QED
  BY <1>1, <1>2, LinkEnds

(* A request that dies gives up its marks.                                  *)
LEMMA LostLink ==
  ASSUME UserInv, LinkInv, NEW k \in Calls, CallLost(k) PROVE LinkInv'
<1>1. /\ Ends(k) /\ UNCHANGED resets
      /\ link' = [l \in Links |-> IF link[l].by = k THEN [link[l] EXCEPT !.by = None] ELSE link[l]]
  BY DEF CallLost
<1>2. \A l \in Links : /\ link'[l] \in LinkRow /\ link'[l].state = link[l].state /\ link'[l].older = link[l].older
                       /\ link[l].by # k => link'[l].by = link[l].by
  BY <1>1 DEF LinkInv, LinkRow
<1>3. Live' = Live /\ Sent' = Sent /\ link' \in [Links -> LinkRow]
  BY <1>1, <1>2 DEF Live, Sent
<1>4. \A j \in Calls : call'[j].pc \in {"asked", "asking", "redeeming"} => j # k /\ call'[j] = call[j]
  BY <1>1, EndsCall
<1>5. AskingAgainInvalidates'
  BY <1>2, <1>3 DEF LinkInv, AskingAgainInvalidates, Live
<1>6. \A j \in Calls : call'[j].pc = "asking" => \A l \in Live' \cap call'[j].seen : link'[l].by = j
  BY <1>2, <1>3, <1>4 DEF LinkInv, Live
<1>7. \A l \in Links : link'[l].older \subseteq Sent' /\ (link'[l].state \in {"none", "live"} => resets'[l] = 0)
  BY <1>1, <1>2, <1>3 DEF LinkInv
<1>8. \A j \in Calls : /\ call'[j].pc = "redeeming" => call'[j].link \in Links
                       /\ call'[j].pc \in {"asked", "asking"} => call'[j].seen \subseteq Sent'
  BY <1>3, <1>4 DEF LinkInv
<1> QED
  BY <1>1, <1>3, <1>5, <1>6, <1>7, <1>8 DEF LinkInv

(* Every step keeps it.                                                     *)
LEMMA LinkKeeps == UserInv /\ LinkInv /\ [Next]_vars => LinkInv'
<1> SUFFICES ASSUME UserInv, LinkInv, [Next]_vars PROVE LinkInv'
  OBVIOUS
<1>1. CASE UNCHANGED vars
  BY <1>1, LinkFrame DEF vars, linkVars, LinkSpared
<1>2. CASE Next
  BY <1>2, LinkSplits, LinkFrame, AskReadLink, AskMarkLink, AskCommitLink, RedeemReadLink, RedeemSpendLink, ExpiresLink, LostLink
<1> QED
  BY <1>1, <1>2

(* There are no links at first.                                             *)
LEMMA InitLink == Init => LinkInv
  BY AccountsAssumption DEF Init, LinkInv, LinkRow, NoLink, Idle, Live, Sent, AskingAgainInvalidates

(* Asking for a reset link again invalidates the previous one: a link that  *)
(* was there when the UPDATE of a later request began is not live once that *)
(* request's own link is, wherever the UPDATE had to wait, for any number   *)
(* of requests, some of which die half way.                                 *)
THEOREM LatestLinkOnly == Spec => []AskingAgainInvalidates
<1>1. Init => AdminInv /\ LinkInv
  BY InitAdministered, InitLink
<1>2. AdminInv /\ LinkInv /\ [Next]_vars => (AdminInv /\ LinkInv)'
  BY StepKeeps, LinkKeeps DEF AdminInv
<1>3. LinkInv => AskingAgainInvalidates
  BY DEF LinkInv
<1> QED
  BY <1>1, <1>2, <1>3, PTL DEF Spec

----------------------------------------------------------------------------
(* Factors.                                                                 *)

(* The bounds are numbers.                                                  *)
LEMMA Bounds ==
  /\ MaxFailures \in Nat /\ MaxFailures > 0 /\ MaxLapses \in Nat /\ 0 \in 0 .. MaxLapses
  /\ 0 \in 0 .. (MaxFailures + MaxLapses) /\ Steps \subseteq Nat
  BY AccountsAssumption DEF Steps

(* And so are TOTP steps, and the counters of keys.                         *)
LEMMA StepsAreNumbers == \A s \in Steps \cup {0} : s \in Nat
  BY AccountsAssumption DEF Steps

(* What the statements on a row of user_second_factors make of it: its      *)
(* lock,                                                                    *)
LEMMA RowBy ==
  ASSUME NEW r \in FactorRow, NEW b \in Calls \cup {None}, NEW q, q = [r EXCEPT !.by = b]
  PROVE  /\ q \in FactorRow /\ q.by = b /\ q.state = r.state /\ q.step = r.step
         /\ q.fails = r.fails /\ q.locked = r.locked
  BY DEF FactorRow

(* the counter of a security key,                                           *)
LEMMA RowStep ==
  ASSUME NEW r \in FactorRow, NEW s \in Steps \cup {0}, NEW q, q = [r EXCEPT !.step = s]
  PROVE  /\ q \in FactorRow /\ q.by = r.by /\ q.state = r.state /\ q.step = s
         /\ q.fails = r.fails /\ q.locked = r.locked
  BY DEF FactorRow

(* a lock that lapses,                                                      *)
LEMMA RowUnlocked ==
  ASSUME NEW r \in FactorRow, NEW q, q = [r EXCEPT !.locked = FALSE]
  PROVE  /\ q \in FactorRow /\ q.by = r.by /\ q.state = r.state /\ q.step = r.step
         /\ q.fails = r.fails /\ q.locked = FALSE
  BY DEF FactorRow

(* and a wrong one that is counted.                                         *)
LEMMA RowCounted ==
  ASSUME NEW r \in FactorRow, NEW b \in BOOLEAN, NEW q,
         r.fails < MaxFailures + MaxLapses, q = [r EXCEPT !.fails = r.fails + 1, !.locked = b]
  PROVE  /\ q \in FactorRow /\ q.by = r.by /\ q.state = r.state /\ q.step = r.step
         /\ q.fails = r.fails + 1 /\ q.locked = b
<1>1. r.fails + 1 \in 0 .. (MaxFailures + MaxLapses)
  BY Bounds DEF FactorRow
<1> QED
  BY <1>1 DEF FactorRow

(* A row that does not exist, and one just begun.                           *)
LEMMA FreshRows ==
  /\ NoFactor.state = "none" /\ NoFactor.step = 0 /\ NoFactor.by = None
  /\ LET q == [NoFactor EXCEPT !.state = "begun"] IN q.state = "begun" /\ q.step = 0 /\ q.by = None
  /\ \A n \in 0 .. MaxLapses : GoodFactor(NoFactor, 0, n) /\ GoodFactor([NoFactor EXCEPT !.state = "begun"], 0, n)
<1>1. NoFactor \in FactorRow /\ [NoFactor EXCEPT !.state = "begun"] \in FactorRow
  BY Bounds DEF NoFactor, FactorRow
<1> QED
  BY <1>1, Bounds DEF NoFactor, GoodFactor

(* The row of one factor changes.                                           *)
LEMMA OneFactor ==
  ASSUME GuessInv, NEW f \in Factors, NEW r, NEW g \in Nat, NEW n \in Nat, GoodFactor(r, g, n),
         factor' = [factor EXCEPT ![f] = r],
         guesses' = [guesses EXCEPT ![f] = g], lapses' = [lapses EXCEPT ![f] = n]
  PROVE  GuessInv' /\ factor'[f] = r /\ \A h \in Factors \ {f} : factor'[h] = factor[h]
<1>1. r \in FactorRow
  BY DEF GoodFactor
<1>2. /\ factor' \in [Factors -> FactorRow] /\ guesses' \in [Factors -> Nat] /\ lapses' \in [Factors -> Nat]
      /\ factor'[f] = r /\ guesses'[f] = g /\ lapses'[f] = n
      /\ \A h \in Factors \ {f} : factor'[h] = factor[h] /\ guesses'[h] = guesses[h] /\ lapses'[h] = lapses[h]
  BY <1>1 DEF GuessInv
<1>3. \A h \in Factors : GoodFactor(factor'[h], guesses'[h], lapses'[h])
  BY <1>2 DEF GuessInv
<1> QED
  BY <1>2, <1>3 DEF GuessInv, GoodFactor

(* It changes with its guesses and lapses as they are.                      *)
LEMMA OneRow ==
  ASSUME GuessInv, NEW f \in Factors, NEW r, GoodFactor(r, guesses[f], lapses[f]),
         factor' = [factor EXCEPT ![f] = r], UNCHANGED <<guesses, lapses>>
  PROVE  GuessInv' /\ factor'[f] = r /\ \A h \in Factors \ {f} : factor'[h] = factor[h]
<1>1. /\ guesses[f] \in Nat /\ lapses[f] \in Nat
      /\ guesses' = [guesses EXCEPT ![f] = guesses[f]] /\ lapses' = [lapses EXCEPT ![f] = lapses[f]]
  BY DEF GuessInv
<1> QED
  BY <1>1, OneFactor

(* What GuessInv says of one factor.                                        *)
LEMMA GuessAt ==
  ASSUME GuessInv, NEW f \in Factors
  PROVE  /\ factor[f] \in FactorRow /\ guesses[f] = factor[f].fails /\ lapses[f] \in 0 .. MaxLapses
         /\ guesses[f] \in Nat /\ factor[f].step \in Steps \cup {0} /\ factor[f].fails \in Nat
         /\ factor[f].fails <= MaxFailures + lapses[f]
         /\ ~factor[f].locked => factor[f].fails < MaxFailures + lapses[f]
         /\ factor[f].state # "confirmed" => factor[f].step = 0 /\ factor[f].fails = 0
<1>1. GoodFactor(factor[f], guesses[f], lapses[f]) /\ guesses[f] \in Nat
  BY DEF GuessInv
<1>2. factor[f] \in FactorRow
  BY <1>1 DEF GoodFactor
<1>3. factor[f].step \in Steps \cup {0} /\ factor[f].fails \in Nat
  BY <1>2, AccountsAssumption DEF FactorRow
<1> QED
  BY <1>1, <1>2, <1>3 DEF GoodFactor

(* A row is locked by a request.                                            *)
LEMMA LockFactor ==
  ASSUME GuessInv, NEW f \in Factors, NEW b \in Calls \cup {None},
         factor' = [factor EXCEPT ![f].by = b], UNCHANGED <<guesses, lapses>>
  PROVE  /\ GuessInv' /\ factor'[f].by = b /\ factor'[f].state = factor[f].state /\ factor'[f].step = factor[f].step
         /\ \A h \in Factors \ {f} : factor'[h] = factor[h]
<1>1. PICK q : q = [factor[f] EXCEPT !.by = b]
  OBVIOUS
<1>2. /\ q \in FactorRow /\ q.by = b /\ q.state = factor[f].state /\ q.step = factor[f].step
      /\ q.fails = factor[f].fails /\ q.locked = factor[f].locked
  BY <1>1, GuessAt, RowBy
<1>3. GoodFactor(q, guesses[f], lapses[f])
  BY <1>2, GuessAt DEF GoodFactor
<1>4. factor' = [factor EXCEPT ![f] = q]
  BY <1>1 DEF GuessInv
<1>5. GuessInv' /\ factor'[f] = q /\ \A h \in Factors \ {f} : factor'[h] = factor[h]
  BY <1>3, <1>4, OneRow
<1> QED
  BY <1>2, <1>5

(* An enrolment begins.                                                     *)
LEMMA BeginFactor ==
  ASSUME GuessInv, NEW k \in Calls, NEW f \in Factors, Begin(k, f)
  PROVE  /\ GuessInv' /\ factor'[f].by = None /\ factor'[f].state = "begun" /\ factor'[f].step = 0
         /\ factor[f].by = None /\ factor[f].state # "confirmed" /\ factor[f].step = 0
         /\ \A h \in Factors \ {f} : factor'[h] = factor[h]
<1>1. /\ factor' = [factor EXCEPT ![f] = [NoFactor EXCEPT !.state = "begun"]] /\ UNCHANGED <<guesses, lapses>>
      /\ factor[f].by = None /\ factor[f].state # "confirmed"
  BY DEF Begin
<1>2. guesses[f] = 0 /\ lapses[f] \in 0 .. MaxLapses /\ factor[f].step = 0
  BY <1>1, GuessAt
<1> QED
  BY <1>1, <1>2, OneRow, FreshRows

(* An enrolment is committed.                                               *)
LEMMA ConfirmCommitFactor ==
  ASSUME GuessInv, UserInv, NEW k \in Calls, NEW minted, ConfirmCommit(k, minted),
         call[k].factor \in Factors, factor[call[k].factor].state # "confirmed"
  PROVE  LET f == call[k].factor IN
         /\ GuessInv' /\ factor'[f].by = None /\ factor'[f].state = "confirmed" /\ factor'[f].step = call[k].step
         /\ \A h \in Factors \ {f} : factor'[h] = factor[h]
<1>0. PICK f \in Factors : f = call[k].factor
  OBVIOUS
<1>1. PICK s \in Steps \cup {0} : s = call[k].step
  <2>1. call[k] \in CallRecord
    BY DEF UserInv
  <2> QED
    BY <2>1 DEF CallRecord
<1>2. PICK q : q = [factor[f] EXCEPT !.state = "confirmed", !.step = s, !.fails = 0, !.by = None]
  OBVIOUS
<1>3. factor' = [factor EXCEPT ![f] = q] /\ UNCHANGED <<guesses, lapses>>
  BY <1>0, <1>1, <1>2 DEF ConfirmCommit, GuessInv
<1>4. q \in FactorRow /\ q.by = None /\ q.state = "confirmed" /\ q.step = s /\ q.fails = 0
  <2>1. PICK r \in FactorRow : r = factor[f]
    BY GuessAt
  <2> QED
    BY <1>2, <2>1, Bounds DEF FactorRow
<1>5. GoodFactor(q, guesses[f], lapses[f])
  BY <1>0, <1>4, GuessAt, Bounds DEF GoodFactor
<1>6. GuessInv' /\ factor'[f] = q /\ \A h \in Factors \ {f} : factor'[h] = factor[h]
  BY <1>3, <1>5, OneRow
<1> QED
  BY <1>0, <1>1, <1>4, <1>6

(* A code is accepted.                                                      *)
LEMMA AcceptedFactor ==
  ASSUME GuessInv, NEW f \in Factors, NEW s \in Steps \cup {0}, factor[f].state = "confirmed", factor' = Accepted(f, s),
         guesses' = [guesses EXCEPT ![f] = 0], lapses' = [lapses EXCEPT ![f] = 0]
  PROVE  /\ GuessInv' /\ factor'[f].by = factor[f].by /\ factor'[f].state = factor[f].state /\ factor'[f].step = s
         /\ \A h \in Factors \ {f} : factor'[h] = factor[h]
<1>0. PICK q : q = [factor[f] EXCEPT !.step = s, !.fails = 0, !.locked = FALSE]
  OBVIOUS
<1>1. q \in FactorRow /\ q.by = factor[f].by /\ q.state = factor[f].state /\ q.step = s /\ q.fails = 0
  <2>1. PICK r \in FactorRow : r = factor[f]
    BY GuessAt
  <2>2. q = [r EXCEPT !.step = s, !.fails = 0, !.locked = FALSE]
    BY <1>0, <2>1
  <2>3. q \in FactorRow /\ q.by = r.by /\ q.state = r.state /\ q.step = s /\ q.fails = 0
    BY <2>2, Bounds DEF FactorRow
  <2> QED
    BY <2>1, <2>3
<1>2. factor' = [factor EXCEPT ![f] = q]
  BY <1>0 DEF Accepted, GuessInv
<1>3. GoodFactor(q, 0, 0)
  BY <1>1, Bounds DEF GoodFactor
<1>4. GuessInv' /\ factor'[f] = q /\ \A h \in Factors \ {f} : factor'[h] = factor[h]
  BY <1>2, <1>3, OneFactor
<1> QED
  BY <1>1, <1>4

(* A wrong code is counted against the factors it was compared with.        *)
LEMMA CountedFactor ==
  ASSUME GuessInv, factor' = Counted, UNCHANGED lapses,
         guesses' = [h \in Factors |-> IF h \in Compared THEN guesses[h] + 1 ELSE guesses[h]]
  PROVE  /\ GuessInv'
         /\ \A h \in Factors : /\ factor'[h].by = factor[h].by /\ factor'[h].state = factor[h].state
                               /\ factor'[h].step = factor[h].step
<1> SUFFICES ASSUME NEW h \in Factors
             PROVE  /\ GoodFactor(factor'[h], guesses'[h], lapses'[h]) /\ guesses'[h] \in Nat
                    /\ factor'[h].by = factor[h].by /\ factor'[h].state = factor[h].state
                    /\ factor'[h].step = factor[h].step
  BY DEF GuessInv, Counted, GoodFactor
<1>1. CASE h \notin Compared
  BY <1>1 DEF GuessInv, Counted
<1>2. CASE h \in Compared
  <2>1. PICK b \in BOOLEAN : b <=> factor[h].fails + 1 >= MaxFailures
    OBVIOUS
  <2>q. PICK q : q = [factor[h] EXCEPT !.fails = factor[h].fails + 1, !.locked = b]
    OBVIOUS
  <2>2. factor'[h] = q /\ guesses'[h] = guesses[h] + 1 /\ lapses'[h] = lapses[h]
    <3>1. factor'[h] = [factor[h] EXCEPT !.fails = @ + 1, !.locked = factor[h].fails + 1 >= MaxFailures]
      BY <1>2 DEF Counted
    <3>2. (factor[h].fails + 1 >= MaxFailures) = b
      BY <2>1
    <3> QED
      BY <1>2, <2>q, <3>1, <3>2, GuessAt
  <2>3. factor[h].state = "confirmed" /\ ~factor[h].locked
    BY <1>2 DEF Compared, Confirmed
  <2>4. factor[h].fails < MaxFailures + lapses[h] /\ lapses[h] <= MaxLapses
    BY <2>3, GuessAt
  <2>5. factor[h].fails < MaxFailures + MaxLapses
    BY <2>4, GuessAt, Bounds
  <2>6. /\ q \in FactorRow /\ q.by = factor[h].by /\ q.state = factor[h].state /\ q.step = factor[h].step
        /\ q.fails = factor[h].fails + 1 /\ q.locked = b
    BY <2>5, <2>q, GuessAt, RowCounted
  <2>7. GoodFactor(q, guesses[h] + 1, lapses[h])
    BY <2>1, <2>3, <2>4, <2>6, GuessAt, Bounds DEF GoodFactor
  <2> QED
    BY <2>2, <2>6, <2>7, GuessAt
<1> QED
  BY <1>1, <1>2

(* The counter of a security key is remembered.                             *)
LEMMA CounterFactor ==
  ASSUME GuessInv, NEW f \in Factors, NEW s \in Steps \cup {0}, factor[f].state = "confirmed",
         factor' = [factor EXCEPT ![f].step = s], UNCHANGED <<guesses, lapses>>
  PROVE  /\ GuessInv' /\ factor'[f].by = factor[f].by /\ factor'[f].state = factor[f].state /\ factor'[f].step = s
         /\ \A h \in Factors \ {f} : factor'[h] = factor[h]
<1>0. PICK q : q = [factor[f] EXCEPT !.step = s]
  OBVIOUS
<1>1. /\ q \in FactorRow /\ q.by = factor[f].by /\ q.state = factor[f].state /\ q.step = s
      /\ q.fails = factor[f].fails /\ q.locked = factor[f].locked
  BY <1>0, GuessAt, RowStep
<1>2. factor' = [factor EXCEPT ![f] = q]
  BY <1>0 DEF GuessInv
<1>3. GoodFactor(q, guesses[f], lapses[f])
  BY <1>1, GuessAt DEF GoodFactor
<1>4. GuessInv' /\ factor'[f] = q /\ \A h \in Factors \ {f} : factor'[h] = factor[h]
  BY <1>2, <1>3, OneRow
<1> QED
  BY <1>1, <1>4

(* A factor is gone.                                                        *)
LEMMA RemoveCommitFactor ==
  ASSUME GuessInv, NEW k \in Calls, NEW f \in Factors, f = call[k].factor, RemoveCommit(k)
  PROVE  /\ GuessInv' /\ factor'[f].by = None /\ factor'[f].state = "none" /\ factor'[f].step = 0
         /\ \A h \in Factors \ {f} : factor'[h] = factor[h]
<1>1. /\ factor' = [factor EXCEPT ![f] = NoFactor]
      /\ guesses' = [guesses EXCEPT ![f] = 0] /\ lapses' = [lapses EXCEPT ![f] = 0]
  BY DEF RemoveCommit
<1>2. 0 \in 0 .. MaxLapses
  BY AccountsAssumption
<1> QED
  BY <1>1, <1>2, OneFactor, FreshRows

(* A lock lapses.                                                           *)
LEMMA LapseFactor ==
  ASSUME GuessInv, NEW f \in Factors, LockLapses(f)
  PROVE  /\ GuessInv' /\ factor'[f].by = factor[f].by /\ factor'[f].state = factor[f].state
         /\ factor'[f].step = factor[f].step
         /\ \A h \in Factors \ {f} : factor'[h] = factor[h]
<1>0. PICK q : q = [factor[f] EXCEPT !.locked = FALSE]
  OBVIOUS
<1>1. /\ q \in FactorRow /\ q.by = factor[f].by /\ q.state = factor[f].state /\ q.step = factor[f].step
      /\ q.fails = factor[f].fails /\ q.locked = FALSE
  BY <1>0, GuessAt, RowUnlocked
<1>2. /\ factor' = [factor EXCEPT ![f] = q] /\ lapses[f] < MaxLapses
      /\ guesses' = [guesses EXCEPT ![f] = guesses[f]] /\ lapses' = [lapses EXCEPT ![f] = lapses[f] + 1]
  BY <1>0 DEF GuessInv, LockLapses
<1>3. lapses[f] \in Nat /\ lapses[f] + 1 \in 0 .. MaxLapses /\ guesses[f] \in Nat
  BY <1>2, GuessAt, Bounds
<1>n. PICK n \in Nat : n = lapses[f] + 1
  BY <1>3
<1>4. GoodFactor(q, guesses[f], n)
  BY <1>n, <1>1, <1>3, GuessAt, Bounds DEF GoodFactor
<1>5. GuessInv' /\ factor'[f] = q /\ \A h \in Factors \ {f} : factor'[h] = factor[h]
  <2>1. lapses' = [lapses EXCEPT ![f] = n]
    BY <1>2, <1>n
  <2> QED
    BY <2>1, <1>2, <1>3, <1>4, OneFactor, Zenon
<1> QED
  BY <1>1, <1>5

(* A request that dies gives up its rows.                                   *)
LEMMA LostFactor ==
  ASSUME GuessInv, NEW k \in Calls, CallLost(k)
  PROVE  /\ GuessInv'
         /\ \A h \in Factors : /\ factor[h].by # k => factor'[h] = factor[h]
                               /\ factor'[h].state = factor[h].state /\ factor'[h].step = factor[h].step
<1>1. /\ factor' = [f \in Factors |-> IF factor[f].by = k THEN [factor[f] EXCEPT !.by = None] ELSE factor[f]]
      /\ UNCHANGED <<guesses, lapses>>
  BY DEF CallLost
<1>2. ASSUME NEW h \in Factors
      PROVE  /\ factor[h].by # k => factor'[h] = factor[h]
             /\ factor'[h].state = factor[h].state /\ factor'[h].step = factor[h].step
             /\ factor'[h] \in FactorRow /\ GoodFactor(factor'[h], guesses[h], lapses[h])
  <2>1. CASE factor[h].by # k
    BY <1>1, <2>1, GuessAt DEF GuessInv
  <2>2. CASE factor[h].by = k
    <3>q. PICK q : q = [factor[h] EXCEPT !.by = None]
      OBVIOUS
    <3>1. /\ q \in FactorRow /\ q.state = factor[h].state /\ q.step = factor[h].step
          /\ q.fails = factor[h].fails /\ q.locked = factor[h].locked
      <4>1. factor[h] \in FactorRow /\ None \in Calls \cup {None}
        BY GuessAt
      <4> QED
        BY <3>q, <4>1, RowBy
    <3>2. factor'[h] = q
      BY <1>1, <2>2, <3>q
    <3>3. GoodFactor(q, guesses[h], lapses[h])
      BY <3>1, GuessAt DEF GoodFactor
    <3> QED
      BY <2>2, <3>1, <3>2, <3>3
  <2> QED
    BY <2>1, <2>2
<1> QED
  BY <1>1, <1>2 DEF GuessInv

(* A step leaves a call and what it holds alone.                            *)
Leaves(j) ==
  /\ call'[j] = call[j]
  /\ \A h \in Factors : factor[h].by = j =>
        factor'[h].by = j /\ (factor[h].state # "confirmed" => factor'[h].state # "confirmed")
  /\ \A c \in Challenges : challenge[c].by = j => challenge'[c].by = j

(* What a step has to do to keep HoldInv.                                   *)
LEMMA HoldStep ==
  ASSUME HoldInv, challenge' \in [Challenges -> ChallengeRow],
         \A c \in Challenges : challenge'[c].by # None => challenge'[c].state = "live",
         \A j \in Calls : Leaves(j) \/ Holds(j)'
  PROVE  HoldInv'
<1> SUFFICES ASSUME NEW j \in Calls, Leaves(j) PROVE Holds(j)'
  BY DEF HoldInv
<1>1. Holds(j)
  BY DEF HoldInv
<1> QED
  BY <1>1 DEF Leaves, Holds, HoldsFactor, HoldsProof

(* The end of a transaction, for the challenges it spent.                   *)
LEMMA ReleasedChallenges ==
  ASSUME HoldInv, NEW k \in Calls, NEW state \in {"live", "used"}, challenge' = Released(k, state)
  PROVE  /\ challenge' \in [Challenges -> ChallengeRow]
         /\ \A c \in Challenges : challenge[c].by # k => challenge'[c] = challenge[c]
         /\ \A c \in Challenges : challenge[c].by = k =>
               challenge[c].state = "live" /\ challenge'[c].by = None /\ challenge'[c].state = state
         /\ \A c \in Challenges : challenge'[c].by # None => challenge'[c].state = "live"
<1>1. ASSUME NEW c \in Challenges
      PROVE  /\ challenge'[c] \in ChallengeRow
             /\ challenge[c].by # k => challenge'[c] = challenge[c]
             /\ challenge[c].by = k => challenge'[c].by = None /\ challenge'[c].state = state
  <2>1. challenge[c] \in ChallengeRow
    BY DEF HoldInv
  <2> QED
    BY <2>1 DEF Released, ChallengeRow
<1>2. k # None
  BY AccountsAssumption
<1>3. challenge' = [c \in Challenges |-> challenge'[c]]
  BY DEF Released
<1>4. challenge' \in [Challenges -> ChallengeRow]
  BY <1>1, <1>3
<1> QED
  BY <1>1, <1>2, <1>4 DEF HoldInv

(* One challenge changes.                                                   *)
LEMMA OneChallenge ==
  ASSUME HoldInv, NEW c \in Challenges, NEW r \in ChallengeRow, r.by # None => r.state = "live",
         challenge' = [challenge EXCEPT ![c] = r]
  PROVE  /\ challenge' \in [Challenges -> ChallengeRow]
         /\ challenge'[c] = r /\ \A d \in Challenges \ {c} : challenge'[d] = challenge[d]
         /\ \A d \in Challenges : challenge'[d].by # None => challenge'[d].state = "live"
<1>1. /\ challenge' \in [Challenges -> ChallengeRow]
      /\ challenge'[c] = r /\ \A d \in Challenges \ {c} : challenge'[d] = challenge[d]
  BY DEF HoldInv
<1> QED
  BY <1>1 DEF HoldInv

(* Its state or its holder changes.                                         *)
LEMMA ChallengeFields ==
  ASSUME HoldInv, NEW c \in Challenges
  PROVE  /\ challenge[c] \in ChallengeRow
         /\ \A state \in {"used", "expired"} : \A r : r = [challenge[c] EXCEPT !.state = state] =>
               r \in ChallengeRow /\ r.state = state /\ r.by = challenge[c].by
         /\ \A k \in Calls : \A r : r = [challenge[c] EXCEPT !.by = k] =>
               r \in ChallengeRow /\ r.state = challenge[c].state /\ r.by = k
<1>1. challenge[c] \in ChallengeRow
  BY DEF HoldInv
<1> QED
  BY <1>1 DEF ChallengeRow

(* It is given out.                                                         *)
LEMMA IssueChallenges ==
  ASSUME HoldInv, NEW k \in Calls, NEW c \in Challenges, NEW purpose \in {"register", "authenticate"},
         IssueChallenge(k, c, purpose)
  PROVE  /\ challenge' \in [Challenges -> ChallengeRow] /\ challenge[c].by = None /\ challenge[c].state = "none"
         /\ challenge'[c].by = None /\ \A d \in Challenges \ {c} : challenge'[d] = challenge[d]
         /\ \A d \in Challenges : challenge'[d].by # None => challenge'[d].state = "live"
<1>1. PICK r : r = [NoChallenge EXCEPT !.state = "live", !.purpose = purpose]
  OBVIOUS
<1>2. r \in ChallengeRow /\ r.by = None
  BY <1>1 DEF ChallengeRow, NoChallenge
<1>3. challenge' = [challenge EXCEPT ![c] = r] /\ challenge[c] = NoChallenge
  BY <1>1 DEF IssueChallenge
<1>4. challenge[c].by = None /\ challenge[c].state = "none"
  BY <1>3 DEF NoChallenge
<1> QED
  BY <1>2, <1>3, <1>4, OneChallenge

(* It expires, or is spent by an assertion.                                 *)
LEMMA SpendChallenges ==
  ASSUME HoldInv, NEW c \in Challenges, NEW state \in {"used", "expired"}, challenge[c].by = None,
         challenge' = [challenge EXCEPT ![c].state = state]
  PROVE  /\ challenge' \in [Challenges -> ChallengeRow] /\ challenge'[c].by = None /\ challenge'[c].state = state
         /\ \A d \in Challenges \ {c} : challenge'[d] = challenge[d]
         /\ \A d \in Challenges : challenge'[d].by # None => challenge'[d].state = "live"
<1>1. PICK r : r = [challenge[c] EXCEPT !.state = state]
  OBVIOUS
<1>2. r \in ChallengeRow /\ r.by = None /\ r.state = state
  BY <1>1, ChallengeFields
<1>3. challenge' = [challenge EXCEPT ![c] = r]
  BY <1>1 DEF HoldInv
<1> QED
  BY <1>2, <1>3, OneChallenge

(* It is spent by a registration that is not committed.                     *)
LEMMA HoldChallenges ==
  ASSUME HoldInv, NEW c \in Challenges, NEW k \in Calls, challenge[c].state = "live",
         challenge' = [challenge EXCEPT ![c].by = k]
  PROVE  /\ challenge' \in [Challenges -> ChallengeRow] /\ challenge'[c].by = k
         /\ challenge'[c].state = challenge[c].state
         /\ \A d \in Challenges \ {c} : challenge'[d] = challenge[d]
         /\ \A d \in Challenges : challenge'[d].by # None => challenge'[d].state = "live"
<1>1. PICK r : r = [challenge[c] EXCEPT !.by = k]
  OBVIOUS
<1>2. r \in ChallengeRow /\ r.by = k /\ r.state = challenge[c].state
  BY <1>1, ChallengeFields
<1>3. challenge' = [challenge EXCEPT ![c] = r]
  BY <1>1 DEF HoldInv
<1> QED
  BY <1>2, <1>3, OneChallenge

----------------------------------------------------------------------------

RowInv == UserInv /\ GuessInv /\ HoldInv

(* What the steps that are not about factors do.                            *)
FactorSpared ==
  /\ UNCHANGED <<factor, code, challenge, accepted, guesses, lapses, raced>>
  /\ \A k \in Calls : call'[k].pc \in {"remove", "removing", "confirming"} => call'[k] = call[k]

(* They keep GuessInv and HoldInv.                                          *)
LEMMA HoldFrame == GuessInv /\ HoldInv /\ FactorSpared => GuessInv' /\ HoldInv'
  BY DEF GuessInv, HoldInv, FactorSpared, Holds, HoldsFactor, HoldsProof

(* The steps of enrolments, removals and proofs.                            *)
FactorStep ==
  \/ \E k \in Calls, f \in Authenticators : Begin(k, f) \/ \E s \in Steps : ConfirmRead(k, f, s)
  \/ \E k \in Calls, c \in Challenges, purpose \in {"register", "authenticate"} : IssueChallenge(k, c, purpose)
  \/ \E k \in Calls, f \in Keys, c \in Challenges, n \in Steps \cup {0} :
        RegisterRead(k, f, c, n) \/ \E g \in Factors \cup {None} : VerifyAssertion(k, c, f, n, g)
  \/ \E c \in Challenges : ChallengeExpires(c)
  \/ \E k \in Calls, minted \in SUBSET Codes : ConfirmCommit(k, minted)
  \/ \E k \in Calls, g \in Factors \cup {None} :
        (\E x \in Codes : VerifyRecovery(k, x, g)) \/ (\E f \in Authenticators, s \in Steps \cup {0} : VerifyTotp(k, f, s, g))
  \/ \E k \in Calls : (RemoveDelete(k) /\ ~Ends(k)) \/ RemoveCommit(k) \/ CallLost(k)
  \/ \E f \in Factors : LockLapses(f)

(* Every other step is not about factors.                                   *)
LEMMA FactorSplits ==
  ASSUME UserInv, Next PROVE FactorSpared \/ FactorStep
<1> USE DEF FactorSpared
<1>1. ASSUME NEW k \in Calls, NEW u \in Users, NEW r \in {"member", "org_admin"}, NEW off \in BOOLEAN,
             UpdateRead(k, u, r, off)
      PROVE  FactorSpared
  BY <1>1, UpdateReadCall DEF UpdateRead, factorVars
<1>2. ASSUME NEW k \in Calls, NEW l, UpdateWrite(k) \/ AskCommit(k, l) \/ RedeemSpend(k)
      PROVE  FactorSpared
  BY <1>2, EndsCall DEF UpdateWrite, AskCommit, RedeemSpend, factorVars
<1>3. ASSUME NEW k \in Calls, NEW l, AskRead(k) \/ AskMark(k) \/ RedeemRead(k, l)
      PROVE  FactorSpared
  BY <1>3, AskReadCall, AskMarkCall, RedeemReadCall DEF AskRead, AskMark, RedeemRead, factorVars
<1>4. ASSUME NEW k \in Calls, RemoveDelete(k), Ends(k)
      PROVE  FactorSpared
  <2>1. call'[k].pc = "idle" /\ call[k].pc = "remove"
    BY <1>4, EndsCall DEF RemoveDelete
  <2>2. UNCHANGED <<factor, raced>>
    BY <1>4, <2>1 DEF RemoveDelete, UserInv, CallRecord
  <2> QED
    BY <1>4, <2>2, EndsCall DEF RemoveDelete
<1>5. ASSUME NEW l, LinkExpires(l) \/ Tick
      PROVE  FactorSpared
  BY <1>5 DEF LinkExpires, Tick, factorVars
<1> HIDE DEF FactorSpared
<1> QED
  BY <1>1, <1>2, <1>3, <1>4, <1>5 DEF Next, FactorStep

----------------------------------------------------------------------------
(* The kinds of proof are not mistaken for each other.                      *)
LEMMA ProofsDiffer ==
  ASSUME NEW f \in Authenticators, NEW s \in Steps
  PROVE  /\ \A x \in Codes : x # <<f, s>> /\ x \in Proofs
         /\ \A c \in Challenges : c # <<f, s>> /\ c \in Proofs
         /\ <<f, s>> \in Proofs
<1>1. <<f, s>> \in Factors \X (1 .. MaxStep)
  BY DEF Authenticators, Steps
<1> QED
  BY <1>1, AccountsAssumption DEF Proofs, Steps

(* A step that accepts nothing, and gives no proof back.                    *)
LEMMA AcceptNone ==
  ASSUME AcceptInv, UNCHANGED accepted, code' \in [Codes -> {"none", "unused", "used", "gone"}],
         \A x \in Codes : code'[x] \in {"none", "unused"} => code[x] \in {"none", "unused"},
         \A c \in Challenges : challenge'[c].state \in {"none", "live"} => challenge[c].state \in {"none", "live"},
         \A f \in Authenticators, s \in Steps : s > factor'[f].step => s > factor[f].step
  PROVE  AcceptInv'
  BY DEF AcceptInv

(* A step that accepts p, which was not accepted before and shows it.       *)
LEMMA AcceptOne ==
  ASSUME AcceptInv, NEW p \in Proofs, accepted[p] = 0, accepted' = [accepted EXCEPT ![p] = @ + 1],
         code' \in [Codes -> {"none", "unused", "used", "gone"}],
         \A x \in Codes : code'[x] \in {"none", "unused"} => x # p /\ code[x] \in {"none", "unused"},
         \A c \in Challenges : challenge'[c].state \in {"none", "live"} => c # p /\ challenge[c].state \in {"none", "live"},
         \A f \in Authenticators, s \in Steps : s > factor'[f].step => <<f, s>> # p /\ s > factor[f].step
  PROVE  AcceptInv'
<1>1. accepted' \in [Proofs -> {0, 1}] /\ \A q \in Proofs \ {p} : accepted'[q] = accepted[q]
  BY DEF AcceptInv
<1>2. \A x \in Codes : code'[x] \in {"none", "unused"} => accepted'[x] = 0
  BY <1>1 DEF AcceptInv, Proofs
<1>3. \A c \in Challenges : challenge'[c].state \in {"none", "live"} => accepted'[c] = 0
  BY <1>1 DEF AcceptInv, Proofs
<1>4. ASSUME NEW f \in Authenticators, NEW s \in Steps, s > factor'[f].step PROVE accepted'[<<f, s>>] = 0
  <2>1. <<f, s>> \in Proofs \ {p} /\ accepted[<<f, s>>] = 0
    BY <1>4, ProofsDiffer DEF AcceptInv
  <2> QED
    BY <1>1, <2>1
<1> QED
  BY <1>1, <1>2, <1>3, <1>4 DEF AcceptInv

(* The state of one factor, and what the invariants say.                    *)
AccountInv == RowInv /\ AcceptInv

(* A request that holds nothing holds what it must.                         *)
LEMMA HoldsNothing ==
  ASSUME NEW k, call'[k].pc \notin {"remove", "removing", "confirming"} PROVE Holds(k)'
  BY DEF Holds

(* An enrolment begins.                                                     *)
LEMMA BeginKeeps ==
  ASSUME AccountInv, NEW k \in Calls, NEW f \in Authenticators, Begin(k, f)
  PROVE  GuessInv' /\ HoldInv' /\ AcceptInv'
<1> USE DEF AccountInv, RowInv
<1>0. f \in Factors /\ UNCHANGED <<call, challenge, code, accepted>>
  BY DEF Authenticators, Begin
<1>1. /\ GuessInv' /\ factor'[f].step = 0 /\ factor[f].by = None /\ factor[f].step = 0
      /\ \A h \in Factors \ {f} : factor'[h] = factor[h]
  BY <1>0, BeginFactor
<1>2. HoldInv'
  <2>1. \A j \in Calls : Leaves(j)
    BY <1>0, <1>1, AccountsAssumption DEF Leaves
  <2> QED
    BY <1>0, <2>1, HoldStep DEF HoldInv
<1>3. AcceptInv'
  BY <1>0, <1>1, AcceptNone DEF AcceptInv, Authenticators
<1> QED
  BY <1>1, <1>2, <1>3

(* The code of an authenticator that is being enrolled is verified.         *)
LEMMA ConfirmReadKeeps ==
  ASSUME AccountInv, NEW k \in Calls, NEW f \in Authenticators, NEW s \in Steps, ConfirmRead(k, f, s)
  PROVE  GuessInv' /\ HoldInv' /\ AcceptInv'
<1> USE DEF AccountInv, RowInv
<1>0. /\ f \in Factors /\ UNCHANGED <<challenge, code, accepted, guesses, lapses>>
      /\ factor[f].by = None /\ factor[f].state = "begun" /\ factor' = [factor EXCEPT ![f].by = k]
  BY DEF Authenticators, ConfirmRead
<1>1. /\ GuessInv' /\ factor'[f].by = k /\ factor'[f].state = factor[f].state /\ factor'[f].step = factor[f].step
      /\ \A h \in Factors \ {f} : factor'[h] = factor[h]
  BY <1>0, LockFactor
<1>2. HoldInv'
  <2>1. \A j \in Calls \ {k} : Leaves(j)
    BY <1>0, <1>1, ConfirmReadCall, AccountsAssumption DEF Leaves
  <2>2. Holds(k)'
    BY <1>0, <1>1, ConfirmReadCall DEF Holds, HoldsFactor, HoldsProof
  <2> QED
    BY <1>0, <2>1, <2>2, HoldStep DEF HoldInv
<1>3. AcceptInv'
  BY <1>0, <1>1, AcceptNone DEF AcceptInv, Authenticators
<1> QED
  BY <1>1, <1>2, <1>3

(* The answer of a security key that is being enrolled.                     *)
LEMMA RegisterReadKeeps ==
  ASSUME AccountInv, NEW k \in Calls, NEW f \in Keys, NEW c \in Challenges, NEW n \in Steps \cup {0},
         RegisterRead(k, f, c, n)
  PROVE  GuessInv' /\ HoldInv' /\ AcceptInv'
<1> USE DEF AccountInv, RowInv
<1>0. /\ f \in Factors /\ UNCHANGED <<code, accepted, guesses, lapses>>
      /\ factor[f].by = None /\ factor[f].state = "none" /\ factor' = [factor EXCEPT ![f].by = k]
      /\ challenge[c].state = "live" /\ challenge[c].by = None /\ challenge' = [challenge EXCEPT ![c].by = k]
  BY AccountsAssumption DEF RegisterRead, Spendable, NoFactor
<1>1. /\ GuessInv' /\ factor'[f].by = k /\ factor'[f].state = factor[f].state /\ factor'[f].step = factor[f].step
      /\ \A h \in Factors \ {f} : factor'[h] = factor[h]
  BY <1>0, LockFactor
<1>2. /\ challenge' \in [Challenges -> ChallengeRow] /\ challenge'[c].by = k
      /\ challenge'[c].state = challenge[c].state
      /\ \A d \in Challenges \ {c} : challenge'[d] = challenge[d]
      /\ \A d \in Challenges : challenge'[d].by # None => challenge'[d].state = "live"
  BY <1>0, HoldChallenges
<1>3. HoldInv'
  <2>1. \A j \in Calls \ {k} : Leaves(j)
    BY <1>0, <1>1, <1>2, RegisterReadCall, AccountsAssumption DEF Leaves
  <2>2. Holds(k)'
    BY <1>0, <1>1, <1>2, RegisterReadCall DEF Holds, HoldsFactor, HoldsProof
  <2> QED
    BY <1>2, <2>1, <2>2, HoldStep
<1>4. AcceptInv'
  BY <1>0, <1>1, <1>2, AcceptNone DEF AcceptInv, Authenticators
<1> QED
  BY <1>1, <1>3, <1>4

(* A step that changes one challenge nobody holds, and nothing else.        *)
LEMMA ChallengeKeeps ==
  ASSUME AccountInv, NEW c \in Challenges, UNCHANGED <<call, factor, code, accepted, guesses, lapses>>,
         challenge' \in [Challenges -> ChallengeRow], challenge[c].by = None,
         challenge'[c].state \in {"none", "live"} => challenge[c].state \in {"none", "live"},
         \A d \in Challenges \ {c} : challenge'[d] = challenge[d],
         \A d \in Challenges : challenge'[d].by # None => challenge'[d].state = "live"
  PROVE  GuessInv' /\ HoldInv' /\ AcceptInv'
<1> USE DEF AccountInv, RowInv
<1>1. \A j \in Calls : Leaves(j)
  BY AccountsAssumption DEF Leaves
<1>2. HoldInv'
  BY <1>1, HoldStep
<1>3. GuessInv'
  BY DEF GuessInv
<1>4. \A d \in Challenges : challenge'[d].state \in {"none", "live"} => challenge[d].state \in {"none", "live"}
  OBVIOUS
<1>5. AcceptInv'
  BY <1>4, AcceptNone DEF AcceptInv
<1> QED
  BY <1>2, <1>3, <1>5

(* A challenge is given out.                                                *)
LEMMA IssueKeeps ==
  ASSUME AccountInv, NEW k \in Calls, NEW c \in Challenges, NEW purpose \in {"register", "authenticate"},
         IssueChallenge(k, c, purpose)
  PROVE  GuessInv' /\ HoldInv' /\ AcceptInv'
<1>1. UNCHANGED <<call, factor, code, accepted, guesses, lapses>>
  BY DEF IssueChallenge
<1> QED
  BY <1>1, IssueChallenges, ChallengeKeeps DEF AccountInv, RowInv

(* It runs out.                                                             *)
LEMMA ExpiryKeeps ==
  ASSUME AccountInv, NEW c \in Challenges, ChallengeExpires(c)
  PROVE  GuessInv' /\ HoldInv' /\ AcceptInv'
<1>1. /\ UNCHANGED <<call, factor, code, accepted, guesses, lapses>>
      /\ challenge[c].by = None /\ challenge' = [challenge EXCEPT ![c].state = "expired"]
  BY DEF ChallengeExpires
<1> QED
  BY <1>1, SpendChallenges, ChallengeKeeps DEF AccountInv, RowInv

(* A recovery code is spent.                                                *)
LEMMA RecoveryKeeps ==
  ASSUME AccountInv, NEW k \in Calls, NEW x \in Codes, NEW g \in Factors \cup {None}, VerifyRecovery(k, x, g)
  PROVE  GuessInv' /\ HoldInv' /\ AcceptInv'
<1> USE DEF AccountInv, RowInv
<1>0. /\ UNCHANGED <<factor, challenge, guesses, lapses>> /\ call[k] = Idle /\ Proved(k, g)
      /\ code[x] = "unused" /\ code' = [code EXCEPT ![x] = "used"] /\ accepted' = [accepted EXCEPT ![x] = @ + 1]
  BY DEF VerifyRecovery, Begins
<1>1. GuessInv'
  BY <1>0 DEF GuessInv
<1>2. HoldInv'
  <2>1. \A j \in Calls \ {k} : Leaves(j)
    BY <1>0, ProvedCall DEF Leaves
  <2>2. Holds(k)'
    BY <1>0, ProvedCall DEF Holds
  <2> QED
    BY <1>0, <2>1, <2>2, HoldStep DEF HoldInv
<1>3. AcceptInv'
  <2>1. x \in Proofs /\ accepted[x] = 0
    BY <1>0 DEF AcceptInv, Proofs
  <2>2. /\ code' \in [Codes -> {"none", "unused", "used", "gone"}]
        /\ \A y \in Codes : code'[y] \in {"none", "unused"} => y # x /\ code[y] \in {"none", "unused"}
    BY <1>0 DEF AcceptInv
  <2>3. \A c \in Challenges : c # x
    BY AccountsAssumption
  <2>4. \A f \in Authenticators, s \in Steps : <<f, s>> # x
    BY ProofsDiffer
  <2> QED
    BY <1>0, <2>1, <2>2, <2>3, <2>4, AcceptOne
<1> QED
  BY <1>1, <1>2, <1>3

(* A code of an authenticator is accepted, or a wrong one counted.          *)
LEMMA TotpKeeps ==
  ASSUME AccountInv, NEW k \in Calls, NEW f \in Authenticators, NEW s \in Steps \cup {0},
         NEW g \in Factors \cup {None}, VerifyTotp(k, f, s, g)
  PROVE  GuessInv' /\ HoldInv' /\ AcceptInv'
<1> USE DEF AccountInv, RowInv
<1>0. /\ f \in Factors /\ UNCHANGED <<challenge, code>> /\ call[k] = Idle /\ (UNCHANGED call \/ Proved(k, g))
  BY DEF Authenticators, VerifyTotp, Begins
<1>1. CASE Answers(f, s)
  <2>1. /\ factor' = Accepted(f, s) /\ accepted' = [accepted EXCEPT ![<<f, s>>] = @ + 1]
        /\ guesses' = [guesses EXCEPT ![f] = 0] /\ lapses' = [lapses EXCEPT ![f] = 0]
        /\ factor[f].state = "confirmed" /\ s > factor[f].step
    BY <1>1 DEF VerifyTotp, Answers, Confirmed
  <2>2. /\ GuessInv' /\ factor'[f].by = factor[f].by /\ factor'[f].state = factor[f].state /\ factor'[f].step = s
        /\ \A h \in Factors \ {f} : factor'[h] = factor[h]
    BY <1>0, <2>1, AcceptedFactor
  <2>3. factor[f].step \in Nat /\ s \in Nat /\ s \in Steps
    <3>1. factor[f].step \in Steps \cup {0}
      BY <1>0, GuessAt
    <3>2. factor[f].step \in Nat /\ s \in Nat
      BY <3>1, StepsAreNumbers
    <3> QED
      BY <2>1, <3>2
  <2>4. AcceptInv'
    <3>1. <<f, s>> \in Proofs /\ accepted[<<f, s>>] = 0
      BY <2>1, <2>3, ProofsDiffer DEF AcceptInv
    <3>2. (\A x \in Codes : x # <<f, s>>) /\ (\A c \in Challenges : c # <<f, s>>)
      BY <2>3, ProofsDiffer
    <3>3. ASSUME NEW h \in Authenticators, NEW t \in Steps, t > factor'[h].step
          PROVE  <<h, t>> # <<f, s>> /\ t > factor[h].step
      <4>1. CASE h = f
        BY <2>1, <2>2, <2>3, <3>3, <4>1, Bounds
      <4>2. CASE h # f
        BY <2>2, <3>3, <4>2 DEF Authenticators
      <4> QED
        BY <4>1, <4>2
    <3> QED
      BY <1>0, <2>1, <3>1, <3>2, <3>3, AcceptOne DEF AcceptInv
  <2>5. HoldInv'
    <3>1. \A j \in Calls \ {k} : Leaves(j)
      BY <1>0, <2>2, ProvedCall DEF Leaves
    <3>2. Holds(k)'
      BY <1>0, ProvedCall DEF Holds
    <3> QED
      BY <1>0, <3>1, <3>2, HoldStep DEF HoldInv
  <2> QED
    BY <2>2, <2>4, <2>5
<1>2. CASE ~Answers(f, s)
  <2>1. /\ factor' = Counted /\ UNCHANGED <<accepted, lapses, call>>
        /\ guesses' = [h \in Factors |-> IF h \in Compared THEN guesses[h] + 1 ELSE guesses[h]]
    BY <1>2 DEF VerifyTotp
  <2>2. /\ GuessInv'
        /\ \A h \in Factors : /\ factor'[h].by = factor[h].by /\ factor'[h].state = factor[h].state
                              /\ factor'[h].step = factor[h].step
    BY <2>1, CountedFactor
  <2>3. \A j \in Calls : Leaves(j)
    BY <1>0, <2>1, <2>2 DEF Leaves
  <2>4. HoldInv'
    BY <1>0, <2>3, HoldStep DEF HoldInv
  <2>5. AcceptInv'
    BY <1>0, <2>1, <2>2, AcceptNone DEF AcceptInv, Authenticators
  <2> QED
    BY <2>2, <2>4, <2>5
<1> QED
  BY <1>1, <1>2

(* A challenge is answered by a security key, well or not.                  *)
LEMMA AssertionKeeps ==
  ASSUME AccountInv, NEW k \in Calls, NEW c \in Challenges, NEW f \in Keys, NEW n \in Steps \cup {0},
         NEW g \in Factors \cup {None}, VerifyAssertion(k, c, f, n, g)
  PROVE  GuessInv' /\ HoldInv' /\ AcceptInv'
<1> USE DEF AccountInv, RowInv
<1>0. /\ f \in Factors /\ f \notin Authenticators /\ UNCHANGED <<code, guesses, lapses>>
      /\ call[k] = Idle /\ (UNCHANGED call \/ Proved(k, g))
      /\ challenge[c].state = "live" /\ challenge[c].by = None /\ challenge' = [challenge EXCEPT ![c].state = "used"]
      /\ \/ UNCHANGED <<factor, accepted>>
         \/ /\ factor[f].state = "confirmed" /\ factor' = [factor EXCEPT ![f].step = n]
            /\ accepted' = [accepted EXCEPT ![c] = @ + 1]
  BY AccountsAssumption DEF Authenticators, VerifyAssertion, Begins, Spendable, SpendChallenge, Confirmed
<1>1. /\ challenge' \in [Challenges -> ChallengeRow] /\ challenge'[c].by = None /\ challenge'[c].state = "used"
      /\ \A d \in Challenges \ {c} : challenge'[d] = challenge[d]
      /\ \A d \in Challenges : challenge'[d].by # None => challenge'[d].state = "live"
  BY <1>0, SpendChallenges
<1>2. Holds(k)'
  BY <1>0, ProvedCall DEF Holds
<1>3. CASE UNCHANGED <<factor, accepted>>
  <2>1. \A j \in Calls \ {k} : Leaves(j)
    BY <1>0, <1>1, <1>3, ProvedCall, AccountsAssumption DEF Leaves
  <2>2. HoldInv'
    BY <1>1, <1>2, <2>1, HoldStep
  <2>3. GuessInv'
    BY <1>0, <1>3 DEF GuessInv
  <2>4. AcceptInv'
    BY <1>0, <1>1, <1>3, AcceptNone DEF AcceptInv
  <2> QED
    BY <2>2, <2>3, <2>4
<1>4. CASE /\ factor[f].state = "confirmed" /\ factor' = [factor EXCEPT ![f].step = n]
           /\ accepted' = [accepted EXCEPT ![c] = @ + 1]
  <2>1. /\ GuessInv' /\ factor'[f].by = factor[f].by /\ factor'[f].state = factor[f].state
        /\ \A h \in Factors \ {f} : factor'[h] = factor[h]
    BY <1>0, <1>4, CounterFactor
  <2>2. \A j \in Calls \ {k} : Leaves(j)
    BY <1>0, <1>1, <2>1, ProvedCall, AccountsAssumption DEF Leaves
  <2>3. HoldInv'
    BY <1>1, <1>2, <2>2, HoldStep
  <2>4. AcceptInv'
    <3>1. c \in Proofs /\ accepted[c] = 0
      BY <1>0 DEF AcceptInv, Proofs
    <3>2. (\A x \in Codes : x # c) /\ \A h \in Authenticators, s \in Steps : <<h, s>> # c
      BY ProofsDiffer, AccountsAssumption
    <3>3. \A h \in Authenticators : factor'[h] = factor[h]
      BY <1>0, <2>1 DEF Authenticators
    <3> QED
      BY <1>0, <1>1, <1>4, <3>1, <3>2, <3>3, AcceptOne DEF AcceptInv
  <2> QED
    BY <2>1, <2>3, <2>4
<1> QED
  BY <1>0, <1>3, <1>4

(* An enrolment is committed: its proof was not accepted before.            *)
LEMMA ConfirmCommitKeeps ==
  ASSUME AccountInv, NEW k \in Calls, NEW minted \in SUBSET Codes, ConfirmCommit(k, minted)
  PROVE  GuessInv' /\ HoldInv' /\ AcceptInv'
<1> USE DEF AccountInv, RowInv
<1> DEFINE f == call[k].factor
           p == IF call[k].challenge = None THEN <<f, call[k].step>> ELSE call[k].challenge
<1>0. /\ call[k].pc = "confirming" /\ Ends(k) /\ challenge' = Released(k, "used")
      /\ accepted' = [accepted EXCEPT ![p] = @ + 1]
      /\ minted \subseteq {x \in Codes : code[x] = "none"}
      /\ code' = [x \in Codes |-> IF x \in minted THEN "unused" ELSE code[x]]
  BY DEF ConfirmCommit
<1>1. f \in Factors /\ factor[f].by = k /\ factor[f].state # "confirmed" /\ HoldsProof(k)
  BY <1>0 DEF HoldInv, Holds, HoldsFactor
<1>2. /\ GuessInv' /\ factor'[f].by = None /\ factor'[f].state = "confirmed" /\ factor'[f].step = call[k].step
      /\ \A h \in Factors \ {f} : factor'[h] = factor[h]
  BY <1>1, ConfirmCommitFactor
<1>3. /\ challenge' \in [Challenges -> ChallengeRow]
      /\ \A c \in Challenges : challenge[c].by # k => challenge'[c] = challenge[c]
      /\ \A c \in Challenges : challenge[c].by = k => challenge[c].state = "live" /\ challenge'[c].state = "used"
      /\ \A c \in Challenges : challenge'[c].by # None => challenge'[c].state = "live"
  BY <1>0, ReleasedChallenges
<1>4. HoldInv'
  <2>1. \A j \in Calls \ {k} : Leaves(j)
    BY <1>0, <1>1, <1>2, <1>3, EndsCall DEF Leaves
  <2>2. Holds(k)'
    BY <1>0, EndsCall, HoldsNothing
  <2> QED
    BY <1>3, <2>1, <2>2, HoldStep
<1>5. factor[f].step = 0
  BY <1>1, GuessAt
<1>6. /\ p \in Proofs /\ accepted[p] = 0 /\ \A x \in Codes : x # p
      /\ \A c \in Challenges : challenge'[c].state \in {"none", "live"} => c # p
      /\ \A h \in Authenticators, s \in Steps : s > factor'[h].step => <<h, s>> # p /\ s > factor[h].step
  <2>1. CASE call[k].challenge = None /\ f \in Authenticators /\ call[k].step \in Steps
    <3>1. PICK t \in Steps : t = call[k].step
      BY <2>1
    <3>2. p = <<f, t>> /\ factor'[f].step = t
      BY <1>2, <2>1, <3>1
    <3> HIDE DEF p
    <3>3. t > 0 /\ t \in Nat
      BY <3>1, Bounds DEF Steps
    <3>4. p \in Proofs /\ accepted[p] = 0 /\ (\A x \in Codes : x # p) /\ (\A c \in Challenges : c # p)
      BY <1>5, <2>1, <3>2, <3>3, ProofsDiffer DEF AcceptInv
    <3>5. ASSUME NEW h \in Authenticators, NEW s \in Steps, s > factor'[h].step
          PROVE  <<h, s>> # p /\ s > factor[h].step
      <4>1. CASE h = f
        <5>1. s \in Nat /\ s > t
          BY <3>2, <3>5, <4>1, StepsAreNumbers
        <5>2. s # t /\ s > 0
          BY <3>3, <5>1
        <5> QED
          BY <1>5, <3>2, <4>1, <5>2
      <4>2. CASE h # f
        BY <1>2, <3>2, <3>5, <4>2 DEF Authenticators
      <4> QED
        BY <4>1, <4>2
    <3> QED
      BY <3>4, <3>5
  <2>2. CASE call[k].challenge \in Challenges /\ f \in Keys /\ challenge[call[k].challenge].by = k
    <3>1. PICK c \in Challenges : c = call[k].challenge
      BY <2>2
    <3>2. p = c /\ challenge[c].by = k
      BY <2>2, <3>1, AccountsAssumption
    <3> HIDE DEF p
    <3>3. challenge[c].state = "live" /\ challenge'[c].state = "used"
      BY <1>3, <3>2
    <3>4. p \in Proofs /\ accepted[p] = 0 /\ (\A x \in Codes : x # p)
      BY <3>2, <3>3, AccountsAssumption DEF AcceptInv, Proofs
    <3>5. \A h \in Authenticators, s \in Steps : <<h, s>> # p
      BY <3>2, ProofsDiffer
    <3>6. \A h \in Authenticators : factor'[h] = factor[h]
      BY <1>2, <2>2 DEF Authenticators
    <3> QED
      BY <3>2, <3>3, <3>4, <3>5, <3>6
  <2> QED
    BY <1>1, <2>1, <2>2 DEF HoldsProof
<1> HIDE DEF p
<1>7. /\ code' \in [Codes -> {"none", "unused", "used", "gone"}]
      /\ \A x \in Codes : code'[x] \in {"none", "unused"} => code[x] \in {"none", "unused"}
  BY <1>0 DEF AcceptInv
<1>8. \A c \in Challenges : challenge'[c].state \in {"none", "live"} => c # p /\ challenge[c].state \in {"none", "live"}
  BY <1>3, <1>6
<1>9. AcceptInv'
  BY <1>0, <1>6, <1>7, <1>8, AcceptOne
<1> QED
  BY <1>2, <1>4, <1>9

(* A factor is deleted,                                                     *)
LEMMA RemoveDeleteKeeps ==
  ASSUME AccountInv, NEW k \in Calls, RemoveDelete(k), ~Ends(k)
  PROVE  GuessInv' /\ HoldInv' /\ AcceptInv'
<1> USE DEF AccountInv, RowInv
<1>0. PICK f \in Factors : f = call[k].factor
  BY DEF RemoveDelete, HoldInv, Holds
<1>1. /\ factor[f].by = None /\ factor' = [factor EXCEPT ![f].by = k]
      /\ UNCHANGED <<challenge, code, accepted, guesses, lapses>>
  BY <1>0 DEF RemoveDelete
<1>2. /\ GuessInv' /\ factor'[f].by = k /\ factor'[f].state = factor[f].state /\ factor'[f].step = factor[f].step
      /\ \A h \in Factors \ {f} : factor'[h] = factor[h]
  BY <1>1, LockFactor
<1>3. HoldInv'
  <2>1. \A j \in Calls \ {k} : Leaves(j)
    <3>1. \A j \in Calls \ {k} : call'[j] = call[j] /\ j # None
      BY RemoveDeleteCall, AccountsAssumption
    <3> QED
      BY <1>1, <1>2, <3>1 DEF Leaves
  <2>2. Holds(k)'
    BY <1>0, <1>2, RemoveDeleteCall DEF Holds, HoldsFactor
  <2> QED
    BY <1>1, <2>1, <2>2, HoldStep DEF HoldInv
<1>4. AcceptInv'
  BY <1>1, <1>2, AcceptNone DEF AcceptInv, Authenticators
<1> QED
  BY <1>2, <1>3, <1>4

(* and is gone, with what its secret proved.                                *)
LEMMA RemoveCommitKeeps ==
  ASSUME AccountInv, NEW k \in Calls, RemoveCommit(k)
  PROVE  GuessInv' /\ HoldInv' /\ AcceptInv'
<1> USE DEF AccountInv, RowInv
<1>0. PICK f \in Factors : f = call[k].factor /\ factor[f].by = k
  BY DEF RemoveCommit, HoldInv, Holds, HoldsFactor
<1>1. /\ Ends(k) /\ UNCHANGED challenge /\ code' = Left(call[k].found)
      /\ accepted' = [p \in Proofs |-> IF p \in {f} \X Steps THEN 0 ELSE accepted[p]]
  BY <1>0 DEF RemoveCommit
<1>2. /\ GuessInv' /\ factor'[f].by = None /\ factor'[f].state = "none" /\ factor'[f].step = 0
      /\ \A h \in Factors \ {f} : factor'[h] = factor[h]
  BY <1>0, RemoveCommitFactor
<1>3. HoldInv'
  <2>1. \A j \in Calls \ {k} : Leaves(j)
    BY <1>0, <1>1, <1>2, EndsCall DEF Leaves
  <2>2. Holds(k)'
    BY <1>1, EndsCall, HoldsNothing
  <2> QED
    BY <1>1, <2>1, <2>2, HoldStep DEF HoldInv
<1>4. AcceptInv'
  <2>1. accepted' \in [Proofs -> {0, 1}] /\ \A p \in Proofs : accepted[p] = 0 => accepted'[p] = 0
    BY <1>1 DEF AcceptInv
  <2>2. /\ code' \in [Codes -> {"none", "unused", "used", "gone"}]
        /\ \A x \in Codes : code'[x] \in {"none", "unused"} => code[x] \in {"none", "unused"}
    BY <1>1 DEF AcceptInv, Left
  <2>3. \A x \in Codes : code'[x] \in {"none", "unused"} => accepted'[x] = 0
    BY <2>1, <2>2 DEF AcceptInv, Proofs
  <2>4. \A c \in Challenges : challenge'[c].state \in {"none", "live"} => accepted'[c] = 0
    BY <1>1, <2>1 DEF AcceptInv, Proofs
  <2>5. ASSUME NEW h \in Authenticators, NEW s \in Steps, s > factor'[h].step PROVE accepted'[<<h, s>>] = 0
    <3>0. <<h, s>> \in Proofs
      BY ProofsDiffer
    <3>1. CASE h = f
      BY <1>1, <3>0, <3>1
    <3>2. CASE h # f
      BY <1>2, <2>1, <2>5, <3>0, <3>2 DEF AcceptInv, Authenticators
    <3> QED
      BY <3>1, <3>2
  <2> QED
    BY <2>1, <2>2, <2>3, <2>4, <2>5 DEF AcceptInv
<1> QED
  BY <1>2, <1>3, <1>4

(* A request dies.                                                          *)
LEMMA LostRowKeeps ==
  ASSUME AccountInv, NEW k \in Calls, CallLost(k)
  PROVE  GuessInv' /\ HoldInv' /\ AcceptInv'
<1> USE DEF AccountInv, RowInv
<1>1. Ends(k) /\ UNCHANGED <<code, accepted>> /\ challenge' = Released(k, "live")
  BY DEF CallLost
<1>2. /\ GuessInv'
      /\ \A h \in Factors : /\ factor[h].by # k => factor'[h] = factor[h]
                            /\ factor'[h].state = factor[h].state /\ factor'[h].step = factor[h].step
  BY LostFactor
<1>3. /\ challenge' \in [Challenges -> ChallengeRow]
      /\ \A c \in Challenges : challenge[c].by # k => challenge'[c] = challenge[c]
      /\ \A c \in Challenges : challenge[c].by = k => challenge[c].state = "live"
      /\ \A c \in Challenges : challenge'[c].by # None => challenge'[c].state = "live"
  BY <1>1, ReleasedChallenges
<1>4. \A j \in Calls \ {k} : Leaves(j)
  BY <1>1, <1>2, <1>3, EndsCall DEF Leaves
<1>5. Holds(k)'
  BY <1>1, EndsCall, HoldsNothing
<1>6. HoldInv'
  BY <1>3, <1>4, <1>5, HoldStep
<1>7. AcceptInv'
  BY <1>1, <1>2, <1>3, AcceptNone DEF AcceptInv, Authenticators
<1> QED
  BY <1>2, <1>6, <1>7

(* A lock lapses.                                                           *)
LEMMA LapseKeeps ==
  ASSUME AccountInv, NEW f \in Factors, LockLapses(f)
  PROVE  GuessInv' /\ HoldInv' /\ AcceptInv'
<1> USE DEF AccountInv, RowInv
<1>1. UNCHANGED <<call, challenge, code, accepted>>
  BY DEF LockLapses
<1>2. /\ GuessInv' /\ factor'[f].by = factor[f].by /\ factor'[f].state = factor[f].state
      /\ factor'[f].step = factor[f].step
      /\ \A h \in Factors \ {f} : factor'[h] = factor[h]
  BY LapseFactor
<1>3. \A j \in Calls : Leaves(j)
  BY <1>1, <1>2 DEF Leaves
<1>4. HoldInv'
  BY <1>1, <1>3, HoldStep DEF HoldInv
<1>5. AcceptInv'
  BY <1>1, <1>2, AcceptNone DEF AcceptInv, Authenticators
<1> QED
  BY <1>2, <1>4, <1>5

(* Every step keeps the invariant.                                          *)
LEMMA AccountKeeps == AccountInv /\ [Next]_vars => GuessInv' /\ HoldInv' /\ AcceptInv'
<1> SUFFICES ASSUME AccountInv, [Next]_vars PROVE GuessInv' /\ HoldInv' /\ AcceptInv'
  OBVIOUS
<1>1. CASE FactorSpared
  <2>1. AcceptInv'
    BY <1>1 DEF FactorSpared, AccountInv, AcceptInv
  <2> QED
    BY <1>1, <2>1, HoldFrame DEF AccountInv, RowInv
<1>2. CASE UNCHANGED vars
  BY <1>1, <1>2 DEF vars, factorVars, FactorSpared
<1>3. CASE FactorStep
  <2>1. ASSUME NEW k \in Calls, NEW f \in Authenticators, Begin(k, f) \/ \E s \in Steps : ConfirmRead(k, f, s)
        PROVE  GuessInv' /\ HoldInv' /\ AcceptInv'
    BY <2>1, BeginKeeps, ConfirmReadKeeps
  <2>2. ASSUME NEW k \in Calls, NEW c \in Challenges, NEW purpose \in {"register", "authenticate"},
               IssueChallenge(k, c, purpose)
        PROVE  GuessInv' /\ HoldInv' /\ AcceptInv'
    BY <2>2, IssueKeeps
  <2>3. ASSUME NEW k \in Calls, NEW f \in Keys, NEW c \in Challenges, NEW n \in Steps \cup {0},
               RegisterRead(k, f, c, n) \/ \E g \in Factors \cup {None} : VerifyAssertion(k, c, f, n, g)
        PROVE  GuessInv' /\ HoldInv' /\ AcceptInv'
    BY <2>3, RegisterReadKeeps, AssertionKeeps
  <2>4. ASSUME NEW c \in Challenges, ChallengeExpires(c)
        PROVE  GuessInv' /\ HoldInv' /\ AcceptInv'
    BY <2>4, ExpiryKeeps
  <2>5. ASSUME NEW k \in Calls, NEW minted \in SUBSET Codes, ConfirmCommit(k, minted)
        PROVE  GuessInv' /\ HoldInv' /\ AcceptInv'
    BY <2>5, ConfirmCommitKeeps
  <2>6. ASSUME NEW k \in Calls, NEW g \in Factors \cup {None},
               \/ \E x \in Codes : VerifyRecovery(k, x, g)
               \/ \E f \in Authenticators, s \in Steps \cup {0} : VerifyTotp(k, f, s, g)
        PROVE  GuessInv' /\ HoldInv' /\ AcceptInv'
    BY <2>6, RecoveryKeeps, TotpKeeps
  <2>7. ASSUME NEW k \in Calls, (RemoveDelete(k) /\ ~Ends(k)) \/ RemoveCommit(k) \/ CallLost(k)
        PROVE  GuessInv' /\ HoldInv' /\ AcceptInv'
    BY <2>7, RemoveDeleteKeeps, RemoveCommitKeeps, LostRowKeeps
  <2>8. ASSUME NEW f \in Factors, LockLapses(f)
        PROVE  GuessInv' /\ HoldInv' /\ AcceptInv'
    BY <2>8, LapseKeeps
  <2> QED
    BY <1>3, <2>1, <2>2, <2>3, <2>4, <2>5, <2>6, <2>7, <2>8 DEF FactorStep
<1> QED
  BY <1>1, <1>2, <1>3, FactorSplits DEF AccountInv, RowInv

(* There is nothing at first.                                               *)
LEMMA InitAccount == Init => GuessInv /\ HoldInv /\ AcceptInv
<1> SUFFICES ASSUME Init PROVE GuessInv /\ HoldInv /\ AcceptInv
  OBVIOUS
<1>1. GuessInv
  <2>1. \A f \in Factors : factor[f] = NoFactor /\ guesses[f] = 0 /\ lapses[f] = 0
    BY DEF Init
  <2>2. GoodFactor(NoFactor, 0, 0)
    BY FreshRows, Bounds
  <2>3. NoFactor \in FactorRow
    BY <2>2 DEF GoodFactor
  <2>4. factor \in [Factors -> FactorRow] /\ guesses \in [Factors -> Nat] /\ lapses \in [Factors -> Nat]
    BY <2>3 DEF Init
  <2> QED
    BY <2>1, <2>2, <2>4 DEF GuessInv
<1>2. HoldInv
  <2>1. challenge \in [Challenges -> ChallengeRow] /\ \A c \in Challenges : challenge[c].by = None
    BY DEF Init, ChallengeRow, NoChallenge
  <2>2. \A k \in Calls : call[k].pc = "idle"
    BY DEF Init, Idle
  <2> QED
    BY <2>1, <2>2 DEF HoldInv, Holds
<1>3. AcceptInv
  <2>1. accepted = [p \in Proofs |-> 0] /\ code \in [Codes -> {"none"}]
    BY DEF Init
  <2>2. \A f \in Authenticators, s \in Steps : <<f, s>> \in Proofs
    BY ProofsDiffer
  <2> QED
    BY <2>1, <2>2 DEF AcceptInv, Proofs
<1> QED
  BY <1>1, <1>2, <1>3

(* No proof is accepted twice: a recovery code is spent by the UPDATE that  *)
(* finds it, a challenge is spent before the signature is looked at, the    *)
(* row remembers the TOTP step, the one that confirmed the enrolment too,   *)
(* and a link is spent with the password it sets, for any number of         *)
(* requests at once, some of which die.                                     *)
THEOREM ProofsAcceptedOnce == Spec => []ProofOnce
<1>1. Init => AdminInv /\ GuessInv /\ HoldInv /\ AcceptInv /\ LinkInv
  BY InitAdministered, InitAccount, InitLink
<1>2. AdminInv /\ GuessInv /\ HoldInv /\ AcceptInv /\ LinkInv /\ [Next]_vars
      => (AdminInv /\ GuessInv /\ HoldInv /\ AcceptInv /\ LinkInv)'
  BY StepKeeps, AccountKeeps, LinkKeeps DEF AdminInv, AccountInv, RowInv
<1>3. AcceptInv /\ LinkInv => ProofOnce
  BY DEF AcceptInv, LinkInv, ProofOnce
<1> QED
  BY <1>1, <1>2, <1>3, PTL DEF Spec

(* A wrong code is compared with a factor at most MaxFailures times between *)
(* successes, and once more after each lock that lapses: the failures of    *)
(* the row are the guesses made, and verify counts and locks in the         *)
(* transaction that compared.                                               *)
THEOREM GuessesAreBounded == Spec => []GuessesBounded
<1>1. Init => AdminInv /\ GuessInv /\ HoldInv /\ AcceptInv
  BY InitAdministered, InitAccount
<1>2. AdminInv /\ GuessInv /\ HoldInv /\ AcceptInv /\ [Next]_vars
      => (AdminInv /\ GuessInv /\ HoldInv /\ AcceptInv)'
  BY StepKeeps, AccountKeeps DEF AdminInv, AccountInv, RowInv
<1>3. GuessInv => GuessesBounded
  BY GuessAt DEF GuessesBounded
<1> QED
  BY <1>1, <1>2, <1>3, PTL DEF Spec

----------------------------------------------------------------------------
(* The clock and the requests made.                                         *)

(* Every step keeps them within their bounds.                               *)
LEMMA ClockKeeps == ClockInv /\ [Next]_vars => ClockInv'
<1> SUFFICES ASSUME ClockInv, [Next]_vars PROVE ClockInv'
  OBVIOUS
<1>1. MaxOps \in Nat /\ MaxStep \in Nat
  BY AccountsAssumption
<1>2. now' \in {now, now + 1} /\ (now' # now => now < MaxStep)
  <2>1. CASE Tick
    BY <2>1 DEF Tick
  <2>2. ASSUME NEW k \in Calls, NEW f, NEW c, NEW n, NEW g, NEW m,
               \/ UpdateRead(k, f, c, n) \/ UpdateWrite(k) \/ RemoveDelete(k) \/ RemoveCommit(k) \/ AskRead(k) \/ AskMark(k)
               \/ RedeemSpend(k) \/ CallLost(k) \/ Begin(k, f) \/ ConfirmRead(k, f, n) \/ IssueChallenge(k, c, n)
               \/ RegisterRead(k, f, c, n) \/ VerifyAssertion(k, c, f, n, g) \/ ChallengeExpires(c)
               \/ ConfirmCommit(k, m) \/ VerifyRecovery(k, m, g) \/ VerifyTotp(k, f, n, g)
               \/ AskCommit(k, m) \/ RedeemRead(k, m)
        PROVE  UNCHANGED now
    BY <2>2 DEF UpdateRead, UpdateWrite, RemoveDelete, RemoveCommit, AskRead, AskMark, RedeemSpend, CallLost, Begin, ConfirmRead,
         IssueChallenge, RegisterRead, VerifyAssertion, ChallengeExpires, ConfirmCommit, VerifyRecovery, VerifyTotp,
         AskCommit, RedeemRead, factorVars
  <2>3. ASSUME NEW x, ChallengeExpires(x) \/ LinkExpires(x) \/ LockLapses(x)
        PROVE  UNCHANGED now
    BY <2>3 DEF ChallengeExpires, LinkExpires, LockLapses, factorVars
  <2>4. CASE UNCHANGED vars
    BY <2>4 DEF vars, factorVars
  <2> QED
    BY <2>1, <2>2, <2>3, <2>4 DEF Next
<1>3. ops' \in {ops, ops + 1} /\ (ops' # ops => ops < MaxOps)
  <2>1. ASSUME NEW k \in Calls, Begins(k) \/ Ends(k)
        PROVE  ops' \in {ops, ops + 1} /\ (ops' # ops => ops < MaxOps)
    BY <2>1 DEF Begins, Ends
  <2>2. ASSUME NEW k \in Calls, NEW f, NEW c, NEW n, NEW g, NEW m,
               \/ UpdateRead(k, f, c, n) \/ UpdateWrite(k) \/ RemoveCommit(k) \/ AskRead(k) \/ AskMark(k)
               \/ RedeemSpend(k) \/ CallLost(k) \/ Begin(k, f) \/ ConfirmRead(k, f, n) \/ IssueChallenge(k, c, n)
               \/ RegisterRead(k, f, c, n) \/ VerifyAssertion(k, c, f, n, g)
               \/ ConfirmCommit(k, m) \/ VerifyRecovery(k, m, g) \/ VerifyTotp(k, f, n, g)
               \/ AskCommit(k, m) \/ RedeemRead(k, m)
        PROVE  ops' \in {ops, ops + 1} /\ (ops' # ops => ops < MaxOps)
    BY <2>1, <2>2 DEF UpdateRead, UpdateWrite, RemoveCommit, AskRead, AskMark, RedeemSpend, CallLost, Begin, ConfirmRead,
         IssueChallenge, RegisterRead, VerifyAssertion, ConfirmCommit, VerifyRecovery, VerifyTotp,
         AskCommit, RedeemRead
  <2>3. ASSUME NEW k \in Calls, RemoveDelete(k)
        PROVE  ops' \in {ops, ops + 1} /\ (ops' # ops => ops < MaxOps)
    BY <2>1, <2>3 DEF RemoveDelete
  <2>4. ASSUME NEW x, ChallengeExpires(x) \/ LinkExpires(x) \/ LockLapses(x) \/ Tick
        PROVE  UNCHANGED ops
    BY <2>4 DEF ChallengeExpires, LinkExpires, LockLapses, Tick
  <2>5. CASE UNCHANGED vars
    BY <2>5 DEF vars
  <2> QED
    BY <2>2, <2>3, <2>4, <2>5 DEF Next
<1> QED
  BY <1>1, <1>2, <1>3 DEF ClockInv, Steps

(* They start within them.                                                  *)
LEMMA InitClock == Init => ClockInv
  BY AccountsAssumption DEF Init, ClockInv, Steps

(* What a request counted is a number up to that of all factors and codes.  *)
LEMMA CountsBounded == Counts \subseteq 0 .. Cardinality(Factors \cup Codes)
<1> SUFFICES ASSUME NEW S \in SUBSET (Factors \cup Codes)
             PROVE  Cardinality(S) \in 0 .. Cardinality(Factors \cup Codes)
  BY DEF Counts
<1>1. IsFiniteSet(Factors \cup Codes)
  BY AccountsAssumption
<1>2. IsFiniteSet(S) /\ Cardinality(S) <= Cardinality(Factors \cup Codes)
  BY <1>1, FS_Subset
<1> QED
  BY <1>1, <1>2, FS_CardinalityType

(* The rows and the requests hold values of their columns; what a factor's  *)
(* row counts stays below the bound its lock gives it, and no counter of    *)
(* the model leaves its range.                                              *)
THEOREM AccountTypes == Spec => []TypeOK
<1>1. Init => AdminInv /\ GuessInv /\ HoldInv /\ AcceptInv /\ LinkInv /\ ClockInv
  BY InitAdministered, InitAccount, InitLink, InitClock
<1>2. AdminInv /\ GuessInv /\ HoldInv /\ AcceptInv /\ LinkInv /\ ClockInv /\ [Next]_vars
      => (AdminInv /\ GuessInv /\ HoldInv /\ AcceptInv /\ LinkInv /\ ClockInv)'
  BY StepKeeps, AccountKeeps, LinkKeeps, ClockKeeps DEF AdminInv, AccountInv, RowInv
<1>3. AdminInv /\ GuessInv /\ HoldInv /\ AcceptInv /\ LinkInv /\ ClockInv => TypeOK
  <2> SUFFICES ASSUME AdminInv, GuessInv, HoldInv, AcceptInv, LinkInv, ClockInv PROVE TypeOK
    OBVIOUS
  <2>1. call \in [Calls -> [pc: {"idle", "update", "confirming", "remove", "removing", "asked", "asking", "redeeming"},
                         user: Users \cup {None}, role: {"member", "org_admin"}, off: BOOLEAN,
                         factor: Factors \cup {None}, challenge: Challenges \cup {None}, link: Links \cup {None}, step: Steps \cup {0},
                         found: 0 .. Cardinality(Factors \cup Codes), seen: SUBSET Links]]
    <3>1. PICK N : N = 0 .. Cardinality(Factors \cup Codes)
      OBVIOUS
    <3>2. Counts \subseteq N
      BY <3>1, CountsBounded
    <3>3. call \in [Calls -> [pc: {"idle", "update", "confirming", "remove", "removing", "asked", "asking", "redeeming"},
                         user: Users \cup {None}, role: {"member", "org_admin"}, off: BOOLEAN,
                         factor: Factors \cup {None}, challenge: Challenges \cup {None}, link: Links \cup {None}, step: Steps \cup {0},
                         found: N, seen: SUBSET Links]]
      BY <3>2 DEF AdminInv, UserInv, CallRecord
    <3> QED
      BY <3>1, <3>3
  <2>2. role \in [Users -> {"member", "org_admin"}] /\ disabled \subseteq Users /\ orgLock \in Calls \cup {None}
    BY DEF AdminInv, UserInv, LockInv
  <2> QED
    BY <2>1, <2>2 DEF TypeOK, GuessInv, FactorRow, HoldInv, ChallengeRow, AcceptInv, LinkInv, LinkRow, ClockInv
<1> QED
  BY <1>1, <1>2, <1>3, PTL DEF Spec

----------------------------------------------------------------------------
(* Recovery codes and factors.                                              *)

SomeCode == \E x \in Codes : code[x] \in {"unused", "used"}

(* A step that is no step of an enrolment or a removal.                     *)
FollowSpared ==
  /\ UNCHANGED raced /\ Confirmed' = Confirmed /\ Unused' \subseteq Unused
  /\ SomeCode => SomeCode'
  /\ \A k \in Calls : call'[k].pc \in {"confirming", "removing"} => call'[k] = call[k]

(* It keeps FollowInv.                                                      *)
LEMMA FollowFrame == FollowInv /\ FollowSpared => FollowInv'
<1> SUFFICES ASSUME FollowInv, FollowSpared, ~raced PROVE FollowInv'
  BY DEF FollowInv, FollowSpared
<1>1. \A j \in Calls : Enrolling(j)' => Enrolling(j)
  BY DEF FollowSpared, Enrolling
<1>2. \A k \in Calls : call'[k].pc = "confirming" /\ call'[k].found > 0 => SomeCode'
  BY DEF FollowInv, FollowSpared, SomeCode
<1>3. ASSUME NEW k \in Calls, call'[k].pc = "removing"
      PROVE  call'[k].found = Cardinality(Confirmed' \ {call'[k].factor})
  <2>1. call'[k] = call[k] /\ Confirmed' = Confirmed
    BY <1>3 DEF FollowSpared
  <2> QED
    BY <1>3, <2>1 DEF FollowInv
<1>4. /\ Confirmed' = {} => Unused' = {}
      /\ Confirmed' # {} => SomeCode'
  BY DEF FollowInv, FollowSpared, SomeCode
<1>5. \A j, k \in Calls : Enrolling(j)' /\ Enrolling(k)' => j = k
  BY <1>1 DEF FollowInv
<1>6. raced' \in BOOLEAN
  BY DEF FollowInv, FollowSpared
<1> QED
  BY <1>2, <1>3, <1>4, <1>5, <1>6 DEF FollowInv, SomeCode

(* What a step on the rows does to the confirmed ones.                      *)
LEMMA SameConfirmed ==
  ASSUME \A h \in Factors : factor'[h].state = factor[h].state PROVE Confirmed' = Confirmed
  BY DEF Confirmed

(* An empty set counts as none.                                             *)
LEMMA CountPositive == ASSUME NEW S, Cardinality(S) > 0 PROVE S # {}
  BY FS_EmptySet

(* An enrolment counts the codes.                                           *)
LEMMA ConfirmingFollows ==
  ASSUME FollowInv, NEW k \in Calls, call'[k].pc = "confirming", call'[k].found = Cardinality(Unused),
         \A j \in Calls \ {k} : call'[j] = call[j],
         raced' = (raced \/ Overlaps(k)), UNCHANGED code, Confirmed' = Confirmed
  PROVE  FollowInv'
<1>0. raced' \in BOOLEAN
  OBVIOUS
<1> SUFFICES ASSUME ~raced, ~Overlaps(k) PROVE FollowInv'
  BY <1>0 DEF FollowInv
<1>1. \A j \in Calls \ {k} : ~Enrolling(j) /\ ~Enrolling(j)'
  BY DEF Overlaps, Enrolling
<1>2. \A j \in Calls : call'[j].pc \in {"confirming", "removing"} => j = k
  BY <1>1 DEF Enrolling
<1>3. call'[k].found > 0 => SomeCode'
  <2> SUFFICES ASSUME Cardinality(Unused) > 0 PROVE SomeCode'
    OBVIOUS
  <2>1. Unused # {}
    BY CountPositive
  <2> QED
    BY <2>1 DEF SomeCode, Unused
<1>4. (Confirmed' = {} => Unused' = {}) /\ (Confirmed' # {} => SomeCode')
  BY DEF FollowInv, SomeCode, Unused
<1>5. \A i, j \in Calls : Enrolling(i)' /\ Enrolling(j)' => i = j
  BY <1>1
<1> QED
  BY <1>0, <1>2, <1>3, <1>4, <1>5 DEF FollowInv, SomeCode

(* It is committed: there are codes now, or there were.                     *)
LEMMA ConfirmCommitFollows ==
  ASSUME AccountInv, FollowInv, NEW k \in Calls, NEW minted \in SUBSET Codes, ConfirmCommit(k, minted)
  PROVE  FollowInv'
<1> USE DEF AccountInv, RowInv
<1>0. /\ call[k].pc = "confirming" /\ Ends(k) /\ UNCHANGED raced
      /\ Cardinality(minted) = IF call[k].found > 0 THEN 0 ELSE CodeCount
      /\ minted \subseteq {x \in Codes : code[x] = "none"}
      /\ code' = [x \in Codes |-> IF x \in minted THEN "unused" ELSE code[x]]
  BY DEF ConfirmCommit
<1> SUFFICES ASSUME ~raced PROVE FollowInv'
  BY <1>0 DEF FollowInv
<1>1. PICK f \in Factors : f = call[k].factor /\ factor[f].state # "confirmed"
  BY <1>0 DEF HoldInv, Holds, HoldsFactor
<1>2. factor'[f].state = "confirmed"
  BY <1>1, ConfirmCommitFactor
<1>3. Confirmed' # {}
  BY <1>2 DEF Confirmed
<1>4. SomeCode'
  <2>1. CASE call[k].found > 0
    <3>1. PICK x \in Codes : code[x] \in {"unused", "used"}
      BY <1>0, <2>1 DEF FollowInv
    <3> QED
      BY <1>0, <3>1 DEF SomeCode
  <2>2. CASE ~(call[k].found > 0)
    <3>1. Cardinality(minted) > 0
      BY <1>0, <2>2, AccountsAssumption
    <3>2. PICK x \in Codes : x \in minted
      BY <3>1, CountPositive
    <3> QED
      BY <1>0, <3>2 DEF SomeCode
  <2> QED
    BY <2>1, <2>2
<1>5. \A j \in Calls : call'[j].pc \notin {"confirming", "removing"}
  BY <1>0, EndsCall DEF FollowInv, Enrolling
<1> QED
  BY <1>0, <1>3, <1>4, <1>5 DEF FollowInv, SomeCode, Enrolling

(* A removal counts the factors it leaves.                                  *)
LEMMA RemoveDeleteFollows ==
  ASSUME AccountInv, FollowInv, NEW k \in Calls, RemoveDelete(k), ~Ends(k)
  PROVE  FollowInv'
<1> USE DEF AccountInv, RowInv
<1>0. PICK f \in Factors : f = call[k].factor
  BY DEF RemoveDelete, HoldInv, Holds
<1>1. /\ factor' = [factor EXCEPT ![f].by = k] /\ raced' = (raced \/ Overlaps(k))
      /\ UNCHANGED <<code, guesses, lapses>>
  BY <1>0 DEF RemoveDelete
<1>2. Confirmed' = Confirmed
  <2>1. \A h \in Factors : factor'[h].state = factor[h].state
    BY <1>1, LockFactor
  <2> QED
    BY <2>1, SameConfirmed
<1>3. raced' \in BOOLEAN
  BY <1>1
<1> SUFFICES ASSUME ~raced, ~Overlaps(k) PROVE FollowInv'
  BY <1>1, <1>3 DEF FollowInv
<1>4. /\ call'[k].pc = "removing" /\ call'[k].factor = f /\ call'[k].found = Cardinality(Confirmed \ {f})
      /\ \A j \in Calls \ {k} : call'[j] = call[j]
  BY <1>0, RemoveDeleteCall
<1>5. \A j \in Calls \ {k} : ~Enrolling(j) /\ ~Enrolling(j)'
  BY <1>4 DEF Overlaps, Enrolling
<1>6. \A j \in Calls : call'[j].pc \in {"confirming", "removing"} => j = k
  BY <1>5 DEF Enrolling
<1>7. (Confirmed' = {} => Unused' = {}) /\ (Confirmed' # {} => SomeCode')
  BY <1>1, <1>2 DEF FollowInv, SomeCode, Unused
<1>8. \A i, j \in Calls : Enrolling(i)' /\ Enrolling(j)' => i = j
  BY <1>5
<1>9. \A j \in Calls : call'[j].pc = "removing" => call'[j].found = Cardinality(Confirmed' \ {call'[j].factor})
  BY <1>2, <1>4, <1>6
<1>10. \A j \in Calls : call'[j].pc # "confirming"
  BY <1>4, <1>6
<1> QED
  BY <1>3, <1>7, <1>8, <1>9, <1>10 DEF FollowInv, SomeCode

(* It is committed: with the last factor the codes go.                      *)
LEMMA RemoveCommitFollows ==
  ASSUME AccountInv, FollowInv, NEW k \in Calls, RemoveCommit(k)
  PROVE  FollowInv'
<1> USE DEF AccountInv, RowInv
<1>0. PICK f \in Factors : f = call[k].factor
  BY DEF RemoveCommit, HoldInv, Holds, HoldsFactor
<1>1. call[k].pc = "removing" /\ Ends(k) /\ UNCHANGED raced /\ code' = Left(call[k].found)
  BY DEF RemoveCommit
<1> SUFFICES ASSUME ~raced PROVE FollowInv'
  BY <1>1 DEF FollowInv
<1>2. factor'[f].state = "none" /\ \A h \in Factors \ {f} : factor'[h] = factor[h]
  BY <1>0, RemoveCommitFactor
<1>3. Confirmed' = Confirmed \ {f}
  BY <1>2 DEF Confirmed
<1>4. call[k].found = Cardinality(Confirmed \ {f})
  BY <1>0, <1>1 DEF FollowInv
<1>5. \A j \in Calls : call'[j].pc \notin {"confirming", "removing"}
  BY <1>1, EndsCall DEF FollowInv, Enrolling
<1>6. IsFiniteSet(Confirmed \ {f})
  <2>1. IsFiniteSet(Factors \cup Codes) /\ Confirmed \ {f} \subseteq Factors \cup Codes
    BY AccountsAssumption DEF Confirmed
  <2> QED
    BY <2>1, FS_Subset
<1>7. CASE Confirmed \ {f} = {}
  <2>1. call[k].found = 0
    BY <1>4, <1>7, FS_EmptySet
  <2>2. code' = [x \in Codes |-> IF code[x] = "none" THEN "none" ELSE "gone"]
    BY <1>1, <2>1 DEF Left
  <2>3. Unused' = {}
    BY <2>2 DEF Unused
  <2> QED
    BY <1>1, <1>3, <1>5, <1>7, <2>3 DEF FollowInv, Enrolling
<1>8. CASE Confirmed \ {f} # {}
  <2>1. call[k].found # 0
    BY <1>4, <1>6, <1>8, FS_EmptySet
  <2>2. code' = code
    BY <1>1, <2>1 DEF Left
  <2>3. SomeCode'
    BY <1>8, <2>2 DEF FollowInv, SomeCode
  <2> QED
    BY <1>1, <1>3, <1>5, <1>8, <2>3 DEF FollowInv, SomeCode, Enrolling
<1> QED
  BY <1>7, <1>8

(* The other steps on factors and codes are no enrolment and no removal.    *)
LEMMA BeginFollows ==
  ASSUME AccountInv, NEW k \in Calls, NEW f \in Authenticators, Begin(k, f) PROVE FollowSpared
<1>1. f \in Factors /\ UNCHANGED <<raced, call, code>>
  BY DEF Begin, Authenticators
<1>2. Confirmed' = Confirmed
  BY <1>1, BeginFactor DEF Confirmed, AccountInv, RowInv
<1> QED
  BY <1>1, <1>2 DEF FollowSpared, Unused, SomeCode

(* A challenge, which has no part in it.                                    *)
LEMMA ChallengeFollows ==
  ASSUME NEW k, NEW c, NEW purpose, IssueChallenge(k, c, purpose) \/ ChallengeExpires(c) PROVE FollowSpared
  BY DEF IssueChallenge, ChallengeExpires, FollowSpared, Unused, SomeCode, Confirmed

(* A recovery code, which is used then and not gone.                        *)
LEMMA RecoveryFollows ==
  ASSUME AccountInv, NEW k \in Calls, NEW x \in Codes, NEW g \in Factors \cup {None}, VerifyRecovery(k, x, g)
  PROVE  FollowSpared
<1>1. /\ UNCHANGED <<factor, raced>> /\ call[k] = Idle /\ Proved(k, g)
      /\ code' = [code EXCEPT ![x] = "used"]
  BY DEF VerifyRecovery, Begins
<1>2. \A j \in Calls : call'[j].pc \in {"confirming", "removing"} => call'[j] = call[j]
  BY <1>1, ProvedCall DEF AccountInv, RowInv
<1>3. code'[x] = "used" /\ \A y \in Codes \ {x} : code'[y] = code[y]
  BY <1>1 DEF AccountInv, AcceptInv
<1> QED
  BY <1>1, <1>2, <1>3 DEF FollowSpared, Unused, SomeCode, Confirmed

(* A code of an authenticator.                                              *)
LEMMA TotpFollows ==
  ASSUME AccountInv, NEW k \in Calls, NEW f \in Authenticators, NEW s \in Steps \cup {0},
         NEW g \in Factors \cup {None}, VerifyTotp(k, f, s, g)
  PROVE  FollowSpared
<1> USE DEF AccountInv, RowInv
<1>0. f \in Factors /\ UNCHANGED <<raced, code>> /\ call[k] = Idle /\ (UNCHANGED call \/ Proved(k, g))
  BY DEF Authenticators, VerifyTotp, Begins
<1>1. \A j \in Calls : call'[j].pc \in {"confirming", "removing"} => call'[j] = call[j]
  BY <1>0, ProvedCall
<1>2. \A h \in Factors : factor'[h].state = factor[h].state
  <2>1. CASE Answers(f, s)
    <3>1. /\ factor' = Accepted(f, s) /\ guesses' = [guesses EXCEPT ![f] = 0] /\ lapses' = [lapses EXCEPT ![f] = 0]
          /\ factor[f].state = "confirmed"
      BY <2>1 DEF VerifyTotp, Answers, Confirmed
    <3> QED
      BY <1>0, <3>1, AcceptedFactor
  <2>2. CASE ~Answers(f, s)
    <3>1. /\ factor' = Counted /\ UNCHANGED lapses
          /\ guesses' = [h \in Factors |-> IF h \in Compared THEN guesses[h] + 1 ELSE guesses[h]]
      BY <2>2 DEF VerifyTotp
    <3> QED
      BY <3>1, CountedFactor
  <2> QED
    BY <2>1, <2>2
<1>3. Confirmed' = Confirmed
  BY <1>2, SameConfirmed
<1> QED
  BY <1>0, <1>1, <1>3 DEF FollowSpared, Unused, SomeCode

(* An answer of a security key.                                             *)
LEMMA AssertionFollows ==
  ASSUME AccountInv, NEW k \in Calls, NEW c \in Challenges, NEW f \in Keys, NEW n \in Steps \cup {0},
         NEW g \in Factors \cup {None}, VerifyAssertion(k, c, f, n, g)
  PROVE  FollowSpared
<1> USE DEF AccountInv, RowInv
<1>0. /\ f \in Factors /\ UNCHANGED <<raced, code, guesses, lapses>> /\ call[k] = Idle
      /\ (UNCHANGED call \/ Proved(k, g))
      /\ \/ UNCHANGED factor
         \/ factor[f].state = "confirmed" /\ factor' = [factor EXCEPT ![f].step = n]
  BY AccountsAssumption DEF VerifyAssertion, Begins, Confirmed
<1>1. \A j \in Calls : call'[j].pc \in {"confirming", "removing"} => call'[j] = call[j]
  BY <1>0, ProvedCall
<1>2. \A h \in Factors : factor'[h].state = factor[h].state
  BY <1>0, CounterFactor
<1>3. Confirmed' = Confirmed
  BY <1>2, SameConfirmed
<1> QED
  BY <1>0, <1>1, <1>3 DEF FollowSpared, Unused, SomeCode

(* A request that dies, and a lock that lapses.                             *)
LEMMA LostFollows ==
  ASSUME AccountInv, NEW k \in Calls, CallLost(k) PROVE FollowSpared
<1> USE DEF AccountInv, RowInv
<1>1. UNCHANGED <<raced, code>> /\ Ends(k)
  BY DEF CallLost
<1>2. Confirmed' = Confirmed
  BY LostFactor, SameConfirmed
<1>3. \A j \in Calls : call'[j].pc \in {"confirming", "removing"} => call'[j] = call[j]
  BY <1>1, EndsCall
<1> QED
  BY <1>1, <1>2, <1>3 DEF FollowSpared, Unused, SomeCode

(* The lock.                                                                *)
LEMMA LapseFollows ==
  ASSUME AccountInv, NEW f \in Factors, LockLapses(f) PROVE FollowSpared
<1>1. UNCHANGED <<raced, code, call>>
  BY DEF LockLapses
<1>2. \A h \in Factors : factor'[h].state = factor[h].state
  BY LapseFactor DEF AccountInv, RowInv
<1>3. Confirmed' = Confirmed
  BY <1>2, SameConfirmed
<1> QED
  BY <1>1, <1>3 DEF FollowSpared, Unused, SomeCode

(* The two reads of an enrolment.                                           *)
LEMMA ReadFollows ==
  ASSUME AccountInv, FollowInv, NEW k \in Calls, NEW f \in Factors, NEW c, NEW s,
         ConfirmRead(k, f, s) \/ RegisterRead(k, f, c, s)
  PROVE  FollowInv'
<1> USE DEF AccountInv, RowInv
<1>1. /\ factor' = [factor EXCEPT ![f].by = k] /\ raced' = (raced \/ Overlaps(k))
      /\ UNCHANGED <<code, guesses, lapses>>
  BY DEF ConfirmRead, RegisterRead
<1>2. \A h \in Factors : factor'[h].state = factor[h].state
  BY <1>1, LockFactor
<1>3. Confirmed' = Confirmed
  BY <1>2, SameConfirmed
<1>4. /\ call'[k].pc = "confirming" /\ call'[k].found = Cardinality(Unused)
      /\ \A j \in Calls \ {k} : call'[j] = call[j]
  BY ConfirmReadCall, RegisterReadCall
<1> QED
  BY <1>1, <1>3, <1>4, ConfirmingFollows

(* Every step keeps FollowInv.                                              *)
LEMMA FollowKeeps == AccountInv /\ FollowInv /\ [Next]_vars => FollowInv'
<1> SUFFICES ASSUME AccountInv, FollowInv, [Next]_vars PROVE FollowInv'
  OBVIOUS
<1>1. CASE FactorSpared \/ UNCHANGED vars
  <2>1. FollowSpared
    BY <1>1 DEF FactorSpared, vars, factorVars, FollowSpared, Unused, SomeCode, Confirmed
  <2> QED
    BY <2>1, FollowFrame
<1>2. CASE FactorStep
  <2>1. ASSUME NEW k \in Calls, NEW f \in Authenticators, Begin(k, f) \/ \E s \in Steps : ConfirmRead(k, f, s)
        PROVE  FollowInv'
    BY <2>1, BeginFollows, FollowFrame, ReadFollows DEF Authenticators
  <2>2. ASSUME NEW k \in Calls, NEW c \in Challenges, NEW purpose \in {"register", "authenticate"},
               IssueChallenge(k, c, purpose)
        PROVE  FollowInv'
    BY <2>2, ChallengeFollows, FollowFrame
  <2>3. ASSUME NEW k \in Calls, NEW f \in Keys, NEW c \in Challenges, NEW n \in Steps \cup {0},
               RegisterRead(k, f, c, n) \/ \E g \in Factors \cup {None} : VerifyAssertion(k, c, f, n, g)
        PROVE  FollowInv'
    <3>1. f \in Factors
      BY AccountsAssumption
    <3> QED
      BY <2>3, <3>1, AssertionFollows, FollowFrame, ReadFollows
  <2>4. ASSUME NEW c \in Challenges, ChallengeExpires(c)
        PROVE  FollowInv'
    BY <2>4, ChallengeFollows, FollowFrame
  <2>5. ASSUME NEW k \in Calls, NEW minted \in SUBSET Codes, ConfirmCommit(k, minted)
        PROVE  FollowInv'
    BY <2>5, ConfirmCommitFollows
  <2>6. ASSUME NEW k \in Calls, NEW g \in Factors \cup {None},
               \/ \E x \in Codes : VerifyRecovery(k, x, g)
               \/ \E f \in Authenticators, s \in Steps \cup {0} : VerifyTotp(k, f, s, g)
        PROVE  FollowInv'
    BY <2>6, RecoveryFollows, TotpFollows, FollowFrame
  <2>7. ASSUME NEW k \in Calls, (RemoveDelete(k) /\ ~Ends(k)) \/ RemoveCommit(k) \/ CallLost(k)
        PROVE  FollowInv'
    BY <2>7, RemoveDeleteFollows, RemoveCommitFollows, LostFollows, FollowFrame
  <2>8. ASSUME NEW f \in Factors, LockLapses(f)
        PROVE  FollowInv'
    BY <2>8, LapseFollows, FollowFrame
  <2> QED
    BY <1>2, <2>1, <2>2, <2>3, <2>4, <2>5, <2>6, <2>7, <2>8 DEF FactorStep
<1> QED
  BY <1>1, <1>2, FactorSplits DEF AccountInv, RowInv

(* There are no factors and no codes at first.                              *)
LEMMA InitFollow == Init => FollowInv
<1> SUFFICES ASSUME Init PROVE FollowInv
  OBVIOUS
<1>1. \A k \in Calls : call[k].pc = "idle"
  BY DEF Init, Idle
<1>2. Confirmed = {} /\ Unused = {} /\ raced = FALSE
  BY DEF Init, Confirmed, Unused, NoFactor
<1> QED
  BY <1>1, <1>2 DEF FollowInv, Enrolling

(* Unless enrolments and removals overlapped: without a factor no recovery  *)
(* code is left that would pass for one, and with a factor there are codes, *)
(* or some were used.  What confirm and remove counted before they write    *)
(* still holds then, whoever spends codes meanwhile.                        *)
THEOREM CodesFollow == Spec => []CodesFollowFactors
<1>1. Init => AdminInv /\ GuessInv /\ HoldInv /\ AcceptInv /\ FollowInv
  BY InitAdministered, InitAccount, InitFollow
<1>2. AdminInv /\ GuessInv /\ HoldInv /\ AcceptInv /\ FollowInv /\ [Next]_vars
      => (AdminInv /\ GuessInv /\ HoldInv /\ AcceptInv /\ FollowInv)'
  BY StepKeeps, AccountKeeps, FollowKeeps DEF AdminInv, AccountInv, RowInv
<1>3. FollowInv => CodesFollowFactors
  BY DEF FollowInv, CodesFollowFactors
<1> QED
  BY <1>1, <1>2, <1>3, PTL DEF Spec
============================================================================
