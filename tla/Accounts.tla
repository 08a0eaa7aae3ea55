------------------------------ MODULE Accounts -----------------------------
(***************************************************************************)
(* The accounts of an organization: its administrators                     *)
(* (packages/api/src/principals.ts), and of one of its people the second   *)
(* factors and recovery codes (packages/api/src/second-factor.ts) and the  *)
(* password reset links (packages/api/src/recovery.ts).                    *)
(*                                                                         *)
(* A call is one API request.  Each of its steps is a transaction, or a    *)
(* statement of one that another transaction can run beside: at READ       *)
(* COMMITTED a statement sees what was committed when it began, and waits  *)
(* for the rows it writes.  Statements that read only rows their           *)
(* transaction has locked are one step with the lock.                      *)
(***************************************************************************)
EXTENDS Naturals, FiniteSets

CONSTANTS
  Users,         \* rows of users
  Owner,         \* the person whose factors and links are modelled
  Factors,       \* rows of user_second_factors
  Keys,          \* the ones that are security keys; the others are authenticators
  Challenges,    \* rows of webauthn_challenges
  Codes,         \* recovery codes that may be minted
  CodeCount,     \* RECOVERY_CODE_COUNT
  Links,         \* reset links that may be sent, in order
  Calls,         \* requests under way at once
  MaxFailures,   \* MAX_FAILURES
  MaxStep,       \* bound on the clock, in TOTP steps
  MaxLapses,     \* bound on the locks that lapse
  MaxOps,        \* bound on the requests made
  None

ASSUME AccountsAssumption ==
  /\ Owner \in Users /\ Keys \subseteq Factors
  /\ Links \subseteq Nat
  /\ {CodeCount, MaxFailures, MaxStep, MaxLapses, MaxOps} \subseteq Nat
  /\ CodeCount > 0 /\ MaxFailures > 0 /\ MaxStep > 0
  /\ IsFiniteSet(Factors \cup Codes)
  /\ None \notin Users \cup Factors \cup Challenges \cup Calls
  \* a recovery code, a challenge and a code of a TOTP step are not mistaken for each other
  /\ Codes \cap Challenges = {} /\ (Codes \cup Challenges) \cap (Factors \X (1 .. MaxStep)) = {}

VARIABLES
  role, disabled,   \* users
  orgLock,          \* the call that holds the advisory lock of the organization
  factor,           \* user_second_factors
  code,             \* user_recovery_codes
  challenge,        \* webauthn_challenges
  link,             \* password_reset_tokens
  now,              \* the clock, in TOTP steps
  call,             \* requests
  ops,              \* requests made
  accepted,         \* how often each proof was accepted (history)
  guesses, lapses,  \* wrong codes compared with a factor, and locks of it lapsed, since its last success (history)
  resets,           \* passwords set by each link (history)
  raced             \* enrolments and removals have overlapped (history)

userVars == <<role, disabled, orgLock>>
factorVars == <<factor, code, challenge, now, accepted, guesses, lapses, raced>>
linkVars == <<link, resets>>
vars == <<userVars, factorVars, linkVars, call, ops>>

----------------------------------------------------------------------------

Steps == 1 .. MaxStep
Authenticators == Factors \ Keys
Proofs == Codes \cup Challenges \cup (Authenticators \X Steps)

NoFactor == [state |-> "none", step |-> 0, fails |-> 0, locked |-> FALSE, by |-> None]
NoChallenge == [state |-> "none", purpose |-> None, by |-> None]
NoLink == [state |-> "none", by |-> None, older |-> {}]
Idle == [pc |-> "idle", user |-> None, role |-> "member", off |-> FALSE, factor |-> None, challenge |-> None, link |-> None, step |-> 0, found |-> 0, seen |-> {}]

Init ==
  /\ role = [u \in Users |-> "org_admin"]
  /\ disabled = {}
  /\ orgLock = None
  /\ factor = [f \in Factors |-> NoFactor]
  /\ code = [x \in Codes |-> "none"]
  /\ challenge = [c \in Challenges |-> NoChallenge]
  /\ link = [l \in Links |-> NoLink]
  /\ now = 1
  /\ call = [k \in Calls |-> Idle]
  /\ ops = 0
  /\ accepted = [p \in Proofs |-> 0]
  /\ guesses = [f \in Factors |-> 0]
  /\ lapses = [f \in Factors |-> 0]
  /\ resets = [l \in Links |-> 0]
  /\ raced = FALSE

Begins(k) == call[k] = Idle /\ ops < MaxOps /\ ops' = ops + 1
Ends(k) == call' = [call EXCEPT ![k] = Idle] /\ UNCHANGED ops

----------------------------------------------------------------------------
(* PATCH /v1/users/<id>.                                                    *)

Administrators == {u \in Users : role[u] = "org_admin" /\ u \notin disabled}

(* Mutant of LockFree: a lock on the target's row alone.                    *)
LockFreePerUser(u) == \A k \in Calls : call[k].pc = "update" => call[k].user # u

LockFree(u) == orgLock = None

(* onTargetUser takes the organization's lock, then reads the row; update   *)
(* counts the other administrators when it would give one up, and refuses   *)
(* the last: the transaction then ends here.                                *)
UpdateRead(k, u, r, off) ==
  /\ Begins(k) /\ LockFree(u)
  /\ ~(u \in Administrators /\ (r # "org_admin" \/ off) /\ Administrators \ {u} = {})
  /\ orgLock' = k
  /\ call' = [call EXCEPT ![k] = [Idle EXCEPT !.pc = "update", !.user = u, !.role = r, !.off = off]]
  /\ UNCHANGED <<role, disabled, factorVars, linkVars>>

(* The UPDATE, and the commit that gives the lock back.                     *)
UpdateWrite(k) ==
  /\ call[k].pc = "update"
  /\ role' = [role EXCEPT ![call[k].user] = call[k].role]
  /\ disabled' = IF call[k].off THEN disabled \cup {call[k].user} ELSE disabled \ {call[k].user}
  /\ orgLock' = None
  /\ Ends(k)
  /\ UNCHANGED <<factorVars, linkVars>>

----------------------------------------------------------------------------
(* Second factors of Owner.                                                 *)

Confirmed == {f \in Factors : factor[f].state = "confirmed"}
Unused == {x \in Codes : code[x] = "unused"}
InWindow(s) == s + 1 >= now /\ s <= now + 1
Enrolling(k) == call[k].pc \in {"confirming", "removing"}
Overlaps(k) == \E j \in Calls \ {k} : Enrolling(j)

(* begin: an unconfirmed row.  An earlier one of that label goes with it.   *)
Begin(k, f) ==
  /\ Begins(k) /\ factor[f].state \in {"none", "begun"} /\ factor[f].by = None
  /\ factor' = [factor EXCEPT ![f] = [NoFactor EXCEPT !.state = "begun"]]
  /\ UNCHANGED <<userVars, code, challenge, now, accepted, guesses, lapses, raced, linkVars, call>>

(* confirm: the row is locked, the code of a step verified, the row written *)
(* and the unused recovery codes counted.                                   *)
ConfirmRead(k, f, s) ==
  /\ Begins(k) /\ factor[f].state = "begun" /\ factor[f].by = None
  /\ InWindow(s) /\ s > factor[f].step
  /\ factor' = [factor EXCEPT ![f].by = k]
  /\ call' = [call EXCEPT ![k] = [Idle EXCEPT !.pc = "confirming", !.factor = f, !.step = s, !.found = Cardinality(Unused)]]
  /\ raced' = (raced \/ Overlaps(k))
  /\ UNCHANGED <<userVars, code, challenge, now, accepted, guesses, lapses, linkVars>>

(* issueChallenge, for a registration or, with a key enrolled, a sign-in.   *)
IssueChallenge(k, c, purpose) ==
  /\ Begins(k) /\ challenge[c] = NoChallenge
  /\ purpose = "authenticate" => Confirmed \cap Keys # {}
  /\ challenge' = [challenge EXCEPT ![c] = [NoChallenge EXCEPT !.state = "live", !.purpose = purpose]]
  /\ UNCHANGED <<userVars, factor, code, now, accepted, guesses, lapses, raced, linkVars, call>>

(* spendChallenge finds it: live and for this purpose.                      *)
Spendable(c, purpose) == challenge[c].state = "live" /\ challenge[c].purpose = purpose /\ challenge[c].by = None

(* What a transaction spent, at its end.                                    *)
Released(k, state) == [c \in Challenges |->
  IF challenge[c].by = k THEN [challenge[c] EXCEPT !.state = state, !.by = None] ELSE challenge[c]]

ChallengeExpires(c) ==
  /\ challenge[c].state = "live" /\ challenge[c].by = None
  /\ challenge' = [challenge EXCEPT ![c].state = "expired"]
  /\ UNCHANGED <<userVars, factor, code, now, accepted, guesses, lapses, raced, linkVars, call, ops>>

(* finishWebAuthnRegistration: the challenge is spent, the key inserted     *)
(* with the counter n it came with, and the unused codes counted.           *)
RegisterRead(k, f, c, n) ==
  /\ Begins(k) /\ Spendable(c, "register") /\ factor[f] = NoFactor
  /\ factor' = [factor EXCEPT ![f].by = k]
  /\ challenge' = [challenge EXCEPT ![c].by = k]
  /\ call' = [call EXCEPT ![k] = [Idle EXCEPT !.pc = "confirming", !.factor = f, !.challenge = c, !.step = n,
                                           !.found = Cardinality(Unused)]]
  /\ raced' = (raced \/ Overlaps(k))
  /\ UNCHANGED <<userVars, code, now, accepted, guesses, lapses, linkVars>>

(* Both: codes are minted when there were none, and the commit.          *)
ConfirmCommit(k, minted) ==
  /\ call[k].pc = "confirming"
  /\ minted \subseteq {x \in Codes : code[x] = "none"}
  /\ Cardinality(minted) = IF call[k].found > 0 THEN 0 ELSE CodeCount
  /\ factor' = [factor EXCEPT ![call[k].factor] =
                  [@ EXCEPT !.state = "confirmed", !.step = call[k].step, !.fails = 0, !.by = None]]
  /\ accepted' = LET p == IF call[k].challenge = None THEN <<call[k].factor, call[k].step>> ELSE call[k].challenge
                 IN [accepted EXCEPT ![p] = @ + 1]
  /\ code' = [x \in Codes |-> IF x \in minted THEN "unused" ELSE code[x]]
  /\ Ends(k)
  /\ challenge' = Released(k, "used")
  /\ UNCHANGED <<userVars, now, guesses, lapses, raced, linkVars>>

(* What a proof is for: a sign-in, or the removal of a factor.              *)
Proved(k, f) == call' = [call EXCEPT ![k] = IF f = None THEN Idle ELSE [Idle EXCEPT !.pc = "remove", !.factor = f]]

(* verify, a recovery code: spent by the UPDATE that finds it.              *)
VerifyRecovery(k, x, f) ==
  /\ Begins(k) /\ code[x] = "unused"
  /\ code' = [code EXCEPT ![x] = "used"]
  /\ accepted' = [accepted EXCEPT ![x] = @ + 1]
  /\ Proved(k, f)
  /\ UNCHANGED <<userVars, factor, challenge, now, guesses, lapses, raced, linkVars>>

(* A code of f for step s answers; step 0 stands for no code of f at all.   *)
Answers(f, s) == f \in Confirmed \cap Authenticators /\ ~factor[f].locked /\ InWindow(s) /\ s > factor[f].step

(* Mutant of Accepted: the step is not remembered.                          *)
AcceptedAgain(f, s) == [factor EXCEPT ![f].fails = 0, ![f].locked = FALSE]

Accepted(f, s) == [factor EXCEPT ![f].step = s, ![f].fails = 0, ![f].locked = FALSE]

(* The factors a wrong code counts against: the locked ones were skipped.   *)
Compared == {f \in Confirmed \cap Authenticators : ~factor[f].locked}

(* Mutant of Counted: the lock comes one guess late.                        *)
CountedLate == [f \in Factors |->
  IF f \in Compared THEN [factor[f] EXCEPT !.fails = @ + 1, !.locked = factor[f].fails >= MaxFailures]
  ELSE factor[f]]

(* Mutant of Counted: a locked factor, which was skipped, is counted too.    *)
CountedLocked == [f \in Factors |->
  IF f \in Confirmed \cap Authenticators THEN [factor[f] EXCEPT !.fails = @ + 1, !.locked = factor[f].fails + 1 >= MaxFailures]
  ELSE factor[f]]

Counted == [f \in Factors |->
  IF f \in Compared THEN [factor[f] EXCEPT !.fails = @ + 1, !.locked = factor[f].fails + 1 >= MaxFailures]
  ELSE factor[f]]

(* verify, a code from an authenticator: the rows are locked for the whole  *)
(* of it.                                                                   *)
VerifyTotp(k, f, s, g) ==
  /\ Begins(k) /\ \A h \in Confirmed \cap Authenticators : factor[h].by = None
  /\ IF Answers(f, s)
     THEN /\ factor' = Accepted(f, s)
          /\ accepted' = [accepted EXCEPT ![<<f, s>>] = @ + 1]
          /\ guesses' = [guesses EXCEPT ![f] = 0]
          /\ lapses' = [lapses EXCEPT ![f] = 0]
          /\ Proved(k, g)
     ELSE /\ factor' = Counted
          /\ guesses' = [h \in Factors |-> IF h \in Compared THEN guesses[h] + 1 ELSE guesses[h]]
          /\ UNCHANGED <<accepted, lapses, call>>
  /\ UNCHANGED <<userVars, code, challenge, now, raced, linkVars>>

(* Mutant of SpendChallenge: it is left for another assertion.              *)
SpendChallengeNot(c) == challenge

SpendChallenge(c) == [challenge EXCEPT ![c].state = "used"]

(* verifyWebAuthnAssertion: the challenge is spent, then the signature of f *)
(* is looked at, which may be no key of this person.  A counter n of zero   *)
(* says the key keeps none.                                                 *)
VerifyAssertion(k, c, f, n, g) ==
  /\ Begins(k) /\ Spendable(c, "authenticate") /\ factor[f].by = None
  /\ challenge' = SpendChallenge(c)
  /\ IF f \in Confirmed /\ (n = 0 \/ n > factor[f].step)
     THEN /\ factor' = [factor EXCEPT ![f].step = n]
          /\ accepted' = [accepted EXCEPT ![c] = @ + 1]
          /\ Proved(k, g)
     ELSE UNCHANGED <<factor, accepted, call>>
  /\ UNCHANGED <<userVars, code, now, guesses, lapses, raced, linkVars>>

(* remove, the DELETE; the count after it does not see what others have     *)
(* not committed.                                                           *)
RemoveDelete(k) ==
  /\ call[k].pc = "remove"
  /\ IF factor[call[k].factor].state = "none"
     THEN Ends(k) /\ UNCHANGED <<factor, raced>>
     ELSE /\ factor[call[k].factor].by = None
          /\ factor' = [factor EXCEPT ![call[k].factor].by = k]
          /\ call' = [call EXCEPT ![k].pc = "removing", ![k].found = Cardinality(Confirmed \ {call[k].factor})]
          /\ raced' = (raced \/ Overlaps(k))
          /\ UNCHANGED ops
  /\ UNCHANGED <<userVars, code, challenge, now, accepted, guesses, lapses, linkVars>>

(* Mutant of Left: the codes stay behind the last factor.                   *)
LeftAll(n) == code

(* The codes go with the last factor.                                       *)
Left(n) == IF n = 0 THEN [x \in Codes |-> IF code[x] = "none" THEN "none" ELSE "gone"] ELSE code

RemoveCommit(k) ==
  /\ call[k].pc = "removing"
  /\ factor' = [factor EXCEPT ![call[k].factor] = NoFactor]
  /\ code' = Left(call[k].found)
  /\ guesses' = [guesses EXCEPT ![call[k].factor] = 0]
  /\ lapses' = [lapses EXCEPT ![call[k].factor] = 0]
  /\ accepted' = [p \in Proofs |-> IF p \in {call[k].factor} \X Steps THEN 0 ELSE accepted[p]]
  /\ Ends(k)
  /\ UNCHANGED <<userVars, challenge, now, raced, linkVars>>

Tick ==
  /\ now < MaxStep /\ now' = now + 1
  /\ UNCHANGED <<userVars, factor, code, challenge, accepted, guesses, lapses, raced, linkVars, call, ops>>

LockLapses(f) ==
  /\ factor[f].locked /\ lapses[f] < MaxLapses
  /\ factor' = [factor EXCEPT ![f].locked = FALSE]
  /\ lapses' = [lapses EXCEPT ![f] = @ + 1]
  /\ UNCHANGED <<userVars, code, challenge, now, accepted, guesses, raced, linkVars, call, ops>>

----------------------------------------------------------------------------
(* Reset links of Owner.                                                    *)

Live == {l \in Links : link[l].state = "live"}

(* request: the UPDATE that ends the older links begins.  It will look at   *)
(* the links that are committed now and at no other.                        *)
AskRead(k) ==
  /\ Begins(k)
  /\ call' = [call EXCEPT ![k] = [Idle EXCEPT !.pc = "asked", !.seen = Live]]
  /\ UNCHANGED <<userVars, factorVars, linkVars>>

(* Mutant of Older: the links before are left.                              *)
OlderNot(k) == {}

(* Those it saw that nobody has used while it waited for their rows.        *)
Older(k) == call[k].seen \cap Live

(* Once no other transaction holds one of them they are marked used.        *)
AskMark(k) ==
  /\ call[k].pc = "asked" /\ \A l \in call[k].seen : link[l].by = None
  /\ link' = [l \in Links |-> IF l \in Older(k) THEN [link[l] EXCEPT !.by = k] ELSE link[l]]
  /\ call' = [call EXCEPT ![k].pc = "asking"]
  /\ UNCHANGED <<userVars, factorVars, resets, ops>>

(* The new link is inserted and all of it commits.  older is history: the   *)
(* links there were when the request for this one began to end them.        *)
AskCommit(k, n) ==
  /\ call[k].pc = "asking" /\ link[n] = NoLink /\ \A l \in Links : l < n => link[l] # NoLink
  /\ link' = [l \in Links |->
       IF l = n THEN [state |-> "live", by |-> None, older |-> call[k].seen]
       ELSE IF link[l].by = k THEN [link[l] EXCEPT !.state = "used", !.by = None] ELSE link[l]]
  /\ Ends(k)
  /\ UNCHANGED <<userVars, factorVars, resets>>

(* redeem: a live link is worth the hashing of a password.                  *)
RedeemRead(k, l) ==
  /\ Begins(k) /\ l \in Live
  /\ call' = [call EXCEPT ![k] = [Idle EXCEPT !.pc = "redeeming", !.link = l]]
  /\ UNCHANGED <<userVars, factorVars, linkVars>>

Spend(l) == [link EXCEPT ![l].state = "used"]

(* redeem: the UPDATE spends it if it still is live, a disabled account is  *)
(* refused with its link spent, and otherwise the password is set.          *)
RedeemSpend(k) ==
  /\ call[k].pc = "redeeming" /\ link[call[k].link].by = None
  /\ link' = IF call[k].link \in Live THEN Spend(call[k].link) ELSE link
  /\ resets' = IF call[k].link \in Live /\ Owner \notin disabled
               THEN [resets EXCEPT ![call[k].link] = @ + 1] ELSE resets
  /\ Ends(k)
  /\ UNCHANGED <<userVars, factorVars>>

LinkExpires(l) ==
  /\ l \in Live /\ link[l].by = None
  /\ link' = [link EXCEPT ![l].state = "expired"]
  /\ UNCHANGED <<userVars, factorVars, resets, call, ops>>

----------------------------------------------------------------------------

(* A process dies: the transaction rolls back.                              *)
CallLost(k) ==
  /\ call[k] # Idle
  /\ orgLock' = IF orgLock = k THEN None ELSE orgLock
  /\ factor' = [f \in Factors |-> IF factor[f].by = k THEN [factor[f] EXCEPT !.by = None] ELSE factor[f]]
  /\ challenge' = Released(k, "live")
  /\ link' = [l \in Links |-> IF link[l].by = k THEN [link[l] EXCEPT !.by = None] ELSE link[l]]
  /\ Ends(k)
  /\ UNCHANGED <<role, disabled, code, now, accepted, guesses, lapses, raced, resets>>

Next ==
  \/ \E k \in Calls, u \in Users, r \in {"member", "org_admin"}, off \in BOOLEAN : UpdateRead(k, u, r, off)
  \/ \E k \in Calls : UpdateWrite(k) \/ RemoveDelete(k) \/ RemoveCommit(k) \/ AskRead(k) \/ AskMark(k) \/ RedeemSpend(k) \/ CallLost(k)
  \/ \E k \in Calls, f \in Authenticators : Begin(k, f) \/ \E s \in Steps : ConfirmRead(k, f, s)
  \/ \E k \in Calls, c \in Challenges, purpose \in {"register", "authenticate"} : IssueChallenge(k, c, purpose)
  \/ \E k \in Calls, f \in Keys, c \in Challenges, n \in Steps \cup {0} :
        RegisterRead(k, f, c, n) \/ \E g \in Factors \cup {None} : VerifyAssertion(k, c, f, n, g)
  \/ \E c \in Challenges : ChallengeExpires(c)
  \/ \E k \in Calls, minted \in SUBSET Codes : ConfirmCommit(k, minted)
  \/ \E k \in Calls, g \in Factors \cup {None} :
        (\E x \in Codes : VerifyRecovery(k, x, g)) \/ (\E f \in Authenticators, s \in Steps \cup {0} : VerifyTotp(k, f, s, g))
  \/ \E k \in Calls, l \in Links : AskCommit(k, l) \/ RedeemRead(k, l)
  \/ \E l \in Links : LinkExpires(l)
  \/ \E f \in Factors : LockLapses(f)
  \/ Tick

Spec == Init /\ [][Next]_vars

----------------------------------------------------------------------------

(* The rows and the requests hold values of their columns; a factor's       *)
(* failures stay below the bound its lock gives them.                       *)
TypeOK ==
  /\ role \in [Users -> {"member", "org_admin"}] /\ disabled \subseteq Users
  /\ orgLock \in Calls \cup {None}
  /\ factor \in [Factors -> [state: {"none", "begun", "confirmed"}, step: Steps \cup {0}, fails: 0 .. (MaxFailures + MaxLapses),
                             locked: BOOLEAN, by: Calls \cup {None}]]
  /\ code \in [Codes -> {"none", "unused", "used", "gone"}]
  /\ challenge \in [Challenges -> [state: {"none", "live", "used", "expired"},
                                   purpose: {"register", "authenticate", None}, by: Calls \cup {None}]]
  /\ link \in [Links -> [state: {"none", "live", "used", "expired"}, by: Calls \cup {None}, older: SUBSET Links]]
  /\ now \in Steps /\ ops \in 0 .. MaxOps
  /\ call \in [Calls -> [pc: {"idle", "update", "confirming", "remove", "removing", "asked", "asking", "redeeming"},
                         user: Users \cup {None}, role: {"member", "org_admin"}, off: BOOLEAN,
                         factor: Factors \cup {None}, challenge: Challenges \cup {None}, link: Links \cup {None}, step: Steps \cup {0},
                         found: 0 .. Cardinality(Factors \cup Codes), seen: SUBSET Links]]

(* The organization always has an administrator who can act, however its    *)
(* administrators demote and disable each other at once.                    *)
Administered == Administrators # {}

(* No proof is accepted twice, also when two requests hold it: not a        *)
(* recovery code, not the challenge of a security key, not the code of one  *)
(* TOTP step, not even the one that confirmed the enrolment, and not a      *)
(* reset link.                                                              *)
ProofOnce ==
  /\ \A p \in Proofs : accepted[p] <= 1
  /\ \A l \in Links : resets[l] <= 1

(* Six digits are compared with a factor at most MaxFailures times between  *)
(* successes, and once more each time its lock lapses.                      *)
GuessesBounded == \A f \in Factors : guesses[f] <= MaxFailures + lapses[f]

(* Recovery codes follow the factors.  Unless enrolments and removals have  *)
(* overlapped: without a factor no code is left that would pass for one,    *)
(* and with a factor there are codes, or some were used.                    *)
CodesFollowFactors ==
  ~raced /\ (\A k \in Calls : ~Enrolling(k)) =>
    /\ Confirmed = {} => Unused = {}
    /\ Confirmed # {} => \E x \in Codes : code[x] \in {"unused", "used"}

(* Asking for a reset link again invalidates the previous one: of two links *)
(* neither of which has been used, each came after the request for the      *)
(* other had begun to end the older ones.                                   *)
AskingAgainInvalidates == \A l, m \in Live : l \notin link[m].older

(* What the comment at recovery.ts:107-109 wants of it: one link at most    *)
(* that could be stolen.  Two requests at once leave two, also when the     *)
(* second has waited for the first.                                         *)
OneLiveLink == \A l, m \in Live : l = m
============================================================================
