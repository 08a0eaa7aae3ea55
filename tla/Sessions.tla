------------------------------- MODULE Sessions -------------------------------
(* The sessions of one account: sign-in, rotation of refresh tokens, sign-out,
   and the password changes that end every session.

   A refresh token is a row; the tokens descended from one sign-in are a family.
   A call is one API request, and each of its steps is one statement or one
   commit.  Transactions run at READ COMMITTED: an UPDATE of several rows finds
   them when it starts and waits for the rows another transaction holds, so what
   is inserted while it waits escapes it.  A call may die at any step, which
   rolls its open transaction back.

   Accounts share no rows, so one is modelled.  An access token is not state:
   it is checked by its signature and runs out.                               *)
EXTENDS Integers

CONSTANTS
    Calls,          \* requests that may be under way at the same time
    MaxTokens,      \* bound: refresh tokens minted
    MaxPassword,    \* bound: passwords set
    WeakHash,       \* whether the stored hash was made with weaker parameters
    None            \* no token, no holder

ASSUME SessionsAssumption ==
    /\ MaxTokens \in Nat
    /\ MaxPassword \in Nat
    /\ WeakHash \in BOOLEAN
    /\ None \notin Calls
    /\ None \notin Nat

Tokens == 1 .. MaxTokens
Passwords == 0 .. MaxPassword

VARIABLES
    user,       \* the users row: password, whether its hash is weak, disabled
    token,      \* refresh_tokens, by token
    minted,     \* how many tokens there ever were
    lock,       \* by family, who holds the advisory lock
    call,       \* the calls
    latest,     \* history: the password set last
    ended       \* history: the families a revocation has ended

vars == <<user, token, minted, lock, call, latest, ended>>

\* A password is the number of changes before it.  password and raced are
\* history: what the session rests on, and whether the call that made it
\* overlapped a change.
Row == [family : Tokens, used : BOOLEAN, revoked : BOOLEAN,
        password : Passwords, raced : BOOLEAN]

ASSUME NoneIsNoRow == None \notin Row

\* token, family: what is refreshed or ended.  password: what was verified.
\* owner: a change by the account's owner.  found: the rows an UPDATE has to
\* revoke.  enabled and raced are history: the account was enabled at some point
\* of the call, a change committed after the call made its checks.
Call == [pc : {"idle", "rehash", "verified", "challenged", "proved",
               "read", "claimed", "admitted", "ending", "revoking", "hashed", "updating"},
         token : Tokens \cup {None}, family : Tokens \cup {None},
         password : Passwords, owner : BOOLEAN, found : SUBSET Tokens,
         enabled : BOOLEAN, raced : BOOLEAN]

Idle == [pc |-> "idle", token |-> None, family |-> None, password |-> 0, owner |-> FALSE,
         found |-> {}, enabled |-> FALSE, raced |-> FALSE]

Init ==
    /\ user = [password |-> 0, weak |-> WeakHash, disabled |-> FALSE]
    /\ token = [t \in Tokens |-> None]
    /\ minted = 0
    /\ lock = [f \in Tokens |-> None]
    /\ call = [c \in Calls |-> Idle]
    /\ latest = 0
    /\ ended = {}

Exists(t) == token[t] /= None

\* WHERE revoked_at IS NULL
Unrevoked == {t \in Tokens : Exists(t) /\ ~token[t].revoked}

\* A token that can still be exchanged, once its transaction has committed.
Live == {t \in Unrevoked : ~token[t].used}

\* A change has the users row; nobody else writes it until it commits.
UserLocked == \E c \in Calls : call[c].pc = "updating"

\* The token whose row this call has updated and not committed.
Claims(c, t) == call[c].pc \in {"claimed", "admitted"} /\ call[c].token = t

Goto(c, pc) == call' = [call EXCEPT ![c].pc = pc]
Answer(c) == call' = [call EXCEPT ![c] = Idle]
Start(pc) == [Idle EXCEPT !.pc = pc, !.enabled = ~user.disabled]
Challenged(p, raced) == [Idle EXCEPT !.pc = "challenged", !.password = p, !.enabled = ~user.disabled,
                                     !.raced = raced]
Ending(f) == [Idle EXCEPT !.pc = "ending", !.family = f]
Release(f) == lock' = [lock EXCEPT ![f] = None]

\* Mutant of Minted: a sign-in is given no family of its own.
MintedNoFamily(rows, f, p, raced) ==
    [rows EXCEPT ![minted + 1] =
        [family |-> f, used |-> FALSE, revoked |-> FALSE, password |-> p, raced |-> raced]]

\* The INSERT of issue, in family f or, when there is none, in a new one.
Minted(rows, f, p, raced) ==
    [rows EXCEPT ![minted + 1] =
        [family |-> IF f = None THEN minted + 1 ELSE f, used |-> FALSE, revoked |-> FALSE,
         password |-> p, raced |-> raced]]

Spent(rows, t) == [rows EXCEPT ![t].used = TRUE]
Revoked(rows, ts) == [t \in Tokens |->
    IF t \in ts /\ rows[t] /= None THEN [rows[t] EXCEPT !.revoked = TRUE] ELSE rows[t]]

-----------------------------------------------------------------------------
(* Sign-in.  The password is verified against a row read earlier, outside any
   transaction, and the row is not read again on the way to the token.        *)

Login(c) ==
    /\ call[c].pc = "idle"
    /\ ~user.disabled
    /\ call' = [call EXCEPT ![c] = [Start(IF user.weak THEN "rehash" ELSE "verified")
                                       EXCEPT !.password = user.password]]
    /\ UNCHANGED <<user, token, minted, lock, latest, ended>>

\* The hash is brought up to date with the password that was presented; a
\* failure to do so is ignored.
Rehash(c) ==
    /\ call[c].pc = "rehash"
    /\ \/ ~UserLocked /\ user' = [user EXCEPT !.password = call[c].password, !.weak = FALSE]
       \/ UNCHANGED user
    /\ Goto(c, "verified")
    /\ UNCHANGED <<token, minted, lock, latest, ended>>

\* A confirmed factor is asked for, or the gates ask for one to be enrolled, and
\* the answer is a challenge.
Challenge(c) ==
    /\ call[c].pc = "verified"
    /\ Goto(c, "challenged")
    /\ UNCHANGED <<user, token, minted, lock, latest, ended>>

\* A correct proof for the challenge, or a factor enrolled with it.  Only disabled
\* is read again.
CompleteSecondFactor(c) ==
    /\ call[c].pc = "challenged"
    /\ ~user.disabled
    /\ call' = [call EXCEPT ![c].pc = "proved", ![c].enabled = ~user.disabled]
    /\ UNCHANGED <<user, token, minted, lock, latest, ended>>

\* The gates admit the sign-in and a family begins, or they do not.
LoginIssue(c) ==
    /\ call[c].pc \in {"verified", "proved"}
    /\ \/ /\ minted < MaxTokens
          /\ token' = Minted(token, None, call[c].password, call[c].raced)
          /\ minted' = minted + 1
       \/ UNCHANGED <<token, minted>>
    /\ Answer(c)
    /\ UNCHANGED <<user, lock, latest, ended>>

-----------------------------------------------------------------------------
(* Rotation.  From the lock to the commit it is one transaction.              *)

\* The row is looked up by the token; a revoked one is refused.  So is an expired
\* one, which is a token nobody presents.
Refresh(c, t) ==
    /\ call[c].pc = "idle"
    /\ t \in Unrevoked
    /\ call' = [call EXCEPT ![c] = [Start("read") EXCEPT !.token = t, !.family = token[t].family]]
    /\ UNCHANGED <<user, token, minted, lock, latest, ended>>

\* Mutant of Claimable: a spent token is accepted again.
ClaimableSpent(t) == t \in Unrevoked

\* used_at IS NULL AND revoked_at IS NULL
Claimable(t) == t \in Live

\* Under the family's advisory lock, the UPDATE that spends the token.
Claim(c) ==
    /\ call[c].pc = "read"
    /\ lock[call[c].family] = None
    /\ Claimable(call[c].token)
    /\ lock' = [lock EXCEPT ![call[c].family] = c]
    /\ Goto(c, "claimed")
    /\ UNCHANGED <<user, token, minted, latest, ended>>

\* Or it finds the token spent, revoked or gone: then the family goes.
Lose(c) ==
    /\ call[c].pc = "read"
    /\ lock[call[c].family] = None
    /\ ~Claimable(call[c].token)
    /\ call' = [call EXCEPT ![c] = Ending(call[c].family)]
    /\ UNCHANGED <<user, token, minted, lock, latest, ended>>

\* Mutant of ReadUser: the row is not looked at.
ReadUserAny(c) ==
    /\ call[c].pc = "claimed"
    /\ Goto(c, "admitted")
    /\ UNCHANGED <<user, token, minted, lock, latest, ended>>

\* The user is read in the transaction.  A disabled one has spent the token all
\* the same, and the family goes.
ReadUser(c) ==
    /\ call[c].pc = "claimed"
    /\ \/ ~user.disabled /\ Goto(c, "admitted") /\ UNCHANGED <<token, lock>>
       \/ /\ user.disabled
          /\ token' = Spent(token, call[c].token)
          /\ call' = [call EXCEPT ![c] = Ending(call[c].family)]
          /\ Release(call[c].family)
    /\ UNCHANGED <<user, minted, latest, ended>>

\* The successor is inserted and both rows commit; or the gates do not admit the
\* renewal, and the token is spent for nothing or for a challenge to enrol.
RefreshIssue(c) ==
    LET row == token[call[c].token]
        raced == row.raced \/ call[c].raced IN
    /\ call[c].pc = "admitted"
    /\ \/ /\ minted < MaxTokens
          /\ token' = Minted(Spent(token, call[c].token), row.family, row.password, raced)
          /\ minted' = minted + 1
          /\ Answer(c)
       \/ /\ token' = Spent(token, call[c].token)
          /\ call' \in {[call EXCEPT ![c] = Idle],
                       [call EXCEPT ![c] = Challenged(row.password, raced)]}
          /\ UNCHANGED minted
    /\ Release(row.family)
    /\ UNCHANGED <<user, latest, ended>>

-----------------------------------------------------------------------------
(* The end of a family: sign-out, a token presented twice, a disabled user.   *)

Logout(c, t) ==
    /\ call[c].pc = "idle"
    /\ t \in Unrevoked
    /\ call' = [call EXCEPT ![c] = Ending(token[t].family)]
    /\ UNCHANGED <<user, token, minted, lock, latest, ended>>

InFamily(f) == {t \in Tokens : Exists(t) /\ token[t].family = f}

\* Mutant of RevokeBegin: without the rotation's lock.
RevokeBeginUnlocked(c) ==
    /\ call[c].pc = "ending"
    /\ call' = [call EXCEPT ![c].pc = "revoking",
                            ![c].found = Unrevoked \cap InFamily(call[c].family)]
    /\ UNCHANGED <<user, token, minted, lock, latest, ended>>

\* revokeFamily: the lock of the rotation, then an UPDATE over the family.
RevokeBegin(c) ==
    /\ call[c].pc = "ending"
    /\ lock[call[c].family] = None
    /\ lock' = [lock EXCEPT ![call[c].family] = c]
    /\ call' = [call EXCEPT ![c].pc = "revoking",
                            ![c].found = Unrevoked \cap InFamily(call[c].family)]
    /\ UNCHANGED <<user, token, minted, latest, ended>>

RevokeCommit(c) ==
    /\ call[c].pc = "revoking"
    /\ token' = Revoked(token, call[c].found)
    /\ ended' = ended \cup {call[c].family}
    /\ Answer(c)
    /\ Release(call[c].family)
    /\ UNCHANGED <<user, minted, latest>>

-----------------------------------------------------------------------------
(* Password changes, by the account's owner or by an administrator.           *)

\* The current password was right, against a row read before.
ChangePassword(c) ==
    /\ call[c].pc = "idle"
    /\ ~user.disabled
    /\ call' = [call EXCEPT ![c] = [Start("hashed") EXCEPT !.owner = TRUE]]
    /\ UNCHANGED <<user, token, minted, lock, latest, ended>>

ResetPassword(c) ==
    /\ call[c].pc = "idle"
    /\ call' = [call EXCEPT ![c] = [Idle EXCEPT !.pc = "hashed"]]
    /\ UNCHANGED <<user, token, minted, lock, latest, ended>>

\* The users row is written, which holds it, and the UPDATE of the tokens starts.
UpdateTokens(c) ==
    /\ call[c].pc = "hashed"
    /\ ~UserLocked
    /\ latest < MaxPassword
    /\ call' = [call EXCEPT ![c].pc = "updating", ![c].found = Unrevoked]
    /\ UNCHANGED <<user, token, minted, lock, latest, ended>>

\* Mutant of Superseded: an administrator's reset leaves the sessions alone.
SupersededByOwner(c) == IF call[c].owner THEN call[c].found ELSE {}

\* Which tokens the change revokes: those its UPDATE found.
Superseded(c) == call[c].found

\* For the histories: tokens inserted while the UPDATE waited, and calls past
\* their checks, overlapped the change.
Overlapped(c) ==
    [t \in Tokens |-> IF t \in Unrevoked \ call[c].found THEN [token[t] EXCEPT !.raced = TRUE]
                      ELSE token[t]]
PastChecks == {"rehash", "verified", "challenged", "proved", "claimed", "admitted"}

\* Once no rotation holds a row it found, the UPDATE is done and all commits: the
\* password, the revocations and, for the owner, a session of a new family unless
\* the gates do not admit one.
UpdateCommit(c) ==
    LET rows == Revoked(Overlapped(c), Superseded(c))
        others == [d \in Calls |->
                      IF call[d].pc \in PastChecks THEN [call[d] EXCEPT !.raced = TRUE]
                      ELSE call[d]] IN
    /\ call[c].pc = "updating"
    /\ \A d \in Calls \ {c}, t \in call[c].found : ~Claims(d, t)
    /\ latest' = latest + 1
    /\ user' = [user EXCEPT !.password = latest + 1, !.weak = FALSE]
    /\ \/ /\ call[c].owner
          /\ minted < MaxTokens
          /\ token' = Minted(rows, None, latest + 1, FALSE)
          /\ minted' = minted + 1
          /\ call' = [others EXCEPT ![c] = Idle]
       \/ /\ token' = rows
          /\ \/ call' = [others EXCEPT ![c] = Idle]
             \/ call[c].owner /\ call' = [others EXCEPT ![c] = Challenged(latest + 1, FALSE)]
          /\ UNCHANGED minted
    /\ UNCHANGED <<lock, ended>>

-----------------------------------------------------------------------------
(* What else touches the account *)

\* An administrator disables or enables it.
SetDisabled(disabled) ==
    /\ ~UserLocked
    /\ user.disabled /= disabled
    /\ user' = [user EXCEPT !.disabled = disabled]
    /\ call' = [c \in Calls |-> [call[c] EXCEPT
                   !.enabled = @ \/ (call[c].pc \in PastChecks \cup {"read"} /\ ~disabled)]]
    /\ UNCHANGED <<token, minted, lock, latest, ended>>

\* A token's time is over and the worker's sweep deletes its row, unless a
\* transaction holds it.  Until then an expired row differs only in Refresh.
Prune(t) ==
    /\ Exists(t)
    /\ \A c \in Calls : ~Claims(c, t)
    /\ token' = [token EXCEPT ![t] = None]
    /\ UNCHANGED <<user, minted, lock, call, latest, ended>>

\* A call dies, or its caller gives up; its transaction is rolled back.
Crash(c) ==
    /\ call[c].pc /= "idle"
    /\ Answer(c)
    /\ lock' = [f \in Tokens |-> IF lock[f] = c THEN None ELSE lock[f]]
    /\ UNCHANGED <<user, token, minted, latest, ended>>

Step(c) ==
    \/ Login(c) \/ Rehash(c) \/ Challenge(c) \/ CompleteSecondFactor(c) \/ LoginIssue(c)
    \/ \E t \in Tokens : Refresh(c, t) \/ Logout(c, t)
    \/ Claim(c) \/ Lose(c) \/ ReadUser(c) \/ RefreshIssue(c)
    \/ RevokeBegin(c) \/ RevokeCommit(c)
    \/ ChangePassword(c) \/ ResetPassword(c) \/ UpdateTokens(c) \/ UpdateCommit(c)
    \/ Crash(c)

Next ==
    \/ \E c \in Calls : Step(c)
    \/ \E disabled \in BOOLEAN : SetDisabled(disabled)
    \/ \E t \in Tokens : Prune(t)

Spec == Init /\ [][Next]_vars

-----------------------------------------------------------------------------
(* Properties *)

\* Every variable keeps its type.
TypeOK ==
    /\ user \in [password : Passwords, weak : BOOLEAN, disabled : BOOLEAN]
    /\ token \in [Tokens -> Row \cup {None}]
    /\ minted \in 0 .. MaxTokens
    /\ lock \in [Tokens -> Calls \cup {None}]
    /\ call \in [Calls -> Call]
    /\ latest \in Passwords
    /\ ended \subseteq Tokens

\* A family never has two tokens that can be exchanged: however many calls
\* present a token at once, refresh gives it one successor.
OneLive == \A t, u \in Live : token[t].family = token[u].family => t = u

\* Once a revocation has ended a family, no token of it is ever accepted: a
\* rotation under way when revokeFamily ran does not leave a successor behind.
FamilyEnds == \A t \in Unrevoked : token[t].family \notin ended

\* A session that rests on a password since replaced is over, unless the call
\* that made it overlapped the change or a sign-in restored the old hash.
SessionsEnd ==
    user.password = latest =>
        \A t \in Unrevoked : token[t].password = latest \/ token[t].raced

\* No call mints a token for an account that was disabled from its first step
\* to its last.
DisabledStops ==
    [][\A c \in Calls :
          call[c].pc /= "idle" /\ call'[c].pc = "idle" /\ minted' > minted => call[c].enabled]_vars

-----------------------------------------------------------------------------
(* What the documents say without exception *)

\* docs/api.md: a change of password revokes all refresh tokens of the account,
\* so that every other session ends.  A session is then revoked whole.
EveryOtherSessionEnds ==
    \A t, u \in Tokens :
        /\ Exists(t) /\ Exists(u)
        /\ token[t].family = token[u].family
        /\ token[t].revoked
        => token[u].revoked

=============================================================================
