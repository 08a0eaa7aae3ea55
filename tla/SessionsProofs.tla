--------------------------- MODULE SessionsProofs ---------------------------
(* Proofs about Sessions, for any number of calls, tokens and passwords. *)
EXTENDS Sessions, TLAPS

Families == {"claimed", "admitted", "revoking"}

\* Tokens and families are numbered in the order they are minted.
NumberInv ==
    /\ \A t \in Tokens : Exists(t) => t <= minted /\ token[t].family <= minted
    /\ \A f \in ended : f <= minted
    /\ \A c \in Calls :
          /\ call[c].pc \in {"read", "claimed", "admitted", "ending", "revoking"} =>
                call[c].family \in Tokens /\ call[c].family <= minted
          /\ call[c].pc \in {"read", "claimed", "admitted"} =>
                call[c].token \in Tokens /\ call[c].token <= minted

\* Who is between the lock of a family and its commit holds the lock.
LockInv == \A c \in Calls : call[c].pc \in Families => lock[call[c].family] = c

\* A call knows the family of its token, and the token it has claimed stays
\* live until it commits.
ClaimInv ==
    \A c \in Calls :
        /\ call[c].pc = "read" /\ Exists(call[c].token) =>
              token[call[c].token].family = call[c].family
        /\ call[c].pc \in {"claimed", "admitted"} =>
              call[c].token \in Live /\ token[call[c].token].family = call[c].family

\* A revocation has found every token that is left of its family, and no other.
RevokeInv ==
    \A c \in Calls : call[c].pc = "revoking" =>
        /\ Unrevoked \cap InFamily(call[c].family) \subseteq call[c].found
        /\ \A t \in call[c].found :
               t <= minted /\ (Exists(t) => token[t].family = call[c].family)

\* One change at a time has the users row.
UpdateInv ==
    \A c \in Calls : call[c].pc = "updating" =>
        latest < MaxPassword /\ \A d \in Calls : call[d].pc = "updating" => d = c

FamilyInv == UpdateInv /\ TypeOK /\ NumberInv /\ LockInv /\ ClaimInv /\ RevokeInv /\ OneLive /\ FamilyEnds

\* The hash that may be brought up to date is the first one.
HashInv ==
    /\ user.weak => user.password = 0
    /\ latest = 0 => user.password = 0
    /\ \A c \in Calls : call[c].pc = "rehash" => call[c].password = 0

\* What a sign-in has verified is the latest password, or a change overlapped it.
VerifiedInv ==
    user.password = latest =>
        \A c \in Calls : call[c].pc \in {"rehash", "verified", "challenged", "proved"} =>
            call[c].password = latest \/ call[c].raced

ChangeInv == TypeOK /\ HashInv /\ VerifiedInv /\ SessionsEnd

\* What enabled remembers.
EnabledInv ==
    \A c \in Calls :
        /\ call[c].pc \in PastChecks \cup {"read"} /\ ~user.disabled => call[c].enabled
        /\ call[c].pc \in {"rehash", "verified", "proved", "admitted"} => call[c].enabled
        /\ call[c].owner => call[c].enabled

-----------------------------------------------------------------------------
(* Types *)

\* The records a call or a row is set to have their types.
LEMMA Records ==
    ASSUME TypeOK
    PROVE  /\ Idle \in Call
           /\ \A pc \in {"rehash", "verified", "read", "hashed"} : Start(pc) \in Call
           /\ \A p \in Passwords, raced \in BOOLEAN : Challenged(p, raced) \in Call
           /\ \A f \in Tokens : Ending(f) \in Call
  <1> USE SessionsAssumption
  <1>1. Idle \in Call  BY DEF Idle, Call, Tokens, Passwords
  <1>2. (~user.disabled) \in BOOLEAN  OBVIOUS
  <1>3. \A pc \in {"rehash", "verified", "read", "hashed"} : Start(pc) \in Call
    BY <1>1, <1>2 DEF Start, Call, Idle
  <1>4. \A p \in Passwords, raced \in BOOLEAN : Challenged(p, raced) \in Call
    BY <1>1, <1>2 DEF Challenged, Call, Idle
  <1>5. \A f \in Tokens : Ending(f) \in Call
    BY <1>1 DEF Ending, Call, Idle
  <1> QED  BY <1>1, <1>3, <1>4, <1>5

\* What issue inserts and an UPDATE leaves are rows.
LEMMA Rows ==
    ASSUME TypeOK, NEW rows \in [Tokens -> Row \cup {None}]
    PROVE  /\ \A f \in Tokens \cup {None}, p \in Passwords, raced \in BOOLEAN :
                  minted < MaxTokens => Minted(rows, f, p, raced) \in [Tokens -> Row \cup {None}]
           /\ \A t \in Tokens : rows[t] /= None => Spent(rows, t) \in [Tokens -> Row \cup {None}]
           /\ \A ts \in SUBSET Tokens : Revoked(rows, ts) \in [Tokens -> Row \cup {None}]
  <1> USE SessionsAssumption
  <1>1. ASSUME NEW f \in Tokens \cup {None}, NEW p \in Passwords, NEW raced \in BOOLEAN,
               minted < MaxTokens
        PROVE  Minted(rows, f, p, raced) \in [Tokens -> Row \cup {None}]
    <2>1. minted + 1 \in Tokens  BY <1>1 DEF TypeOK, Tokens
    <2>2. (IF f = None THEN minted + 1 ELSE f) \in Tokens  BY <1>1, <2>1
    <2> QED  BY <1>1, <2>1, <2>2 DEF Minted, Row
  <1>2. ASSUME NEW t \in Tokens, rows[t] /= None
        PROVE  Spent(rows, t) \in [Tokens -> Row \cup {None}]
    BY <1>2 DEF Spent, Row
  <1>3. ASSUME NEW ts \in SUBSET Tokens
        PROVE  Revoked(rows, ts) \in [Tokens -> Row \cup {None}]
    BY DEF Revoked, Row
  <1> QED  BY <1>1, <1>2, <1>3

\* A call that moves on keeps its type.
LEMMA Moves ==
    ASSUME NEW r \in Call
    PROVE  /\ \A pc \in {"verified", "challenged", "claimed", "admitted"} : [r EXCEPT !.pc = pc] \in Call
           /\ \A e \in BOOLEAN : [r EXCEPT !.pc = "proved", !.enabled = e] \in Call
           /\ \A e \in BOOLEAN : [r EXCEPT !.enabled = e] \in Call
           /\ [r EXCEPT !.raced = TRUE] \in Call
           /\ \A ts \in SUBSET Tokens : /\ [r EXCEPT !.pc = "revoking", !.found = ts] \in Call
                                        /\ [r EXCEPT !.pc = "updating", !.found = ts] \in Call
  BY DEF Call

\* Each action keeps every variable in its type.
LEMMA TypeStep == FamilyInv /\ [Next]_vars => TypeOK'
  <1> SUFFICES ASSUME FamilyInv, [Next]_vars PROVE TypeOK'
    OBVIOUS
  <1> USE SessionsAssumption
  <1>o. TypeOK  BY DEF FamilyInv
  <1> DEFINE RowType == [Tokens -> Row \cup {None}]
  <1>r. /\ Idle \in Call
        /\ \A pc \in {"rehash", "verified", "read", "hashed"} : Start(pc) \in Call
        /\ \A p \in Passwords, raced \in BOOLEAN : Challenged(p, raced) \in Call
        /\ \A f \in Tokens : Ending(f) \in Call
    BY <1>o, Records
  <1>t. /\ token \in RowType /\ call \in [Calls -> Call] /\ lock \in [Tokens -> Calls \cup {None}]
        /\ user \in [password : Passwords, weak : BOOLEAN, disabled : BOOLEAN]
        /\ minted \in 0 .. MaxTokens /\ latest \in Passwords /\ ended \subseteq Tokens
    BY <1>o DEF TypeOK
  <1>f. \A c \in Calls : /\ call[c].family \in Tokens \cup {None}
                          /\ call[c].token \in Tokens \cup {None}
                          /\ call[c].password \in Passwords
                          /\ call[c].raced \in BOOLEAN
                          /\ call[c].found \in SUBSET Tokens
    BY <1>t DEF Call
  <1>k. ASSUME NEW c \in Calls, call[c].pc \in {"read", "claimed", "admitted", "ending", "revoking"}
        PROVE  call[c].family \in Tokens
    BY <1>k DEF FamilyInv, NumberInv
  <1>l. ASSUME NEW c \in Calls, call[c].pc \in {"claimed", "admitted"}
        PROVE  /\ call[c].token \in Tokens /\ token[call[c].token] /= None
               /\ token[call[c].token].family \in Tokens
               /\ token[call[c].token].password \in Passwords
               /\ token[call[c].token].raced \in BOOLEAN
    <2>1. call[c].token \in Live  BY <1>l DEF FamilyInv, ClaimInv
    <2> QED  BY <1>t, <2>1 DEF Live, Unrevoked, Exists, Row
  <1>1. ASSUME NEW c \in Calls, Login(c) PROVE TypeOK'
    <2>1. PICK pc \in {"rehash", "verified"} :
             call' = [call EXCEPT ![c] = [Start(pc) EXCEPT !.password = user.password]]
      BY <1>1 DEF Login
    <2>2. [Start(pc) EXCEPT !.password = user.password] \in Call  BY <1>t, <1>r DEF Call
    <2>3. call' \in [Calls -> Call]  BY <1>t, <2>1, <2>2
    <2> QED  BY <1>1, <1>t, <2>3 DEF Login, TypeOK
  <1>2. ASSUME NEW c \in Calls, Rehash(c) PROVE TypeOK'
    <2>1. call' \in [Calls -> Call]  BY <1>2, <1>t, Moves DEF Rehash, Goto
    <2>2. user' \in [password : Passwords, weak : BOOLEAN, disabled : BOOLEAN]
      BY <1>2, <1>t, <1>f DEF Rehash
    <2> QED  BY <1>2, <1>t, <2>1, <2>2 DEF Rehash, TypeOK
  <1>3. ASSUME NEW c \in Calls, Challenge(c) PROVE TypeOK'
    <2>1. call' \in [Calls -> Call]  BY <1>3, <1>t, Moves DEF Challenge, Goto
    <2> QED  BY <1>3, <1>t, <2>1 DEF Challenge, TypeOK
  <1>4. ASSUME NEW c \in Calls, CompleteSecondFactor(c) PROVE TypeOK'
    <2>1. (~user.disabled) \in BOOLEAN  OBVIOUS
    <2>2. call' \in [Calls -> Call]  BY <1>4, <1>t, <2>1, Moves DEF CompleteSecondFactor
    <2> QED  BY <1>4, <1>t, <2>2 DEF CompleteSecondFactor, TypeOK
  <1>5. ASSUME NEW c \in Calls, LoginIssue(c) PROVE TypeOK'
    <2>1. call' \in [Calls -> Call]  BY <1>5, <1>t, <1>r DEF LoginIssue, Answer
    <2>2. CASE /\ minted < MaxTokens
               /\ token' = Minted(token, None, call[c].password, call[c].raced)
               /\ minted' = minted + 1
      <3>1. token' \in RowType  BY <1>o, <1>t, <1>f, <2>2, Rows
      <3>2. minted' \in 0 .. MaxTokens  BY <1>t, <2>2
      <3> QED  BY <1>5, <1>t, <2>1, <3>1, <3>2 DEF LoginIssue, TypeOK
    <2>3. CASE UNCHANGED <<token, minted>>
      BY <1>5, <1>t, <2>1, <2>3 DEF LoginIssue, TypeOK
    <2> QED  BY <1>5, <2>2, <2>3 DEF LoginIssue
  <1>6. ASSUME NEW c \in Calls, NEW t \in Tokens, Refresh(c, t) PROVE TypeOK'
    <2>1. token[t].family \in Tokens  BY <1>6, <1>t DEF Refresh, Unrevoked, Exists, Row
    <2>2. Start("read") \in Call  BY <1>r
    <2>3. [Start("read") EXCEPT !.token = t, !.family = token[t].family] \in Call
      BY <2>1, <2>2 DEF Call
    <2>4. call' \in [Calls -> Call]  BY <1>6, <1>t, <2>3 DEF Refresh
    <2> QED  BY <1>6, <1>t, <2>4 DEF Refresh, TypeOK
  <1>7. ASSUME NEW c \in Calls, NEW t \in Tokens, Logout(c, t) PROVE TypeOK'
    <2>1. token[t].family \in Tokens  BY <1>7, <1>t DEF Logout, Unrevoked, Exists, Row
    <2>2. call' \in [Calls -> Call]  BY <1>7, <1>t, <1>r, <2>1 DEF Logout
    <2> QED  BY <1>7, <1>t, <2>2 DEF Logout, TypeOK
  <1>8. ASSUME NEW c \in Calls, Claim(c) PROVE TypeOK'
    <2>1. call' \in [Calls -> Call]  BY <1>8, <1>t, Moves DEF Claim, Goto
    <2>2. lock' \in [Tokens -> Calls \cup {None}]  BY <1>8, <1>t DEF Claim
    <2> QED  BY <1>8, <1>t, <2>1, <2>2 DEF Claim, TypeOK
  <1>9. ASSUME NEW c \in Calls, Lose(c) PROVE TypeOK'
    <2>1. call' \in [Calls -> Call]  BY <1>9, <1>t, <1>r, <1>k DEF Lose
    <2> QED  BY <1>9, <1>t, <2>1 DEF Lose, TypeOK
  <1>10. ASSUME NEW c \in Calls, ReadUser(c) PROVE TypeOK'
    <2>1. CASE ~user.disabled
      <3>1. call' = [call EXCEPT ![c].pc = "admitted"]  BY <1>10, <2>1 DEF ReadUser, Goto
      <3>2. call' \in [Calls -> Call]  BY <1>t, <3>1, Moves
      <3> QED  BY <1>10, <1>t, <2>1, <3>2 DEF ReadUser, TypeOK
    <2>2. CASE user.disabled
      <3>1. call' \in [Calls -> Call]  BY <1>10, <1>t, <1>r, <1>k, <2>2 DEF ReadUser
      <3>2. token' \in RowType  BY <1>10, <1>o, <1>t, <1>l, <2>2, Rows DEF ReadUser
      <3>3. lock' \in [Tokens -> Calls \cup {None}]  BY <1>10, <1>t, <2>2 DEF ReadUser, Release
      <3> QED  BY <1>10, <1>t, <2>2, <3>1, <3>2, <3>3 DEF ReadUser, TypeOK
    <2> QED  BY <2>1, <2>2
  <1>11. ASSUME NEW c \in Calls, RefreshIssue(c) PROVE TypeOK'
    <2> DEFINE t == call[c].token
               raced == token[t].raced \/ call[c].raced
               spent == Spent(token, t)
    <2>1. /\ t \in Tokens /\ token[t] /= None
          /\ token[t].family \in Tokens /\ token[t].password \in Passwords
      BY <1>11, <1>l DEF RefreshIssue
    <2>2. raced \in BOOLEAN  OBVIOUS
    <2>3. spent \in RowType  BY <1>o, <1>t, <2>1, Rows
    <2>4. lock' \in [Tokens -> Calls \cup {None}]  BY <1>11, <1>t DEF RefreshIssue, Release
    <2>5. CASE /\ minted < MaxTokens
               /\ token' = Minted(spent, token[t].family, token[t].password, raced)
               /\ minted' = minted + 1
               /\ Answer(c)
      <3>1. token' \in RowType
        <4> HIDE DEF spent, raced
        <4> QED  BY <1>o, <2>1, <2>2, <2>3, <2>5, Rows
      <3>2. call' \in [Calls -> Call]  BY <1>t, <1>r, <2>5 DEF Answer
      <3>3. minted' \in 0 .. MaxTokens  BY <1>t, <2>5
      <3> QED  BY <1>11, <1>t, <2>4, <3>1, <3>2, <3>3 DEF RefreshIssue, TypeOK
    <2>6. CASE /\ token' = spent
               /\ call' \in {[call EXCEPT ![c] = Idle],
                            [call EXCEPT ![c] = Challenged(token[t].password, raced)]}
               /\ UNCHANGED minted
      <3>1. call' \in [Calls -> Call]
        <4> HIDE DEF raced
        <4> QED  BY <1>t, <1>r, <2>1, <2>2, <2>6
      <3> QED  BY <1>11, <1>t, <2>3, <2>4, <2>6, <3>1 DEF RefreshIssue, TypeOK
    <2> QED  BY <1>11, <2>5, <2>6 DEF RefreshIssue
  <1>12. ASSUME NEW c \in Calls, RevokeBegin(c) PROVE TypeOK'
    <2>1. Unrevoked \cap InFamily(call[c].family) \in SUBSET Tokens  BY DEF Unrevoked
    <2>2. call' \in [Calls -> Call]  BY <1>12, <1>t, <2>1, Moves DEF RevokeBegin
    <2>3. lock' \in [Tokens -> Calls \cup {None}]  BY <1>12, <1>t DEF RevokeBegin
    <2> QED  BY <1>12, <1>t, <2>2, <2>3 DEF RevokeBegin, TypeOK
  <1>13. ASSUME NEW c \in Calls, RevokeCommit(c) PROVE TypeOK'
    <2>1. call' \in [Calls -> Call]  BY <1>13, <1>t, <1>r DEF RevokeCommit, Answer
    <2>2. token' \in RowType  BY <1>13, <1>o, <1>t, <1>f, Rows DEF RevokeCommit
    <2>3. lock' \in [Tokens -> Calls \cup {None}]  BY <1>13, <1>t DEF RevokeCommit, Release
    <2>4. ended' \subseteq Tokens  BY <1>13, <1>t, <1>k DEF RevokeCommit
    <2> QED  BY <1>13, <1>t, <2>1, <2>2, <2>3, <2>4 DEF RevokeCommit, TypeOK
  <1>14. ASSUME NEW c \in Calls, ChangePassword(c) \/ ResetPassword(c) PROVE TypeOK'
    <2>1. Start("hashed") \in Call /\ Idle \in Call  BY <1>r
    <2>2. /\ [Start("hashed") EXCEPT !.owner = TRUE] \in Call
          /\ [Idle EXCEPT !.pc = "hashed"] \in Call
      BY <2>1 DEF Call
    <2>3. call' \in [Calls -> Call]  BY <1>14, <1>t, <2>2 DEF ChangePassword, ResetPassword
    <2> QED  BY <1>14, <1>t, <2>3 DEF ChangePassword, ResetPassword, TypeOK
  <1>15. ASSUME NEW c \in Calls, UpdateTokens(c) PROVE TypeOK'
    <2>1. Unrevoked \in SUBSET Tokens  BY DEF Unrevoked
    <2>2. call' \in [Calls -> Call]  BY <1>15, <1>t, <2>1, Moves DEF UpdateTokens
    <2> QED  BY <1>15, <1>t, <2>2 DEF UpdateTokens, TypeOK
  <1>16. ASSUME NEW c \in Calls, UpdateCommit(c) PROVE TypeOK'
    <2> DEFINE rows == Revoked(Overlapped(c), Superseded(c))
               others == [d \in Calls |->
                             IF call[d].pc \in PastChecks THEN [call[d] EXCEPT !.raced = TRUE]
                             ELSE call[d]]
    <2>1. latest + 1 \in Passwords
      BY <1>16, <1>t DEF UpdateCommit, FamilyInv, UpdateInv, Passwords
    <2>2. user' \in [password : Passwords, weak : BOOLEAN, disabled : BOOLEAN] /\ latest' \in Passwords
      BY <1>16, <1>t, <2>1 DEF UpdateCommit
    <2>3. others \in [Calls -> Call]  BY <1>t, Moves
    <2>4. Overlapped(c) \in RowType  BY <1>t DEF Overlapped, Unrevoked, Exists, Row
    <2>5. rows \in RowType  BY <1>o, <1>f, <2>4, Rows DEF Superseded
    <2>6. lock' = lock /\ ended' = ended  BY <1>16 DEF UpdateCommit
    <2>7. CASE /\ minted < MaxTokens
               /\ token' = Minted(rows, None, latest + 1, FALSE)
               /\ minted' = minted + 1
               /\ call' = [others EXCEPT ![c] = Idle]
      <3> HIDE DEF rows, others
      <3>1. token' \in RowType  BY <1>o, <2>1, <2>5, <2>7, Rows
      <3>2. call' \in [Calls -> Call]  BY <1>r, <2>3, <2>7
      <3>3. minted' \in 0 .. MaxTokens  BY <1>t, <2>7
      <3> QED  BY <1>t, <2>2, <2>6, <3>1, <3>2, <3>3 DEF TypeOK
    <2>8. CASE /\ token' = rows
               /\ \/ call' = [others EXCEPT ![c] = Idle]
                  \/ call' = [others EXCEPT ![c] = Challenged(latest + 1, FALSE)]
               /\ UNCHANGED minted
      <3> HIDE DEF rows, others
      <3>1. call' \in [Calls -> Call]  BY <1>r, <2>1, <2>3, <2>8
      <3> QED  BY <1>t, <2>2, <2>5, <2>6, <2>8, <3>1 DEF TypeOK
    <2> QED  BY <1>16, <2>7, <2>8 DEF UpdateCommit
  <1>17. ASSUME NEW c \in Calls, Crash(c) PROVE TypeOK'
    <2>1. call' \in [Calls -> Call]  BY <1>17, <1>t, <1>r DEF Crash, Answer
    <2>2. lock' \in [Tokens -> Calls \cup {None}]  BY <1>17, <1>t DEF Crash
    <2> QED  BY <1>17, <1>t, <2>1, <2>2 DEF Crash, TypeOK
  <1>18. ASSUME NEW disabled \in BOOLEAN, SetDisabled(disabled) PROVE TypeOK'
    <2>1. ASSUME NEW c \in Calls PROVE call'[c] \in Call
      <3> DEFINE e == call[c].enabled \/ (call[c].pc \in PastChecks \cup {"read"} /\ ~disabled)
      <3>1. e \in BOOLEAN  OBVIOUS
      <3>2. call'[c] = [call[c] EXCEPT !.enabled = e]  BY <1>18 DEF SetDisabled
      <3>3. call[c] \in Call  BY <1>t
      <3>4. \A x \in BOOLEAN : [call[c] EXCEPT !.enabled = x] \in Call  BY <3>3, Moves
      <3> HIDE DEF e
      <3> QED  BY <3>1, <3>2, <3>4
    <2>2. call' \in [Calls -> Call]  BY <1>18, <2>1 DEF SetDisabled
    <2>3. user' \in [password : Passwords, weak : BOOLEAN, disabled : BOOLEAN]
      BY <1>18, <1>t DEF SetDisabled
    <2> QED  BY <1>18, <1>t, <2>2, <2>3 DEF SetDisabled, TypeOK
  <1>19. ASSUME NEW t \in Tokens, Prune(t) PROVE TypeOK'
    <2>1. token' \in RowType  BY <1>19, <1>t DEF Prune
    <2> QED  BY <1>19, <1>t, <2>1 DEF Prune, TypeOK
  <1>20. CASE UNCHANGED vars
    BY <1>o, <1>20 DEF vars, TypeOK
  <1> QED
    BY <1>1, <1>2, <1>3, <1>4, <1>5, <1>6, <1>7, <1>8, <1>9, <1>10, <1>11, <1>12, <1>13, <1>14,
       <1>15, <1>16, <1>17, <1>18, <1>19, <1>20 DEF Next, Step

-----------------------------------------------------------------------------
(* Families *)

Working == {"read", "claimed", "admitted", "ending", "revoking", "updating"}

\* The call goes on with what it was doing, as far as the families are concerned.
SameWork(c) ==
    /\ call'[c].pc = call[c].pc /\ call'[c].token = call[c].token
    /\ call'[c].family = call[c].family /\ call'[c].found = call[c].found

\* A step that touches no row and no lock, and after which no call has work it
\* had not before, keeps the invariant.
LEMMA QuietStep ==
    ASSUME FamilyInv, TypeOK', UNCHANGED <<token, minted, lock, latest, ended>>,
           \A c \in Calls : call'[c].pc \in Working => SameWork(c)
    PROVE  FamilyInv'
  <1>1. Live' = Live /\ Unrevoked' = Unrevoked /\ \A f : InFamily(f)' = InFamily(f)
    BY DEF Live, Unrevoked, InFamily, Exists
  <1>2. UpdateInv'  BY DEF FamilyInv, UpdateInv, Working, SameWork
  <1>3. NumberInv'  BY DEF FamilyInv, NumberInv, Working, SameWork, Exists
  <1>4. LockInv'  BY DEF FamilyInv, LockInv, Families, Working, SameWork
  <1>5. ClaimInv'  BY <1>1 DEF FamilyInv, ClaimInv, Working, SameWork, Exists
  <1>6. RevokeInv'  BY <1>1 DEF FamilyInv, RevokeInv, Working, SameWork, Exists
  <1>7. OneLive' /\ FamilyEnds'  BY <1>1 DEF FamilyInv, OneLive, FamilyEnds
  <1> QED  BY <1>2, <1>3, <1>4, <1>5, <1>6, <1>7 DEF FamilyInv

\* A step of call c that leaves the rows alone and takes or leaves a lock.
LEMMA LockStep ==
    ASSUME FamilyInv, TypeOK', UNCHANGED <<token, minted, latest, ended>>,
           NEW c \in Calls, \A d \in Calls \ {c} : call'[d] = call[d],
           call'[c].pc \in {"read", "claimed", "admitted", "ending", "revoking"} =>
               call'[c].family \in Tokens /\ call'[c].family <= minted,
           call'[c].pc \in {"read", "claimed", "admitted"} =>
               call'[c].token \in Tokens /\ call'[c].token <= minted,
           call'[c].pc = "updating" => latest < MaxPassword /\ ~UserLocked,
           call'[c].pc \in {"read", "claimed", "admitted"} /\ Exists(call'[c].token) =>
               token[call'[c].token].family = call'[c].family,
           call'[c].pc \in {"claimed", "admitted"} => call'[c].token \in Live,
           call'[c].pc = "revoking" =>
               call'[c].found = Unrevoked \cap InFamily(call'[c].family),
           call'[c].pc \in Families => lock'[call'[c].family] = c,
           \A d \in Calls \ {c} : call[d].pc \in Families =>
               lock'[call[d].family] = lock[call[d].family]
    PROVE  FamilyInv'
  <1>1. Live' = Live /\ Unrevoked' = Unrevoked /\ \A f : InFamily(f)' = InFamily(f)
    BY DEF Live, Unrevoked, InFamily, Exists
  <1>2. UpdateInv'  BY DEF FamilyInv, UpdateInv, UserLocked
  <1>3. NumberInv'  BY DEF FamilyInv, NumberInv, Exists
  <1>4. LockInv'  BY DEF FamilyInv, LockInv, Families
  <1>5. ClaimInv'  BY <1>1 DEF FamilyInv, ClaimInv, Exists, Live, Unrevoked
  <1>6. RevokeInv'  BY <1>1 DEF FamilyInv, RevokeInv, NumberInv, InFamily, Exists
  <1>7. OneLive' /\ FamilyEnds'  BY <1>1 DEF FamilyInv, OneLive, FamilyEnds
  <1> QED  BY <1>2, <1>3, <1>4, <1>5, <1>6, <1>7 DEF FamilyInv

\* A step of call c that commits: rows are spent, revoked or gone, at most one
\* is inserted, and c is done or has its family to end.  An insert goes into a
\* family that nobody is ending and that has no other live token.
LEMMA CommitStep ==
    ASSUME FamilyInv, TypeOK', NEW c,
           minted' \in {minted, minted + 1},
           \A t \in Tokens : Exists(t)' /\ t <= minted =>
               /\ Exists(t) /\ token'[t].family = token[t].family
               /\ t \in Unrevoked' => t \in Unrevoked
               /\ t \in Live' => t \in Live,
           \A t \in Tokens : Exists(t)' /\ t > minted =>
               /\ t = minted + 1 /\ minted' = minted + 1
               /\ token'[t].family <= minted'
               /\ token'[t].family \notin ended'
               /\ \A u \in Live' : token'[u].family = token'[t].family => u = t
               /\ \A d \in Calls \ {c} :
                      call[d].pc \in {"claimed", "admitted", "revoking"} =>
                          call[d].family /= token'[t].family,
           \A d \in Calls \ {c} : call'[d].pc \in Working => SameWork(d),
           c \in Calls /\ call'[c].pc \in Working =>
               /\ call'[c].pc = "ending" /\ call'[c].family \in Tokens
               /\ call'[c].family <= minted,
           \A d \in Calls \ {c} : call[d].pc \in {"claimed", "admitted"} =>
               call[d].token \in Live',
           \A d \in Calls \ {c} : call[d].pc \in Families =>
               lock'[call[d].family] = lock[call[d].family],
           \A f \in ended' : f <= minted,
           \A t \in Unrevoked' : token'[t].family \notin ended',
           \A d \in Calls \ {c} : call[d].pc = "updating" => latest' = latest
    PROVE  FamilyInv'
  <1> USE SessionsAssumption
  <1>m. minted \in Nat /\ minted' \in Nat /\ minted <= minted'
    BY DEF FamilyInv, TypeOK
  <1>n. \A t \in Tokens : t \in Nat  BY DEF Tokens
  <1>g. \A t \in Tokens : Exists(t) => token[t].family \in Tokens
    BY DEF FamilyInv, TypeOK, Exists, Row
  <1>h. \A t \in Tokens : Exists(t)' => token'[t].family \in Tokens
    BY DEF TypeOK, Exists, Row
  <1>1. UpdateInv'  BY DEF FamilyInv, UpdateInv, Working, SameWork
  <1>2. NumberInv'
    <2>1. ASSUME NEW t \in Tokens, Exists(t)' PROVE t <= minted' /\ token'[t].family <= minted'
      <3>1. CASE t <= minted
        <4>1. token'[t].family = token[t].family /\ token[t].family <= minted
          BY <2>1, <3>1 DEF FamilyInv, NumberInv
        <4> QED  BY <1>m, <1>n, <1>g, <2>1, <3>1, <4>1
      <3>2. CASE t > minted
        BY <1>m, <1>n, <2>1, <3>2
      <3> QED  BY <1>m, <1>n, <3>1, <3>2
    <2>2. \A f \in ended' : f <= minted'
      <3>1. \A f \in ended' : f \in Nat  BY <1>n DEF TypeOK
      <3> QED  BY <1>m, <3>1
    <2>3. ASSUME NEW d \in Calls
          PROVE  /\ call'[d].pc \in {"read", "claimed", "admitted", "ending", "revoking"} =>
                       call'[d].family \in Tokens /\ call'[d].family <= minted'
                 /\ call'[d].pc \in {"read", "claimed", "admitted"} =>
                       call'[d].token \in Tokens /\ call'[d].token <= minted'
      <3>1. CASE d = c  BY <1>m, <1>n, <3>1 DEF Working
      <3>2. CASE d /= c
        BY <1>m, <1>n, <3>2 DEF Working, SameWork, FamilyInv, NumberInv
      <3> QED  BY <3>1, <3>2
    <2> QED  BY <2>1, <2>2, <2>3 DEF NumberInv
  <1>3. LockInv'  BY DEF FamilyInv, LockInv, Families, Working, SameWork
  <1>4. ClaimInv'
    <2> SUFFICES ASSUME NEW d \in Calls
                 PROVE  /\ call'[d].pc = "read" /\ token'[call'[d].token] /= None =>
                              token'[call'[d].token].family = call'[d].family
                        /\ call'[d].pc \in {"claimed", "admitted"} =>
                              /\ call'[d].token \in Live'
                              /\ token'[call'[d].token].family = call'[d].family
      BY DEF ClaimInv, Exists
    <2>1. CASE d = c  BY <2>1 DEF Working
    <2>2. CASE d /= c /\ call'[d].pc \in {"read", "claimed", "admitted"}
      <3>1. SameWork(d)  BY <2>2 DEF Working
      <3>2. call[d].token \in Tokens /\ call[d].token <= minted
        BY <2>2, <3>1 DEF SameWork, FamilyInv, NumberInv
      <3>3. CASE call'[d].pc = "read" /\ token'[call'[d].token] /= None
        <4>1. PICK t \in Tokens : t = call[d].token /\ t <= minted  BY <3>2
        <4>2. Exists(t)'  BY <3>1, <3>3, <4>1 DEF SameWork, Exists
        <4>3. Exists(t) /\ token'[t].family = token[t].family  BY <4>1, <4>2
        <4>4. token[t].family = call[d].family
          BY <3>1, <3>3, <4>1, <4>3 DEF SameWork, FamilyInv, ClaimInv
        <4> QED  BY <3>1, <3>3, <4>1, <4>3, <4>4 DEF SameWork
      <3>4. CASE call'[d].pc \in {"claimed", "admitted"}
        <4>1. call[d].token \in Live'  BY <2>2, <3>1, <3>4 DEF SameWork
        <4>2. token'[call[d].token] /= None  BY <4>1 DEF Live, Unrevoked, Exists
        <4> QED  BY <3>1, <3>2, <3>4, <4>1, <4>2 DEF SameWork, FamilyInv, ClaimInv, Exists
      <3> QED  BY <2>2, <3>3, <3>4
    <2> QED  BY <2>1, <2>2
  <1>5. RevokeInv'
    <2> SUFFICES ASSUME NEW d \in Calls, call'[d].pc = "revoking"
                 PROVE  /\ \A t \in Unrevoked' : token'[t].family = call'[d].family => t \in call'[d].found
                        /\ \A t \in call'[d].found :
                              t <= minted' /\ (Exists(t)' => token'[t].family = call'[d].family)
      BY DEF RevokeInv, InFamily, Unrevoked
    <2>1. d /= c /\ SameWork(d)  BY DEF Working
    <2>2. ASSUME NEW t \in Unrevoked', token'[t].family = call'[d].family
          PROVE  t \in call'[d].found
      <3>1. t \in Tokens /\ Exists(t)' /\ token'[t].family = call[d].family /\ t \in Unrevoked'
        BY <2>1, <2>2 DEF Unrevoked, SameWork
      <3>2. t <= minted  BY <1>m, <1>n, <2>1, <3>1 DEF SameWork
      <3>3. t \in Unrevoked \cap InFamily(call[d].family)  BY <3>1, <3>2 DEF InFamily
      <3> QED  BY <2>1, <3>3 DEF SameWork, FamilyInv, RevokeInv
    <2>3. ASSUME NEW t \in call'[d].found
          PROVE  t <= minted' /\ (Exists(t)' => token'[t].family = call'[d].family)
      <3>1. t \in Tokens  BY DEF TypeOK, Call
      <3>2. t <= minted /\ (Exists(t) => token[t].family = call[d].family)
        BY <2>1 DEF SameWork, FamilyInv, RevokeInv
      <3> QED  BY <1>m, <1>n, <2>1, <3>1, <3>2 DEF SameWork
    <2> QED  BY <2>2, <2>3
  <1>6. OneLive'
    <2> SUFFICES ASSUME NEW t \in Live', NEW u \in Live', token'[t].family = token'[u].family
                 PROVE  t = u
      BY DEF OneLive
    <2>1. t \in Tokens /\ Exists(t)' /\ u \in Tokens /\ Exists(u)'  BY DEF Live, Unrevoked
    <2>2. CASE t > minted \/ u > minted  BY <2>1, <2>2
    <2>3. CASE t <= minted /\ u <= minted
      BY <2>1, <2>3 DEF FamilyInv, OneLive
    <2> QED  BY <1>m, <1>n, <2>1, <2>2, <2>3
  <1>7. FamilyEnds'  BY DEF FamilyEnds
  <1> QED  BY <1>1, <1>2, <1>3, <1>4, <1>5, <1>6, <1>7 DEF FamilyInv

\* Rows that are the table's, spent, revoked or gone but otherwise the same.
Below(rows) ==
    \A t \in Tokens : rows[t] /= None =>
        /\ token[t] /= None /\ rows[t].family = token[t].family
        /\ token[t].revoked => rows[t].revoked
        /\ token[t].used => rows[t].used

\* A committing call c gives up its work or turns to ending a family; the others
\* go on with theirs, and keep their locks and what they have claimed.
Commits(c) ==
    /\ \A d \in Calls \ {c} : call'[d].pc \in Working => SameWork(d)
    /\ c \in Calls /\ call'[c].pc \in Working =>
           call'[c].pc = "ending" /\ call'[c].family \in Tokens /\ call'[c].family <= minted
    /\ \A d \in Calls \ {c} : call[d].pc \in Families =>
           lock'[call[d].family] = lock[call[d].family]
    /\ \A d \in Calls \ {c} : call[d].pc = "updating" => latest' = latest

\* A commit that inserts nothing keeps the invariant.
LEMMA RestStep ==
    ASSUME FamilyInv, TypeOK', NEW c, Commits(c), Below(token'), minted' = minted,
           \A d \in Calls \ {c} : call[d].pc \in {"claimed", "admitted"} =>
               call[d].token \in Live',
           \A f \in ended' : f <= minted,
           \A t \in Unrevoked' : token'[t].family \notin ended'
    PROVE  FamilyInv'
  <1> USE SessionsAssumption
  <1>1. ASSUME NEW t \in Tokens, Exists(t)'
        PROVE  /\ Exists(t) /\ t <= minted /\ token'[t].family = token[t].family
               /\ t \in Unrevoked' => t \in Unrevoked
               /\ t \in Live' => t \in Live
    <2>1. Exists(t) /\ t <= minted  BY <1>1 DEF Below, Exists, FamilyInv, NumberInv
    <2> QED  BY <1>1, <2>1 DEF Below, Exists, Live, Unrevoked
  <1>2. minted \in Nat /\ \A t \in Tokens : t \in Nat  BY DEF FamilyInv, TypeOK, Tokens
  <1> QED  BY <1>1, <1>2, CommitStep DEF Commits

\* A row r may be inserted beside the rows: its family is not ended, is nobody
\* else's work and has no other live row, and what the others claimed is live.
Fits(c, rows, r) ==
    /\ rows \in [Tokens -> Row \cup {None}] /\ Below(rows) /\ r \in Row
    /\ r.family <= minted + 1 /\ r.family \notin ended
    /\ \A u \in Tokens : rows[u] /= None /\ ~rows[u].used /\ ~rows[u].revoked =>
           rows[u].family /= r.family
    /\ \A d \in Calls \ {c} : call[d].pc \in Families => call[d].family /= r.family
    /\ \A d \in Calls \ {c} : call[d].pc \in {"claimed", "admitted"} =>
           /\ rows[call[d].token] /= None
           /\ ~rows[call[d].token].used /\ ~rows[call[d].token].revoked

\* A commit that inserts a row that fits keeps the invariant.
LEMMA MintStep ==
    ASSUME FamilyInv, TypeOK', NEW c, Commits(c), minted < MaxTokens, minted' = minted + 1,
           NEW rows, NEW r, Fits(c, rows, r), token' = [rows EXCEPT ![minted + 1] = r],
           ended' = ended
    PROVE  FamilyInv'
  <1> USE SessionsAssumption DEF Fits
  <1>m. minted \in Nat /\ minted + 1 \in Tokens /\ \A t \in Tokens : t \in Nat
    BY DEF FamilyInv, TypeOK, Tokens
  <1>1. token'[minted + 1].family = r.family /\ \A t \in Tokens \ {minted + 1} : token'[t] = rows[t]
    BY <1>m
  <1>2. ASSUME NEW t \in Tokens, t /= minted + 1, Exists(t)'
        PROVE  /\ Exists(t) /\ t <= minted /\ token'[t].family = token[t].family
               /\ t \in Unrevoked' => t \in Unrevoked
               /\ t \in Live' => t \in Live
    <2>1. Exists(t) /\ t <= minted  BY <1>1, <1>2 DEF Below, Exists, FamilyInv, NumberInv
    <2> QED  BY <1>1, <1>2, <2>1 DEF Below, Exists, Live, Unrevoked
  <1>3. ASSUME NEW d \in Calls \ {c}, call[d].pc \in {"claimed", "admitted"}
        PROVE  call[d].token \in Live'
    <2>1. call[d].token \in Tokens \ {minted + 1}  BY <1>3, <1>m DEF FamilyInv, NumberInv
    <2> QED  BY <1>1, <1>3, <2>1 DEF Live, Unrevoked, Exists
  <1>4. \A u \in Live' : token'[u].family = r.family => u = minted + 1
    BY <1>1 DEF Live, Unrevoked, Exists
  <1>5. \A h \in ended' : h <= minted  BY DEF FamilyInv, NumberInv
  <1>6. ASSUME NEW t \in Unrevoked' PROVE token'[t].family \notin ended'
    <2>1. t \in Tokens /\ Exists(t)'  BY DEF Unrevoked
    <2>2. CASE t = minted + 1  BY <1>1, <2>2
    <2>3. CASE t /= minted + 1  BY <1>2, <2>1, <2>3 DEF FamilyInv, FamilyEnds
    <2> QED  BY <2>2, <2>3
  <1>7. ASSUME NEW t \in Tokens, Exists(t)', t <= minted
        PROVE  /\ Exists(t) /\ token'[t].family = token[t].family
               /\ t \in Unrevoked' => t \in Unrevoked
               /\ t \in Live' => t \in Live
    <2>1. t /= minted + 1  BY <1>m, <1>7
    <2> QED  BY <1>2, <1>7, <2>1
  <1>8. ASSUME NEW t \in Tokens, Exists(t)', t > minted
        PROVE  /\ t = minted + 1 /\ minted' = minted + 1
               /\ token'[t].family <= minted'
               /\ token'[t].family \notin ended'
               /\ \A u \in Live' : token'[u].family = token'[t].family => u = t
               /\ \A d \in Calls \ {c} :
                      call[d].pc \in {"claimed", "admitted", "revoking"} =>
                          call[d].family /= token'[t].family
    <2>1. t = minted + 1  BY <1>m, <1>2, <1>8
    <2> QED  BY <1>1, <1>4, <2>1 DEF Families
  <1> QED  BY <1>3, <1>5, <1>6, <1>7, <1>8, CommitStep DEF Commits

\* What a call or an UPDATE does to the rows leaves them below the table.
LEMMA BelowRows ==
    ASSUME TypeOK
    PROVE  /\ Below(token)
           /\ \A t \in Tokens : Exists(t) => Below(Spent(token, t))
           /\ \A ts \in SUBSET Tokens : Below(Revoked(token, ts))
           /\ \A c \in Calls : Below(Revoked(Overlapped(c), Superseded(c)))
  <1> USE SessionsAssumption
  <1>t. token \in [Tokens -> Row \cup {None}] /\ None \notin Row  BY NoneIsNoRow DEF TypeOK
  <1>1. Below(token)  BY DEF Below
  <1>2. ASSUME NEW t \in Tokens, Exists(t) PROVE Below(Spent(token, t))
    BY <1>t, <1>2 DEF Below, Spent, Exists, Row
  <1>3. ASSUME NEW ts \in SUBSET Tokens PROVE Below(Revoked(token, ts))
    BY <1>t DEF Below, Revoked, Row
  <1>4. ASSUME NEW c \in Calls, NEW ts PROVE Below(Revoked(Overlapped(c), ts))
    <2>0. PICK rows : rows = Overlapped(c)  OBVIOUS
    <2>1. /\ rows \in [Tokens -> Row \cup {None}]
          /\ \A t \in Tokens : rows[t] /= None =>
                /\ token[t] /= None /\ rows[t].family = token[t].family
                /\ rows[t].revoked = token[t].revoked /\ rows[t].used = token[t].used
      BY <1>t, <2>0 DEF Overlapped, Unrevoked, Exists, Row
    <2>2. ASSUME NEW t \in Tokens, Revoked(rows, ts)[t] /= None
          PROVE  /\ rows[t] /= None /\ Revoked(rows, ts)[t].family = rows[t].family
                 /\ rows[t].revoked => Revoked(rows, ts)[t].revoked
                 /\ rows[t].used => Revoked(rows, ts)[t].used
      BY <2>1, <2>2 DEF Revoked, Row
    <2> QED  BY <2>0, <2>1, <2>2 DEF Below
  <1> QED  BY <1>1, <1>2, <1>3, <1>4

\* Each action keeps the invariant.
LEMMA FamilyStep == FamilyInv /\ [Next]_vars => FamilyInv'
  <1> SUFFICES ASSUME FamilyInv, [Next]_vars PROVE FamilyInv'
    OBVIOUS
  <1> USE SessionsAssumption
  <1>o. TypeOK /\ TypeOK'  BY TypeStep DEF FamilyInv
  <1>t. /\ token \in [Tokens -> Row \cup {None}] /\ call \in [Calls -> Call]
        /\ lock \in [Tokens -> Calls \cup {None}] /\ minted \in Nat
    BY <1>o DEF TypeOK
  <1>n. \A t \in Tokens : t \in Nat  BY DEF Tokens
  <1>w. Idle.pc \notin Working /\ Idle.pc = "idle"  BY DEF Idle, Working
  <1>1. ASSUME NEW c \in Calls,
               Login(c) \/ Rehash(c) \/ Challenge(c) \/ CompleteSecondFactor(c)
                 \/ ChangePassword(c) \/ ResetPassword(c)
        PROVE FamilyInv'
    <2>1. /\ \A d \in Calls \ {c} : call'[d] = call[d]
          /\ UNCHANGED <<token, minted, lock, latest, ended>>
      BY <1>1, <1>t DEF Login, Rehash, Challenge, CompleteSecondFactor, ChangePassword,
                        ResetPassword, Goto
    <2>2. call'[c].pc \in {"rehash", "verified", "challenged", "proved", "hashed"}
      <3>1. CASE Login(c)
        <4>1. PICK pc \in {"rehash", "verified"} :
                 call' = [call EXCEPT ![c] = [Start(pc) EXCEPT !.password = user.password]]
          BY <3>1 DEF Login
        <4> QED  BY <1>t, <4>1 DEF Start, Idle
      <3>2. CASE Rehash(c) \/ Challenge(c) \/ CompleteSecondFactor(c)
        BY <1>t, <3>2 DEF Rehash, Challenge, CompleteSecondFactor, Goto, Call
      <3>3. CASE ChangePassword(c)  BY <1>t, <3>3 DEF ChangePassword, Start, Idle
      <3>4. CASE ResetPassword(c)  BY <1>t, <3>4 DEF ResetPassword, Idle
      <3> QED  BY <1>1, <3>1, <3>2, <3>3, <3>4
    <2> QED  BY <1>o, <2>1, <2>2, QuietStep DEF Working, SameWork
  <1>2. ASSUME NEW disabled \in BOOLEAN, SetDisabled(disabled) PROVE FamilyInv'
    <2>1. \A d \in Calls : SameWork(d)  BY <1>2, <1>t DEF SetDisabled, SameWork, Call
    <2> QED  BY <1>o, <1>2, <2>1, QuietStep DEF SetDisabled
  <1>3. CASE UNCHANGED vars
    BY <1>o, <1>3, QuietStep DEF vars, SameWork
  <1>4. ASSUME NEW c \in Calls, NEW t \in Tokens, Refresh(c, t) PROVE FamilyInv'
    <2>1. /\ \A d \in Calls \ {c} : call'[d] = call[d]
          /\ UNCHANGED <<token, minted, lock, latest, ended>>
      BY <1>4, <1>t DEF Refresh
    <2>2. call'[c].pc = "read" /\ call'[c].token = t /\ call'[c].family = token[t].family
      BY <1>4, <1>t DEF Refresh, Start, Idle
    <2>3. /\ t <= minted /\ token[t].family <= minted /\ token[t].family \in Tokens
      BY <1>4, <1>t DEF Refresh, Unrevoked, Exists, Row, FamilyInv, NumberInv
    <2> QED  BY <1>o, <2>1, <2>2, <2>3, LockStep DEF Families
  <1>5. ASSUME NEW c \in Calls, NEW t \in Tokens, Logout(c, t) PROVE FamilyInv'
    <2>1. /\ \A d \in Calls \ {c} : call'[d] = call[d]
          /\ UNCHANGED <<token, minted, lock, latest, ended>>
      BY <1>5, <1>t DEF Logout
    <2>2. call'[c].pc = "ending" /\ call'[c].family = token[t].family
      BY <1>5, <1>t DEF Logout, Ending, Idle
    <2>3. /\ token[t].family <= minted /\ token[t].family \in Tokens
      BY <1>5, <1>t DEF Logout, Unrevoked, Exists, Row, FamilyInv, NumberInv
    <2> QED  BY <1>o, <2>1, <2>2, <2>3, LockStep DEF Families
  <1>f. ASSUME NEW c \in Calls,
               call[c].pc \in {"read", "claimed", "admitted", "ending", "revoking"}
        PROVE  call[c].family \in Tokens /\ call[c].family <= minted
    BY <1>f DEF FamilyInv, NumberInv
  <1>6. ASSUME NEW c \in Calls, Claim(c) PROVE FamilyInv'
    <2>1. /\ \A d \in Calls \ {c} : call'[d] = call[d]
          /\ UNCHANGED <<token, minted, latest, ended>>
      BY <1>6, <1>t DEF Claim, Goto
    <2>2. /\ call'[c].pc = "claimed" /\ call'[c].token = call[c].token
          /\ call'[c].family = call[c].family
      BY <1>6, <1>t DEF Claim, Goto, Call
    <2>3. call[c].pc = "read" /\ call[c].token \in Live /\ lock[call[c].family] = None
      BY <1>6 DEF Claim, Claimable
    <2>4. /\ call[c].family \in Tokens /\ call[c].family <= minted
          /\ call[c].token \in Tokens /\ call[c].token <= minted
          /\ token[call[c].token].family = call[c].family
      BY <2>3 DEF FamilyInv, NumberInv, ClaimInv, Live, Unrevoked
    <2>5. \A d \in Calls \ {c} : call[d].pc \in Families => lock[call[d].family] /= None
      BY DEF FamilyInv, LockInv
    <2>6. /\ lock'[call[c].family] = c
          /\ \A d \in Calls \ {c} : call[d].pc \in Families =>
                 lock'[call[d].family] = lock[call[d].family]
      BY <1>6, <1>t, <1>f, <2>3, <2>4, <2>5 DEF Claim, Families
    <2> QED  BY <1>o, <2>1, <2>2, <2>3, <2>4, <2>6, LockStep DEF Families
  <1>7. ASSUME NEW c \in Calls, Lose(c) PROVE FamilyInv'
    <2>1. /\ \A d \in Calls \ {c} : call'[d] = call[d]
          /\ UNCHANGED <<token, minted, lock, latest, ended>>
      BY <1>7, <1>t DEF Lose
    <2>2. call'[c].pc = "ending" /\ call'[c].family = call[c].family
      BY <1>7, <1>t DEF Lose, Ending, Idle
    <2>3. call[c].family \in Tokens /\ call[c].family <= minted  BY <1>7, <1>f DEF Lose
    <2> QED  BY <1>o, <2>1, <2>2, <2>3, LockStep DEF Families
  <1>8. ASSUME NEW c \in Calls, RevokeBegin(c) PROVE FamilyInv'
    <2>1. /\ \A d \in Calls \ {c} : call'[d] = call[d]
          /\ UNCHANGED <<token, minted, latest, ended>>
      BY <1>8, <1>t DEF RevokeBegin
    <2>2. /\ call'[c].pc = "revoking" /\ call'[c].family = call[c].family
          /\ call'[c].found = Unrevoked \cap InFamily(call[c].family)
      BY <1>8, <1>t DEF RevokeBegin, Call
    <2>3. call[c].pc = "ending" /\ lock[call[c].family] = None  BY <1>8 DEF RevokeBegin
    <2>4. call[c].family \in Tokens /\ call[c].family <= minted  BY <2>3, <1>f
    <2>5. \A d \in Calls \ {c} : call[d].pc \in Families => lock[call[d].family] /= None
      BY DEF FamilyInv, LockInv
    <2>6. /\ lock'[call[c].family] = c
          /\ \A d \in Calls \ {c} : call[d].pc \in Families =>
                 lock'[call[d].family] = lock[call[d].family]
      BY <1>8, <1>t, <1>f, <2>3, <2>4, <2>5 DEF RevokeBegin, Families
    <2> QED  BY <1>o, <2>1, <2>2, <2>4, <2>6, LockStep DEF Families
  <1>9. ASSUME NEW c \in Calls, UpdateTokens(c) PROVE FamilyInv'
    <2>1. /\ \A d \in Calls \ {c} : call'[d] = call[d]
          /\ UNCHANGED <<token, minted, lock, latest, ended>>
      BY <1>9, <1>t DEF UpdateTokens
    <2>2. call'[c].pc = "updating" /\ latest < MaxPassword /\ ~UserLocked
      BY <1>9, <1>t DEF UpdateTokens, Call
    <2> QED  BY <1>o, <2>1, <2>2, LockStep DEF Families
  <1>10. ASSUME NEW c \in Calls, Crash(c) PROVE FamilyInv'
    <2>1. /\ \A d \in Calls \ {c} : call'[d] = call[d]
          /\ UNCHANGED <<token, minted, latest, ended>>
      BY <1>10, <1>t DEF Crash, Answer
    <2>2. call'[c].pc = "idle"  BY <1>10, <1>t, <1>w DEF Crash, Answer
    <2>3. \A d \in Calls \ {c} : call[d].pc \in Families => lock[call[d].family] = d
      BY DEF FamilyInv, LockInv
    <2>4. \A d \in Calls \ {c} : call[d].pc \in Families =>
              lock'[call[d].family] = lock[call[d].family]
      BY <1>10, <1>f, <2>3 DEF Crash, Families
    <2> QED  BY <1>o, <2>1, <2>2, <2>4, LockStep DEF Families

  <1>k. ASSUME NEW c \in Calls, call[c].pc \in {"claimed", "admitted"}
        PROVE  /\ call[c].token \in Live /\ call[c].token \in Tokens /\ Exists(call[c].token)
               /\ token[call[c].token].family = call[c].family
               /\ ~token[call[c].token].used /\ ~token[call[c].token].revoked
    BY <1>k DEF FamilyInv, ClaimInv, Live, Unrevoked
  \* Nobody else works under the lock that c holds.
  <1>x. ASSUME NEW c \in Calls, call[c].pc \in Families, NEW d \in Calls \ {c},
               call[d].pc \in Families
        PROVE  call[d].family /= call[c].family
    BY <1>x DEF FamilyInv, LockInv
  <1>y. ASSUME NEW c \in Calls, call[c].pc \in Families, Release(call[c].family)
        PROVE  \A d \in Calls \ {c} : call[d].pc \in Families =>
                   lock'[call[d].family] = lock[call[d].family]
    BY <1>t, <1>x, <1>y, <1>f DEF Release, Families
  <1>z. ASSUME NEW c \in Calls, call[c].pc \in {"claimed", "admitted"},
               NEW d \in Calls \ {c}, call[d].pc \in {"claimed", "admitted"}
        PROVE  call[d].token /= call[c].token
    BY <1>x, <1>z, <1>k DEF Families
  <1>11. ASSUME NEW c \in Calls, LoginIssue(c) PROVE FamilyInv'
    <2>1. /\ \A d \in Calls \ {c} : call'[d] = call[d]
          /\ call'[c].pc = "idle"
          /\ UNCHANGED <<lock, latest, ended>>
      BY <1>11, <1>t, <1>w DEF LoginIssue, Answer
    <2>2. Commits(c)  BY <2>1 DEF Commits, Working, SameWork
    <2>3. CASE /\ minted < MaxTokens
               /\ token' = Minted(token, None, call[c].password, call[c].raced)
               /\ minted' = minted + 1
      <3>1. minted + 1 \in Tokens  BY <1>t, <2>3 DEF Tokens
      <3>2. \A u \in Tokens : token[u] /= None => token[u].family \in Nat /\ token[u].family <= minted
        BY <1>t, <1>n DEF FamilyInv, NumberInv, Exists, Row
      <3>3. \A d \in Calls \ {c} : call[d].pc \in Families => call[d].family /= minted + 1
        BY <1>t, <1>f, <1>n DEF Families
      <3>4. minted + 1 \notin ended  BY <1>t DEF FamilyInv, NumberInv
      <3>5. \A u \in Tokens : token[u] /= None /\ ~token[u].used /\ ~token[u].revoked =>
                token[u].family /= minted + 1
        BY <1>t, <3>2
      <3>6. Below(token)  BY <1>o, BelowRows
      <3>7. \A d \in Calls \ {c} : call[d].pc \in {"claimed", "admitted"} =>
                /\ token[call[d].token] /= None
                /\ ~token[call[d].token].used /\ ~token[call[d].token].revoked
        BY <1>k DEF Exists
      <3>8. minted + 1 <= minted + 1  BY <1>t
      <3>9. PICK row \in Row : row.family = minted + 1 /\ token' = [token EXCEPT ![minted + 1] = row]
        <4> DEFINE row == [family |-> minted + 1, used |-> FALSE, revoked |-> FALSE,
                           password |-> call[c].password, raced |-> call[c].raced]
        <4>1. row \in Row  BY <1>t, <3>1 DEF Row, Call
        <4>2. token' = [token EXCEPT ![minted + 1] = row]  BY <2>3 DEF Minted
        <4> QED  BY <4>1, <4>2
      <3>10. Fits(c, token, row)  BY <1>t, <3>3, <3>4, <3>5, <3>6, <3>7, <3>8, <3>9 DEF Fits
      <3> QED  BY <1>o, <2>1, <2>2, <2>3, <3>9, <3>10, MintStep
    <2>4. CASE UNCHANGED <<token, minted>>
      BY <1>o, <2>1, <2>4, QuietStep DEF Working, SameWork
    <2> QED  BY <1>11, <2>3, <2>4 DEF LoginIssue
  <1>12. ASSUME NEW c \in Calls, ReadUser(c) PROVE FamilyInv'
    <2>1. CASE ~user.disabled
      <3>1. call' = [call EXCEPT ![c].pc = "admitted"] /\ UNCHANGED <<token, minted, lock, latest, ended>>
        BY <1>12, <2>1 DEF ReadUser, Goto
      <3>2. /\ \A d \in Calls \ {c} : call'[d] = call[d]
            /\ call'[c].pc = "admitted" /\ call'[c].token = call[c].token
            /\ call'[c].family = call[c].family
        BY <1>t, <3>1 DEF Call
      <3>3. call[c].pc = "claimed"  BY <1>12 DEF ReadUser
      <3>4. /\ call[c].family \in Tokens /\ call[c].family <= minted
            /\ call[c].token \in Tokens /\ call[c].token <= minted
            /\ lock[call[c].family] = c
        BY <3>3 DEF FamilyInv, NumberInv, LockInv, Families
      <3> QED  BY <1>o, <1>k, <3>1, <3>2, <3>3, <3>4, LockStep DEF Families
    <2>2. CASE user.disabled
      <3>1. /\ call[c].pc = "claimed"
            /\ token' = Spent(token, call[c].token)
            /\ call' = [call EXCEPT ![c] = Ending(call[c].family)]
            /\ Release(call[c].family)
            /\ UNCHANGED <<minted, latest, ended>>
        BY <1>12, <2>2 DEF ReadUser
      <3>2. /\ \A d \in Calls \ {c} : call'[d] = call[d]
            /\ call'[c].pc = "ending" /\ call'[c].family = call[c].family
        BY <1>t, <3>1 DEF Ending, Idle
      <3>3. Commits(c)  BY <1>f, <1>y, <3>1, <3>2 DEF Commits, Working, SameWork, Families
      <3>4. Below(token')  BY <1>o, <1>k, <3>1, BelowRows
      <3>5. \A d \in Calls \ {c} : call[d].pc \in {"claimed", "admitted"} =>
                call[d].token \in Live'
        <4>1. \A d \in Calls \ {c} : call[d].pc \in {"claimed", "admitted"} =>
                  token'[call[d].token] = token[call[d].token]
          BY <1>t, <1>k, <1>z, <3>1 DEF Spent
        <4> QED  BY <1>k, <4>1 DEF Live, Unrevoked, Exists
      <3>6. ASSUME NEW t \in Unrevoked' PROVE token'[t].family \notin ended'
        BY <1>t, <3>1, <3>4 DEF Below, Unrevoked, Exists, FamilyInv, FamilyEnds
      <3>7. \A f \in ended' : f <= minted  BY <3>1 DEF FamilyInv, NumberInv
      <3> QED  BY <1>o, <3>1, <3>3, <3>4, <3>5, <3>6, <3>7, RestStep
    <2> QED  BY <2>1, <2>2
  <1>13. ASSUME NEW c \in Calls, RefreshIssue(c) PROVE FamilyInv'
    <2> DEFINE t == call[c].token
               rows == Spent(token, t)
               raced == token[t].raced \/ call[c].raced
    <2>1. /\ call[c].pc = "admitted" /\ Release(token[t].family)
          /\ UNCHANGED <<user, latest, ended>>
      BY <1>13 DEF RefreshIssue
    <2>2. /\ t \in Tokens /\ Exists(t) /\ t \in Live /\ token[t].family = call[c].family
          /\ token[t].family \in Tokens /\ token[t].family <= minted
      BY <1>k, <1>f, <2>1
    <2>3. Below(rows) /\ rows \in [Tokens -> Row \cup {None}]
      BY <1>o, <1>t, <2>2, BelowRows, Rows DEF Exists
    <2>4. rows[t].used /\ \A u \in Tokens \ {t} : rows[u] = token[u]
      BY <1>t, <2>2 DEF Spent, Exists, Row
    <2>5. \A d \in Calls \ {c} : call[d].pc \in Families =>
              lock'[call[d].family] = lock[call[d].family]
      BY <1>y, <2>1, <2>2 DEF Families
    <2>6. \A d \in Calls \ {c} : call[d].pc \in {"claimed", "admitted"} =>
              call[d].token \in Tokens /\ rows[call[d].token] = token[call[d].token]
      BY <1>k, <1>z, <2>1, <2>4
    <2>7. ASSUME \A d \in Calls \ {c} : call'[d] = call[d], call'[c].pc \notin Working
          PROVE  Commits(c)
      BY <2>1, <2>5, <2>7 DEF Commits, SameWork
    <2>8. CASE /\ minted < MaxTokens
               /\ token' = Minted(rows, token[t].family, token[t].password, raced)
               /\ minted' = minted + 1
               /\ Answer(c)
      <3>1. Commits(c)  BY <1>t, <1>w, <2>7, <2>8 DEF Answer
      <3>2. token[t].family /= None  BY <2>2, <1>n
      <3>3. token[t].family \notin ended  BY <2>2 DEF FamilyInv, FamilyEnds, Live
      <3>4. \A u \in Tokens : rows[u] /= None /\ ~rows[u].used /\ ~rows[u].revoked =>
                rows[u].family /= token[t].family
        BY <2>2, <2>4 DEF FamilyInv, OneLive, Live, Unrevoked, Exists
      <3>5. \A d \in Calls \ {c} : call[d].pc \in Families => call[d].family /= token[t].family
        BY <1>x, <2>1, <2>2 DEF Families
      <3>6. \A d \in Calls \ {c} : call[d].pc \in {"claimed", "admitted"} =>
                /\ rows[call[d].token] /= None
                /\ ~rows[call[d].token].used /\ ~rows[call[d].token].revoked
        BY <1>k, <2>6 DEF Exists
      <3>7. token[t].family <= minted + 1  BY <1>t, <1>n, <2>2
      <3>8. PICK row \in Row : row.family = token[t].family /\ token' = [rows EXCEPT ![minted + 1] = row]
        <4> DEFINE row == [family |-> token[t].family, used |-> FALSE, revoked |-> FALSE,
                           password |-> token[t].password, raced |-> raced]
        <4>1. raced \in BOOLEAN /\ token[t].password \in Passwords  BY <1>t, <2>2 DEF Exists, Row
        <4>2. token' = [rows EXCEPT ![minted + 1] = row]  BY <2>8, <3>2 DEF Minted
        <4> HIDE DEF raced
        <4>3. row \in Row  BY <2>2, <4>1 DEF Row
        <4> QED  BY <4>2, <4>3
      <3> HIDE DEF rows, raced
      <3>9. Fits(c, rows, row)  BY <2>3, <3>3, <3>4, <3>5, <3>6, <3>7, <3>8 DEF Fits
      <3> QED  BY <1>o, <2>1, <2>8, <3>1, <3>8, <3>9, MintStep
    <2>9. CASE /\ token' = rows
               /\ call' \in {[call EXCEPT ![c] = Idle],
                            [call EXCEPT ![c] = Challenged(token[t].password, raced)]}
               /\ UNCHANGED minted
      <3>1. \A d \in Calls \ {c} : call'[d] = call[d]
        <4> HIDE DEF raced
        <4> QED  BY <1>t, <2>9
      <3>2. call'[c].pc \notin Working
        <4> HIDE DEF raced
        <4>1. CASE call' = [call EXCEPT ![c] = Idle]  BY <1>t, <1>w, <4>1
        <4>2. CASE call' = [call EXCEPT ![c] = Challenged(token[t].password, raced)]
          <5>1. call'[c] = Challenged(token[t].password, raced)  BY <1>t, <4>2
          <5>2. call'[c].pc = "challenged"  BY <5>1 DEF Challenged, Idle
          <5> QED  BY <5>2 DEF Working
        <4> QED  BY <2>9, <4>1, <4>2
      <3>3. Commits(c)  BY <2>7, <3>1, <3>2
      <3>4. ASSUME NEW u \in Unrevoked' PROVE token'[u].family \notin ended'
        <4> HIDE DEF rows
        <4> QED  BY <2>1, <2>3, <2>9 DEF Below, Unrevoked, Exists, FamilyInv, FamilyEnds
      <3>5. \A f \in ended' : f <= minted  BY <2>1 DEF FamilyInv, NumberInv
      <3>6. \A d \in Calls \ {c} : call[d].pc \in {"claimed", "admitted"} =>
                call[d].token \in Live'
        <4> HIDE DEF rows
        <4> QED  BY <1>k, <2>6, <2>9 DEF Live, Unrevoked, Exists
      <3> HIDE DEF rows
      <3> QED  BY <1>o, <2>3, <2>9, <3>3, <3>4, <3>5, <3>6, RestStep
    <2> QED  BY <1>13, <2>8, <2>9 DEF RefreshIssue

  <1>14. ASSUME NEW c \in Calls, RevokeCommit(c) PROVE FamilyInv'
    <2>1. /\ call[c].pc = "revoking" /\ token' = Revoked(token, call[c].found)
          /\ ended' = ended \cup {call[c].family} /\ Release(call[c].family)
          /\ UNCHANGED <<user, minted, latest>>
      BY <1>14 DEF RevokeCommit
    <2>2. (\A d \in Calls \ {c} : call'[d] = call[d]) /\ call'[c].pc = "idle"
      BY <1>14, <1>t, <1>w DEF RevokeCommit, Answer
    <2>3. Commits(c)  BY <1>y, <2>1, <2>2 DEF Commits, Working, SameWork, Families
    <2>4. call[c].found \in SUBSET Tokens  BY <1>t DEF Call
    <2>5. Below(token')  BY <1>o, <2>1, <2>4, BelowRows
    <2>6. call[c].family \in Tokens /\ call[c].family <= minted  BY <1>f, <2>1
    <2>7. \A f \in ended' : f <= minted  BY <2>1, <2>6 DEF FamilyInv, NumberInv
    <2>8. ASSUME NEW t \in Unrevoked' PROVE token'[t].family \notin ended'
      <3>1. t \in Unrevoked /\ token'[t].family = token[t].family /\ t \notin call[c].found
        BY <1>t, <2>1, <2>5 DEF Below, Unrevoked, Exists, Revoked, Row
      <3>2. token[t].family /= call[c].family
        BY <2>1, <3>1 DEF FamilyInv, RevokeInv, InFamily, Unrevoked
      <3> QED  BY <2>1, <3>1, <3>2 DEF FamilyInv, FamilyEnds
    <2>9. ASSUME NEW d \in Calls \ {c}, call[d].pc \in {"claimed", "admitted"}
          PROVE  call[d].token \in Live'
      <3>1. call[d].family /= call[c].family  BY <1>x, <2>1, <2>9 DEF Families
      <3>2. call[d].token \notin call[c].found
        BY <1>k, <2>1, <2>9, <3>1 DEF FamilyInv, RevokeInv
      <3>3. token'[call[d].token] = token[call[d].token]  BY <1>k, <2>1, <2>9, <3>2 DEF Revoked
      <3> QED  BY <1>k, <2>9, <3>3 DEF Live, Unrevoked, Exists
    <2> QED  BY <1>o, <2>1, <2>3, <2>5, <2>7, <2>8, <2>9, RestStep
  <1>15. ASSUME NEW c \in Calls, UpdateCommit(c) PROVE FamilyInv'
    <2> DEFINE rows == Revoked(Overlapped(c), Superseded(c))
               others == [d \in Calls |->
                             IF call[d].pc \in PastChecks THEN [call[d] EXCEPT !.raced = TRUE]
                             ELSE call[d]]
    <2>1. /\ call[c].pc = "updating" /\ latest' = latest + 1 /\ UNCHANGED <<lock, ended>>
          /\ \A d \in Calls \ {c}, t \in call[c].found : ~Claims(d, t)
      BY <1>15 DEF UpdateCommit
    <2>2. \A d \in Calls : /\ others[d].pc = call[d].pc /\ others[d].token = call[d].token
                           /\ others[d].family = call[d].family /\ others[d].found = call[d].found
      BY <1>t DEF Call
    <2>3. \A d \in Calls \ {c} : call[d].pc /= "updating"  BY <2>1 DEF FamilyInv, UpdateInv
    <2>4. Below(rows)  BY <1>o, BelowRows
    <2>5. rows \in [Tokens -> Row \cup {None}]
      <3>1. Overlapped(c) \in [Tokens -> Row \cup {None}]
        BY <1>t DEF Overlapped, Unrevoked, Exists, Row
      <3>2. Superseded(c) \in SUBSET Tokens  BY <1>t DEF Superseded, Call
      <3> QED  BY <1>o, <3>1, <3>2, Rows
    <2>6. ASSUME NEW d \in Calls \ {c}, call[d].pc \in {"claimed", "admitted"}
          PROVE  /\ rows[call[d].token] /= None
                 /\ ~rows[call[d].token].used /\ ~rows[call[d].token].revoked
      <3>1. PICK t \in Tokens : t = call[d].token  BY <1>k, <2>6
      <3>2. t \notin Superseded(c)  BY <2>1, <2>6, <3>1 DEF Claims, Superseded
      <3>3. token[t] \in Row /\ ~token[t].used /\ ~token[t].revoked
        BY <1>t, <1>k, <2>6, <3>1 DEF Exists
      <3>4. rows[t] = Overlapped(c)[t]  BY <3>2 DEF Revoked
      <3>5. Overlapped(c)[t] \in {token[t], [token[t] EXCEPT !.raced = TRUE]}
        BY <3>1 DEF Overlapped
      <3>6. rows[t] \in Row /\ ~rows[t].used /\ ~rows[t].revoked
        BY <3>3, <3>4, <3>5 DEF Row
      <3> QED  BY <3>1, <3>6, NoneIsNoRow
    <2>7. ASSUME NEW r, r.pc \notin Working, call' = [others EXCEPT ![c] = r]
          PROVE  Commits(c)
      <3>1. \A d \in Calls \ {c} : SameWork(d)
        <4>1. \A d \in Calls \ {c} : call'[d] = others[d]  BY <2>7
        <4> HIDE DEF others
        <4> QED  BY <2>2, <4>1 DEF SameWork
      <3>2. call'[c] = r  BY <2>7
      <3> QED  BY <2>1, <2>3, <2>7, <3>1, <3>2 DEF Commits
    <2>8. CASE /\ minted < MaxTokens
               /\ token' = Minted(rows, None, latest + 1, FALSE)
               /\ minted' = minted + 1
               /\ call' = [others EXCEPT ![c] = Idle]
      <3>1. Commits(c)  BY <1>w, <2>7, <2>8
      <3>2. minted + 1 \in Tokens  BY <1>t, <2>8 DEF Tokens
      <3>3. \A u \in Tokens : token[u] /= None => token[u].family \in Nat /\ token[u].family <= minted
        BY <1>t, <1>n DEF FamilyInv, NumberInv, Exists, Row
      <3>4. \A d \in Calls \ {c} : call[d].pc \in Families => call[d].family /= minted + 1
        BY <1>t, <1>f, <1>n DEF Families
      <3>5. minted + 1 \notin ended  BY <1>t DEF FamilyInv, NumberInv
      <3> HIDE DEF rows, others
      <3>6. \A u \in Tokens : rows[u] /= None /\ ~rows[u].used /\ ~rows[u].revoked =>
                rows[u].family /= minted + 1
        BY <1>t, <2>4, <3>3 DEF Below
      <3>7. minted + 1 <= minted + 1  BY <1>t
      <3>8. PICK row \in Row : row.family = minted + 1 /\ token' = [rows EXCEPT ![minted + 1] = row]
        <4> DEFINE row == [family |-> minted + 1, used |-> FALSE, revoked |-> FALSE,
                           password |-> latest + 1, raced |-> FALSE]
        <4>1. latest' \in Passwords  BY <1>o DEF TypeOK
        <4>2. row \in Row  BY <2>1, <3>2, <4>1 DEF Row
        <4>3. token' = [rows EXCEPT ![minted + 1] = row]  BY <2>8 DEF Minted
        <4> QED  BY <4>2, <4>3
      <3>9. Fits(c, rows, row)  BY <2>4, <2>5, <2>6, <3>4, <3>5, <3>6, <3>7, <3>8 DEF Fits
      <3> QED  BY <1>o, <2>1, <2>8, <3>1, <3>8, <3>9, MintStep
    <2>9. CASE /\ token' = rows
               /\ \/ call' = [others EXCEPT ![c] = Idle]
                  \/ call' = [others EXCEPT ![c] = Challenged(latest + 1, FALSE)]
               /\ UNCHANGED minted
      <3>1. Challenged(latest + 1, FALSE).pc \notin Working  BY DEF Challenged, Idle, Working
      <3>2. Commits(c)  BY <1>w, <2>7, <2>9, <3>1
      <3>3. ASSUME NEW u \in Unrevoked' PROVE token'[u].family \notin ended'
        <4> HIDE DEF rows
        <4> QED  BY <2>1, <2>4, <2>9 DEF Below, Unrevoked, Exists, FamilyInv, FamilyEnds
      <3>4. \A f \in ended' : f <= minted  BY <2>1 DEF FamilyInv, NumberInv
      <3>5. \A d \in Calls \ {c} : call[d].pc \in {"claimed", "admitted"} =>
                call[d].token \in Live'
        <4> HIDE DEF rows
        <4> QED  BY <1>k, <2>6, <2>9 DEF Live, Unrevoked, Exists
      <3> HIDE DEF rows, others
      <3> QED  BY <1>o, <2>4, <2>9, <3>2, <3>3, <3>4, <3>5, RestStep
    <2> QED  BY <1>15, <2>8, <2>9 DEF UpdateCommit
  <1>16. ASSUME NEW t \in Tokens, Prune(t) PROVE FamilyInv'
    <2>1. /\ Exists(t) /\ token' = [token EXCEPT ![t] = None]
          /\ \A d \in Calls : ~Claims(d, t)
          /\ UNCHANGED <<minted, lock, call, latest, ended>>
      BY <1>16 DEF Prune
    <2>2. Below(token')  BY <1>t, <2>1 DEF Below
    <2>3. Commits(None)  BY <2>1 DEF Commits, SameWork
    <2>4. \A d \in Calls \ {None} : call[d].pc \in {"claimed", "admitted"} =>
              call[d].token \in Live'
      <3>1. \A d \in Calls : call[d].pc \in {"claimed", "admitted"} =>
                call[d].token \in Live /\ call[d].token /= t
        BY <1>k, <2>1 DEF Claims
      <3> QED  BY <1>t, <2>1, <3>1 DEF Live, Unrevoked, Exists
    <2>5. ASSUME NEW u \in Unrevoked' PROVE token'[u].family \notin ended'
      BY <2>1, <2>2 DEF Below, Unrevoked, Exists, FamilyInv, FamilyEnds
    <2>6. \A f \in ended' : f <= minted  BY <2>1 DEF FamilyInv, NumberInv
    <2> QED  BY <1>o, <2>1, <2>2, <2>3, <2>4, <2>5, <2>6, RestStep
  <1> QED
    BY <1>1, <1>2, <1>3, <1>4, <1>5, <1>6, <1>7, <1>8, <1>9, <1>10, <1>11, <1>12, <1>13, <1>14,
       <1>15, <1>16 DEF Next, Step

\* Nothing is minted, held or ended at first.
LEMMA FamilyInit == Init => FamilyInv
  <1> SUFFICES ASSUME Init PROVE FamilyInv
    OBVIOUS
  <1> USE SessionsAssumption
  <1>1. TypeOK
    <2>1. Idle \in Call  BY DEF Idle, Call, Tokens, Passwords
    <2> QED  BY <2>1 DEF Init, TypeOK, Passwords
  <1>2. \A c \in Calls : call[c].pc = "idle"  BY DEF Init, Idle
  <1>3. Unrevoked = {} /\ \A t \in Tokens : ~Exists(t)  BY DEF Init, Unrevoked, Exists
  <1>4. UpdateInv /\ NumberInv /\ LockInv /\ ClaimInv /\ RevokeInv
    BY <1>2, <1>3 DEF Init, UpdateInv, NumberInv, LockInv, ClaimInv, RevokeInv, Families
  <1>5. OneLive /\ FamilyEnds  BY <1>3 DEF OneLive, FamilyEnds, Live
  <1> QED  BY <1>1, <1>4, <1>5 DEF FamilyInv

\* The inductive invariant about families holds in every state.
THEOREM FamilyHolds == Spec => []FamilyInv
  BY FamilyInit, FamilyStep, PTL DEF Spec

\* Every variable keeps its type, whatever calls there are.
THEOREM TypeCorrect == Spec => []TypeOK
  <1>1. FamilyInv => TypeOK  BY DEF FamilyInv
  <1> QED  BY <1>1, FamilyHolds, PTL

\* However many calls present a token at once, refresh gives it one successor: a
\* family has at most one token that can be exchanged.
THEOREM OneSuccessor == Spec => []OneLive
  <1>1. FamilyInv => OneLive  BY DEF FamilyInv
  <1> QED  BY <1>1, FamilyHolds, PTL

\* What revokeFamily has ended stays ended: no rotation under way leaves a token
\* of the family behind.
THEOREM EndedStaysEnded == Spec => []FamilyEnds
  <1>1. FamilyInv => FamilyEnds  BY DEF FamilyInv
  <1> QED  BY <1>1, FamilyHolds, PTL

-----------------------------------------------------------------------------
(* Password changes *)

\* The latest password and the hashes, as a step leaves them: rows and calls keep
\* what they rest on, and a call that goes on to be signed in rests on the
\* password as it is.
LEMMA KeepStep ==
    ASSUME ChangeInv, TypeOK', latest' = latest, user'.password = user.password,
           user'.weak => user.weak,
           \A t \in Unrevoked' :
               \/ t \in Unrevoked /\ token'[t].password = token[t].password
                                  /\ token'[t].raced = token[t].raced
               \/ user.password = latest => token'[t].password = latest \/ token'[t].raced,
           \A c \in Calls : call'[c].pc \in {"rehash", "verified", "challenged", "proved"} =>
               /\ user.password = latest => call'[c].password = latest \/ call'[c].raced
               /\ call'[c].pc = "rehash" => call'[c].password = 0
    PROVE  ChangeInv'
  BY DEF ChangeInv, HashInv, VerifiedInv, SessionsEnd

\* Each action keeps the invariant about passwords.
LEMMA ChangeStep == FamilyInv /\ ChangeInv /\ [Next]_vars => ChangeInv'
  <1> SUFFICES ASSUME FamilyInv, ChangeInv, [Next]_vars PROVE ChangeInv'
    OBVIOUS
  <1> USE SessionsAssumption
  <1> DEFINE SigningIn == {"rehash", "verified", "challenged", "proved"}
  <1>o. TypeOK /\ TypeOK'  BY TypeStep DEF FamilyInv
  <1>t. /\ token \in [Tokens -> Row \cup {None}] /\ call \in [Calls -> Call]
        /\ user \in [password : Passwords, weak : BOOLEAN, disabled : BOOLEAN]
        /\ latest \in Nat /\ minted \in Nat
    BY <1>o DEF TypeOK, Passwords
  <1>h. /\ user.weak => user.password = 0
        /\ latest = 0 => user.password = 0
        /\ \A c \in Calls : call[c].pc = "rehash" => call[c].password = 0
    BY DEF ChangeInv, HashInv
  <1>v. \A d \in Calls : call[d].pc \in SigningIn =>
            /\ user.password = latest => call[d].password = latest \/ call[d].raced
            /\ call[d].pc = "rehash" => call[d].password = 0
    BY DEF ChangeInv, VerifiedInv, HashInv
  <1>s. \A t \in Unrevoked : user.password = latest => token[t].password = latest \/ token[t].raced
    BY DEF ChangeInv, SessionsEnd
  \* A step of one call on rows it leaves alone.
  <1>q. ASSUME NEW c \in Calls, UNCHANGED <<user, latest>>,
               \A d \in Calls \ {c} : call'[d] = call[d],
               call'[c].pc \in SigningIn =>
                   /\ user.password = latest => call'[c].password = latest \/ call'[c].raced
                   /\ call'[c].pc = "rehash" => call'[c].password = 0,
               \A t \in Unrevoked' :
                   \/ t \in Unrevoked /\ token'[t].password = token[t].password
                                      /\ token'[t].raced = token[t].raced
                   \/ user.password = latest => token'[t].password = latest \/ token'[t].raced
        PROVE  ChangeInv'
    <2>1. \A d \in Calls : call'[d].pc \in SigningIn =>
              /\ user.password = latest => call'[d].password = latest \/ call'[d].raced
              /\ call'[d].pc = "rehash" => call'[d].password = 0
      BY <1>q, <1>v
    <2> QED  BY <1>o, <1>q, <2>1, KeepStep
  <1>u. ASSUME token' = token
        PROVE  \A t \in Unrevoked' : t \in Unrevoked /\ token'[t].password = token[t].password
                                                     /\ token'[t].raced = token[t].raced
    BY <1>u DEF Unrevoked, Exists
  <1>1. ASSUME NEW c \in Calls, Login(c) PROVE ChangeInv'
    <2>1. PICK pc \in {"rehash", "verified"} :
             /\ call' = [call EXCEPT ![c] = [Start(pc) EXCEPT !.password = user.password]]
             /\ pc = "rehash" => user.weak
      BY <1>1 DEF Login
    <2>2. call'[c].pc = pc /\ call'[c].password = user.password
      BY <1>t, <2>1 DEF Start, Idle
    <2>3. UNCHANGED <<user, token, latest>> /\ \A d \in Calls \ {c} : call'[d] = call[d]
      BY <1>1, <1>t, <2>1 DEF Login
    <2> QED  BY <1>h, <1>q, <1>u, <2>1, <2>2, <2>3
  <1>2. ASSUME NEW c \in Calls, Rehash(c) PROVE ChangeInv'
    <2>1. /\ call[c].pc = "rehash" /\ call[c].password = 0
          /\ UNCHANGED <<token, latest>>
          /\ \A d \in Calls \ {c} : call'[d] = call[d]
      BY <1>2, <1>h, <1>t DEF Rehash, Goto
    <2>2. /\ call'[c].pc = "verified" /\ call'[c].password = call[c].password
          /\ call'[c].raced = call[c].raced
      BY <1>2, <1>t DEF Rehash, Goto, Call
    <2>3. CASE UNCHANGED user  BY <1>q, <1>u, <1>v, <2>1, <2>2, <2>3
    <2>4. CASE user' = [user EXCEPT !.password = call[c].password, !.weak = FALSE]
      <3>1. user'.password = 0 /\ ~user'.weak  BY <1>t, <2>1, <2>4
      <3>2. \A d \in Calls : call'[d].pc = "rehash" => call'[d].password = 0
        BY <1>h, <2>1, <2>2
      <3>3. CASE latest = 0
        <4>1. user'.password = user.password  BY <1>h, <3>1, <3>3
        <4>2. \A d \in Calls : call'[d].pc \in SigningIn =>
                  /\ user.password = latest => call'[d].password = latest \/ call'[d].raced
                  /\ call'[d].pc = "rehash" => call'[d].password = 0
          BY <1>v, <2>1, <2>2
        <4> QED  BY <1>o, <1>u, <2>1, <3>1, <4>1, <4>2, KeepStep
      <3>4. CASE latest /= 0
        BY <1>o, <2>1, <3>1, <3>2, <3>4 DEF ChangeInv, HashInv, VerifiedInv, SessionsEnd
      <3> QED  BY <3>3, <3>4
    <2> QED  BY <1>2, <2>3, <2>4 DEF Rehash
  <1>3. ASSUME NEW c \in Calls, Challenge(c) \/ CompleteSecondFactor(c) PROVE ChangeInv'
    <2>1. /\ UNCHANGED <<user, token, latest>> /\ \A d \in Calls \ {c} : call'[d] = call[d]
          /\ call'[c].pc \in {"challenged", "proved"} /\ call[c].pc \in SigningIn
          /\ call'[c].password = call[c].password /\ call'[c].raced = call[c].raced
      BY <1>3, <1>t DEF Challenge, CompleteSecondFactor, Goto, Call
    <2> QED  BY <1>q, <1>u, <1>v, <2>1
  <1>4. ASSUME NEW c \in Calls, UNCHANGED <<user, token, latest>>,
               \A d \in Calls \ {c} : call'[d] = call[d], call'[c].pc \notin SigningIn
        PROVE  ChangeInv'
    BY <1>q, <1>u, <1>4
  <1>5. ASSUME NEW c \in Calls, NEW t \in Tokens,
               Refresh(c, t) \/ Logout(c, t)
        PROVE  ChangeInv'
    <2>1. UNCHANGED <<user, token, latest>> /\ \A d \in Calls \ {c} : call'[d] = call[d]
      BY <1>5, <1>t DEF Refresh, Logout
    <2>2. CASE Refresh(c, t)
      <3>1. call'[c].pc = "read"  BY <1>t, <2>2 DEF Refresh, Start, Idle
      <3> QED  BY <1>4, <2>1, <3>1
    <2>3. CASE Logout(c, t)
      <3>1. call'[c].pc = "ending"  BY <1>t, <2>3 DEF Logout, Ending, Idle
      <3> QED  BY <1>4, <2>1, <3>1
    <2> QED  BY <1>5, <2>2, <2>3
  <1>6. ASSUME NEW c \in Calls,
               Claim(c) \/ Lose(c) \/ RevokeBegin(c) \/ UpdateTokens(c) \/ Crash(c)
        PROVE  ChangeInv'
    <2>1. UNCHANGED <<user, token, latest>> /\ \A d \in Calls \ {c} : call'[d] = call[d]
      BY <1>6, <1>t DEF Claim, Lose, RevokeBegin, UpdateTokens, Crash, Goto, Answer
    <2>2. CASE Claim(c) \/ RevokeBegin(c) \/ UpdateTokens(c)
      <3>1. call'[c].pc \in {"claimed", "revoking", "updating"}
        BY <1>t, <2>2 DEF Claim, RevokeBegin, UpdateTokens, Goto, Call
      <3> QED  BY <1>4, <2>1, <3>1
    <2>3. CASE Lose(c) \/ Crash(c)
      <3>1. call'[c] \in {Ending(call[c].family), Idle}  BY <1>t, <2>3 DEF Lose, Crash, Answer
      <3>2. call'[c].pc \in {"ending", "idle"}
        <4>1. Ending(call[c].family).pc = "ending" /\ Idle.pc = "idle"  BY DEF Ending, Idle
        <4> QED  BY <3>1, <4>1
      <3> QED  BY <1>4, <2>1, <3>2
    <2> QED  BY <1>6, <2>2, <2>3
  <1>7. ASSUME NEW c \in Calls, ChangePassword(c) \/ ResetPassword(c) PROVE ChangeInv'
    <2>1. UNCHANGED <<user, token, latest>> /\ \A d \in Calls \ {c} : call'[d] = call[d]
      BY <1>7, <1>t DEF ChangePassword, ResetPassword
    <2>2. call'[c].pc = "hashed"
      <3>1. CASE ChangePassword(c)  BY <1>t, <3>1 DEF ChangePassword, Start, Idle
      <3>2. CASE ResetPassword(c)  BY <1>t, <3>2 DEF ResetPassword, Idle
      <3> QED  BY <1>7, <3>1, <3>2
    <2> QED  BY <1>4, <2>1, <2>2

  <1>8. ASSUME NEW c \in Calls, LoginIssue(c) PROVE ChangeInv'
    <2>1. /\ UNCHANGED <<user, latest>> /\ \A d \in Calls \ {c} : call'[d] = call[d]
          /\ call'[c].pc = "idle" /\ call[c].pc \in SigningIn
      BY <1>8, <1>t DEF LoginIssue, Answer, Idle
    <2>2. CASE UNCHANGED token  BY <1>4, <2>1, <2>2
    <2>3. CASE minted < MaxTokens /\ token' = Minted(token, None, call[c].password, call[c].raced)
      <3>1. minted + 1 \in Tokens  BY <1>t, <2>3 DEF Tokens
      <3>2. /\ \A t \in Tokens \ {minted + 1} : token'[t] = token[t]
            /\ token'[minted + 1].password = call[c].password
            /\ token'[minted + 1].raced = call[c].raced
        BY <1>t, <2>3, <3>1 DEF Minted
      <3>3. \A t \in Unrevoked' :
                \/ t \in Unrevoked /\ token'[t].password = token[t].password
                                   /\ token'[t].raced = token[t].raced
                \/ user.password = latest => token'[t].password = latest \/ token'[t].raced
        BY <1>v, <2>1, <3>2 DEF Unrevoked, Exists
      <3> QED  BY <1>q, <2>1, <3>3
    <2> QED  BY <1>8, <2>2, <2>3 DEF LoginIssue
  <1>k. ASSUME NEW c \in Calls, call[c].pc \in {"claimed", "admitted"}
        PROVE  /\ call[c].token \in Unrevoked /\ call[c].token \in Tokens
               /\ token[call[c].token] \in Row
    <2>1. call[c].token \in Live  BY <1>k DEF FamilyInv, ClaimInv
    <2> QED  BY <1>t, <2>1 DEF Live, Unrevoked, Exists
  <1>p. ASSUME NEW c \in Calls, call[c].pc \in {"claimed", "admitted"}
        PROVE  \A t \in Tokens :
                  LET rows == Spent(token, call[c].token) IN
                  rows[t] /= None /\ ~rows[t].revoked =>
                      t \in Unrevoked /\ rows[t].password = token[t].password
                                      /\ rows[t].raced = token[t].raced
    BY <1>t, <1>k, <1>p, NoneIsNoRow DEF Spent, Unrevoked, Exists, Row
  <1>9. ASSUME NEW c \in Calls, ReadUser(c) PROVE ChangeInv'
    <2>1. CASE ~user.disabled
      <3>1. call' = [call EXCEPT ![c].pc = "admitted"] /\ UNCHANGED <<user, token, latest>>
        BY <1>9, <2>1 DEF ReadUser, Goto
      <3>2. (\A d \in Calls \ {c} : call'[d] = call[d]) /\ call'[c].pc = "admitted"
        BY <1>t, <3>1 DEF Call
      <3> QED  BY <1>4, <3>1, <3>2
    <2>2. CASE user.disabled
      <3>1. /\ call[c].pc = "claimed" /\ token' = Spent(token, call[c].token)
            /\ call' = [call EXCEPT ![c] = Ending(call[c].family)]
            /\ UNCHANGED <<user, latest>>
        BY <1>9, <2>2 DEF ReadUser
      <3>2. (\A d \in Calls \ {c} : call'[d] = call[d]) /\ call'[c].pc = "ending"
        BY <1>t, <3>1 DEF Ending, Idle
      <3>3. \A t \in Unrevoked' : t \in Unrevoked /\ token'[t].password = token[t].password
                                                  /\ token'[t].raced = token[t].raced
        BY <1>p, <3>1 DEF Unrevoked, Exists
      <3> QED  BY <1>q, <3>1, <3>2, <3>3
    <2> QED  BY <2>1, <2>2
  <1>10. ASSUME NEW c \in Calls, RefreshIssue(c) PROVE ChangeInv'
    <2> DEFINE t == call[c].token
               rows == Spent(token, t)
               raced == token[t].raced \/ call[c].raced
    <2>1. call[c].pc = "admitted" /\ UNCHANGED <<user, latest>>  BY <1>10 DEF RefreshIssue
    <2>2. t \in Tokens /\ t \in Unrevoked /\ token[t] \in Row  BY <1>k, <2>1
    <2>3. user.password = latest => token[t].password = latest \/ raced  BY <1>s, <2>2
    <2>4. \A u \in Tokens : rows[u] /= None /\ ~rows[u].revoked =>
              u \in Unrevoked /\ rows[u].password = token[u].password /\ rows[u].raced = token[u].raced
      BY <1>p, <2>1
    <2>5. rows \in [Tokens -> Row \cup {None}]
      BY <1>o, <1>t, <2>2, Rows DEF Unrevoked, Exists
    <2>6. CASE /\ minted < MaxTokens
               /\ token' = Minted(rows, token[t].family, token[t].password, raced)
               /\ Answer(c)
      <3>1. (\A d \in Calls \ {c} : call'[d] = call[d]) /\ call'[c].pc = "idle"
        BY <1>t, <2>6 DEF Answer, Idle
      <3> HIDE DEF rows, raced
      <3>2. minted + 1 \in Tokens  BY <1>t, <2>6 DEF Tokens
      <3>3. /\ \A u \in Tokens \ {minted + 1} : token'[u] = rows[u]
            /\ token'[minted + 1].password = token[t].password
            /\ token'[minted + 1].raced = raced
        BY <2>5, <2>6, <3>2 DEF Minted
      <3>4. \A u \in Unrevoked' :
                \/ u \in Unrevoked /\ token'[u].password = token[u].password
                                   /\ token'[u].raced = token[u].raced
                \/ user.password = latest => token'[u].password = latest \/ token'[u].raced
        BY <2>3, <2>4, <3>3 DEF Unrevoked, Exists
      <3> QED  BY <1>q, <2>1, <3>1, <3>4
    <2>7. CASE /\ token' = rows
               /\ call' \in {[call EXCEPT ![c] = Idle],
                            [call EXCEPT ![c] = Challenged(token[t].password, raced)]}
      <3> HIDE DEF rows, raced
      <3>1. \A u \in Unrevoked' : u \in Unrevoked /\ token'[u].password = token[u].password
                                                  /\ token'[u].raced = token[u].raced
        BY <2>4, <2>7 DEF Unrevoked, Exists
      <3>2. CASE call' = [call EXCEPT ![c] = Idle]
        <4>1. (\A d \in Calls \ {c} : call'[d] = call[d]) /\ call'[c].pc = "idle"
          BY <1>t, <3>2 DEF Idle
        <4> QED  BY <1>q, <2>1, <3>1, <4>1
      <3>3. CASE call' = [call EXCEPT ![c] = Challenged(token[t].password, raced)]
        <4>1. /\ \A d \in Calls \ {c} : call'[d] = call[d]
              /\ call'[c] = Challenged(token[t].password, raced)
          BY <1>t, <3>3
        <4>2. /\ call'[c].pc = "challenged" /\ call'[c].password = token[t].password
              /\ call'[c].raced = raced
          BY <4>1 DEF Challenged, Idle
        <4> QED  BY <1>q, <2>1, <2>3, <3>1, <4>1, <4>2
      <3> QED  BY <2>7, <3>2, <3>3
    <2> QED  BY <1>10, <2>6, <2>7 DEF RefreshIssue
  <1>11. ASSUME NEW c \in Calls, RevokeCommit(c) PROVE ChangeInv'
    <2>1. /\ UNCHANGED <<user, latest>> /\ \A d \in Calls \ {c} : call'[d] = call[d]
          /\ call'[c].pc = "idle" /\ token' = Revoked(token, call[c].found)
      BY <1>11, <1>t DEF RevokeCommit, Answer, Idle
    <2>2. \A t \in Unrevoked' : t \in Unrevoked /\ token'[t].password = token[t].password
                                                /\ token'[t].raced = token[t].raced
      BY <1>t, <2>1 DEF Revoked, Unrevoked, Exists, Row
    <2> QED  BY <1>q, <2>1, <2>2

  <1>12. ASSUME NEW c \in Calls, UpdateCommit(c) PROVE ChangeInv'
    <2> DEFINE rows == Revoked(Overlapped(c), Superseded(c))
               others == [d \in Calls |->
                             IF call[d].pc \in PastChecks THEN [call[d] EXCEPT !.raced = TRUE]
                             ELSE call[d]]
    <2>1. /\ latest' = latest + 1
          /\ user' = [user EXCEPT !.password = latest + 1, !.weak = FALSE]
      BY <1>12 DEF UpdateCommit
    <2>2. user'.password = latest' /\ ~user'.weak /\ latest' /= 0  BY <1>t, <2>1
    <2>3. ASSUME NEW t \in Tokens, rows[t] /= None, ~rows[t].revoked PROVE rows[t].raced
      <3>1. t \notin call[c].found
        <4>1. PICK r : r = Overlapped(c)[t]  OBVIOUS
        <4>2. r \in Row \cup {None}  BY <1>t, <4>1 DEF Overlapped, Unrevoked, Exists, Row
        <4> QED  BY <2>3, <4>1, <4>2 DEF Revoked, Superseded, Row
      <3>2. rows[t] = Overlapped(c)[t]  BY <3>1 DEF Revoked, Superseded
      <3>3. t \in Unrevoked
        BY <1>t, <2>3, <3>2 DEF Overlapped, Unrevoked, Exists
      <3>4. Overlapped(c)[t] = [token[t] EXCEPT !.raced = TRUE]  BY <3>1, <3>3 DEF Overlapped
      <3>5. token[t] \in Row  BY <1>t, <3>3 DEF Unrevoked, Exists
      <3> QED  BY <3>2, <3>4, <3>5 DEF Row
    <2>4. \A d \in Calls : others[d].pc \in SigningIn => others[d].raced /\
              (others[d].pc = "rehash" => others[d].password = 0)
      BY <1>t, <1>h DEF PastChecks, Call
    <2>5. rows \in [Tokens -> Row \cup {None}]
      <3>1. Overlapped(c) \in [Tokens -> Row \cup {None}]
        BY <1>t DEF Overlapped, Unrevoked, Exists, Row
      <3>2. Superseded(c) \in SUBSET Tokens  BY <1>t DEF Superseded, Call
      <3> QED  BY <1>o, <3>1, <3>2, Rows
    <2>6. ASSUME \A t \in Tokens : token'[t] /= None /\ ~token'[t].revoked =>
                     token'[t].password = latest' \/ token'[t].raced,
                 NEW r, call' = [others EXCEPT ![c] = r],
                 r.pc \in SigningIn => r.pc = "challenged" /\ r.password = latest'
          PROVE  ChangeInv'
      <3>1. \A d \in Calls : call'[d].pc \in SigningIn =>
                /\ call'[d].password = latest' \/ call'[d].raced
                /\ call'[d].pc = "rehash" => call'[d].password = 0
        <4>1. call'[c] = r /\ \A d \in Calls \ {c} : call'[d] = others[d]  BY <2>6
        <4> HIDE DEF others
        <4> QED  BY <2>4, <2>6, <4>1
      <3>2. HashInv'  BY <2>2, <3>1 DEF HashInv
      <3>3. VerifiedInv'  BY <3>1 DEF VerifiedInv
      <3>4. SessionsEnd'  BY <2>6 DEF SessionsEnd, Unrevoked, Exists
      <3> QED  BY <1>o, <3>2, <3>3, <3>4 DEF ChangeInv
    <2>i. Idle.pc \notin SigningIn  BY DEF Idle
    <2>7. CASE /\ minted < MaxTokens
               /\ token' = Minted(rows, None, latest + 1, FALSE)
               /\ call' = [others EXCEPT ![c] = Idle]
      <3>1. \A t \in Tokens : token'[t] /= None /\ ~token'[t].revoked =>
                token'[t].password = latest' \/ token'[t].raced
        <4> HIDE DEF rows
        <4>1. minted + 1 \in Tokens  BY <1>t, <2>7 DEF Tokens
        <4>2. /\ \A u \in Tokens \ {minted + 1} : token'[u] = rows[u]
              /\ token'[minted + 1].password = latest + 1
          BY <2>5, <2>7, <4>1 DEF Minted
        <4> QED  BY <2>1, <2>3, <4>2
      <3> QED  BY <2>6, <2>7, <2>i, <3>1
    <2>8. CASE /\ token' = rows
               /\ \/ call' = [others EXCEPT ![c] = Idle]
                  \/ call' = [others EXCEPT ![c] = Challenged(latest + 1, FALSE)]
      <3>1. \A t \in Tokens : token'[t] /= None /\ ~token'[t].revoked =>
                token'[t].password = latest' \/ token'[t].raced
        <4> HIDE DEF rows
        <4> QED  BY <2>3, <2>8
      <3>2. /\ Challenged(latest + 1, FALSE).pc = "challenged"
            /\ Challenged(latest + 1, FALSE).password = latest'
        BY <2>1 DEF Challenged, Idle
      <3> QED  BY <2>6, <2>8, <2>i, <3>1, <3>2
    <2> QED  BY <1>12, <2>7, <2>8 DEF UpdateCommit
  <1>13. ASSUME NEW disabled \in BOOLEAN, SetDisabled(disabled) PROVE ChangeInv'
    <2>1. /\ user'.password = user.password /\ user'.weak = user.weak
          /\ UNCHANGED <<token, latest>>
      BY <1>13, <1>t DEF SetDisabled
    <2>2. \A d \in Calls : /\ call'[d].pc = call[d].pc /\ call'[d].password = call[d].password
                           /\ call'[d].raced = call[d].raced
      BY <1>13, <1>t DEF SetDisabled, Call
    <2> QED  BY <1>o, <1>u, <1>v, <2>1, <2>2, KeepStep
  <1>14. ASSUME NEW t \in Tokens, Prune(t) PROVE ChangeInv'
    <2>1. UNCHANGED <<user, call, latest>> /\ token' = [token EXCEPT ![t] = None]
      BY <1>14 DEF Prune
    <2>2. \A u \in Unrevoked' : u \in Unrevoked /\ token'[u].password = token[u].password
                                                /\ token'[u].raced = token[u].raced
      BY <1>t, <2>1 DEF Unrevoked, Exists
    <2> QED  BY <1>o, <1>v, <2>1, <2>2, KeepStep
  <1>15. CASE UNCHANGED vars
    BY <1>o, <1>u, <1>v, <1>15, KeepStep DEF vars
  <1> QED
    BY <1>1, <1>2, <1>3, <1>5, <1>6, <1>7, <1>8, <1>9, <1>10, <1>11, <1>12, <1>13, <1>14, <1>15
    DEF Next, Step

\* A session that rests on a replaced password is over, unless the call that made
\* it overlapped the change or a sign-in restored the old hash.
THEOREM ChangeEndsSessions == Spec => []SessionsEnd
  <1>1. Init => ChangeInv
    <2> SUFFICES ASSUME Init PROVE ChangeInv
      OBVIOUS
    <2>1. TypeOK  BY FamilyInit DEF FamilyInv
    <2>2. \A c \in Calls : call[c].pc = "idle"  BY DEF Init, Idle
    <2>3. Unrevoked = {}  BY DEF Init, Unrevoked, Exists
    <2> QED  BY <2>1, <2>2, <2>3 DEF Init, ChangeInv, HashInv, VerifiedInv, SessionsEnd
  <1>2. ChangeInv => SessionsEnd  BY DEF ChangeInv
  <1> QED  BY <1>1, <1>2, FamilyHolds, ChangeStep, PTL DEF Spec

-----------------------------------------------------------------------------
(* Disabled accounts *)

\* Each action keeps what enabled remembers.
LEMMA EnabledStep == FamilyInv /\ EnabledInv /\ [Next]_vars => EnabledInv'
  <1> SUFFICES ASSUME FamilyInv, EnabledInv, [Next]_vars PROVE EnabledInv'
    OBVIOUS
  <1> USE SessionsAssumption DEF PastChecks
  <1>t. /\ call \in [Calls -> Call]
        /\ user \in [password : Passwords, weak : BOOLEAN, disabled : BOOLEAN]
    BY DEF FamilyInv, TypeOK
  <1>i. Idle.pc = "idle" /\ Idle.owner = FALSE  BY DEF Idle
  \* A step of one call that leaves the account enabled or disabled.
  <1>q. ASSUME NEW c \in Calls, user'.disabled = user.disabled,
               \A d \in Calls \ {c} : /\ call'[d].pc = call[d].pc /\ call'[d].owner = call[d].owner
                                      /\ call'[d].enabled = call[d].enabled,
               call'[c].pc \in PastChecks \cup {"read"} /\ ~user.disabled => call'[c].enabled,
               call'[c].pc \in {"rehash", "verified", "proved", "admitted"} => call'[c].enabled,
               call'[c].owner => call'[c].enabled
        PROVE  EnabledInv'
    BY <1>q DEF EnabledInv
  <1>1. ASSUME NEW c \in Calls, Login(c) PROVE EnabledInv'
    <2>1. PICK pc \in {"rehash", "verified"} :
             call' = [call EXCEPT ![c] = [Start(pc) EXCEPT !.password = user.password]]
      BY <1>1 DEF Login
    <2>2. ~user.disabled /\ UNCHANGED user  BY <1>1 DEF Login
    <2>3. call'[c].enabled = (~user.disabled)  BY <1>t, <2>1 DEF Start, Idle
    <2>4. \A d \in Calls \ {c} : call'[d] = call[d]  BY <1>t, <2>1
    <2> QED  BY <1>q, <2>2, <2>3, <2>4
  <1>2. ASSUME NEW c \in Calls, Rehash(c) PROVE EnabledInv'
    <2>1. user'.disabled = user.disabled  BY <1>2, <1>t DEF Rehash
    <2>2. /\ \A d \in Calls \ {c} : call'[d] = call[d]
          /\ call'[c].enabled = call[c].enabled /\ call[c].pc = "rehash"
      BY <1>2, <1>t DEF Rehash, Goto, Call
    <2>3. call[c].enabled  BY <2>2 DEF EnabledInv
    <2> QED  BY <1>q, <2>1, <2>2, <2>3
  <1>3. ASSUME NEW c \in Calls, Challenge(c) PROVE EnabledInv'
    <2>1. /\ \A d \in Calls \ {c} : call'[d] = call[d] /\ UNCHANGED user
          /\ call'[c].enabled = call[c].enabled /\ call[c].pc = "verified"
      BY <1>3, <1>t DEF Challenge, Goto, Call
    <2>2. call[c].enabled /\ user' = user  BY <1>3, <2>1 DEF EnabledInv, Challenge
    <2> QED  BY <1>q, <2>1, <2>2
  <1>4. ASSUME NEW c \in Calls, CompleteSecondFactor(c) PROVE EnabledInv'
    <2>1. /\ \A d \in Calls \ {c} : call'[d] = call[d]
          /\ call'[c].enabled = (~user.disabled) /\ ~user.disabled /\ user' = user
      BY <1>4, <1>t DEF CompleteSecondFactor, Call
    <2> QED  BY <1>q, <2>1
  \* A call that is done, or turns to ending a family.
  <1>5. ASSUME NEW c \in Calls, user'.disabled = user.disabled,
               \A d \in Calls \ {c} : call'[d] = call[d],
               call'[c] = Idle \/ \E f : call'[c] = Ending(f)
        PROVE  EnabledInv'
    <2>1. call'[c].pc \in {"idle", "ending"} /\ ~call'[c].owner
      BY <1>5, <1>i DEF Ending, Idle
    <2> QED  BY <1>5, <1>q, <2>1
  <1>6. ASSUME NEW c \in Calls,
               \/ LoginIssue(c) \/ Lose(c) \/ RevokeCommit(c) \/ Crash(c)
               \/ \E t \in Tokens : Logout(c, t)
        PROVE  EnabledInv'
    <2>1. (\A d \in Calls \ {c} : call'[d] = call[d]) /\ user' = user
      BY <1>6, <1>t DEF LoginIssue, Lose, RevokeCommit, Crash, Logout, Answer
    <2>2. call'[c] = Idle \/ \E f : call'[c] = Ending(f)
      BY <1>6, <1>t DEF LoginIssue, Lose, RevokeCommit, Crash, Logout, Answer
    <2> QED  BY <1>5, <2>1, <2>2
  <1>7. ASSUME NEW c \in Calls, NEW t \in Tokens, Refresh(c, t) PROVE EnabledInv'
    <2>1. /\ \A d \in Calls \ {c} : call'[d] = call[d]
          /\ call'[c] = [Start("read") EXCEPT !.token = t, !.family = token[t].family]
          /\ user' = user
      BY <1>7, <1>t DEF Refresh
    <2>2. call'[c].pc = "read" /\ call'[c].enabled = (~user.disabled) /\ call'[c].owner = FALSE
      BY <2>1 DEF Start, Idle
    <2> QED  BY <1>q, <2>1, <2>2
  <1>8. ASSUME NEW c \in Calls, Claim(c) \/ RevokeBegin(c) \/ UpdateTokens(c) PROVE EnabledInv'
    <2>1. /\ \A d \in Calls \ {c} : call'[d] = call[d]
          /\ call'[c].enabled = call[c].enabled /\ call'[c].owner = call[c].owner
          /\ call'[c].pc \in {"claimed", "revoking", "updating"}
          /\ call'[c].pc = "claimed" => call[c].pc = "read"
          /\ user' = user
      BY <1>8, <1>t DEF Claim, RevokeBegin, UpdateTokens, Goto, Call
    <2>2. call'[c].pc = "claimed" /\ ~user.disabled => call'[c].enabled  BY <2>1 DEF EnabledInv
    <2>3. call'[c].owner => call'[c].enabled  BY <2>1 DEF EnabledInv
    <2> QED  BY <1>q, <2>1, <2>2, <2>3
  <1>9. ASSUME NEW c \in Calls, ReadUser(c) PROVE EnabledInv'
    <2>1. CASE ~user.disabled
      <3>1. call' = [call EXCEPT ![c].pc = "admitted"] /\ user' = user /\ call[c].pc = "claimed"
        BY <1>9, <2>1 DEF ReadUser, Goto
      <3>2. /\ \A d \in Calls \ {c} : call'[d] = call[d]
            /\ call'[c].enabled = call[c].enabled /\ call'[c].owner = call[c].owner
        BY <1>t, <3>1 DEF Call
      <3>3. call[c].enabled  BY <2>1, <3>1 DEF EnabledInv
      <3> QED  BY <1>q, <3>1, <3>2, <3>3
    <2>2. CASE user.disabled
      <3>1. call' = [call EXCEPT ![c] = Ending(call[c].family)] /\ user' = user
        BY <1>9, <2>2 DEF ReadUser
      <3> QED  BY <1>t, <1>5, <3>1
    <2> QED  BY <2>1, <2>2
  <1>c. ASSUME NEW p, NEW raced
        PROVE  /\ Challenged(p, raced).pc = "challenged" /\ Challenged(p, raced).owner = FALSE
               /\ Challenged(p, raced).enabled = (~user.disabled)
    BY DEF Challenged, Idle
  <1>10. ASSUME NEW c \in Calls, RefreshIssue(c) PROVE EnabledInv'
    <2>1. user' = user  BY <1>10 DEF RefreshIssue
    <2>2. PICK p, raced : call' \in {[call EXCEPT ![c] = Idle], [call EXCEPT ![c] = Challenged(p, raced)]}
      BY <1>10 DEF RefreshIssue, Answer
    <2>3. CASE call' = [call EXCEPT ![c] = Idle]  BY <1>t, <1>5, <2>1, <2>3
    <2>4. CASE call' = [call EXCEPT ![c] = Challenged(p, raced)]
      <3>1. (\A d \in Calls \ {c} : call'[d] = call[d]) /\ call'[c] = Challenged(p, raced)
        BY <1>t, <2>4
      <3>2. /\ call'[c].pc = "challenged" /\ call'[c].owner = FALSE
            /\ call'[c].enabled = (~user.disabled)
        BY <1>c, <3>1
      <3> QED  BY <1>q, <2>1, <3>1, <3>2
    <2> QED  BY <2>2, <2>3, <2>4
  <1>11. ASSUME NEW c \in Calls, ChangePassword(c) PROVE EnabledInv'
    <2>1. /\ \A d \in Calls \ {c} : call'[d] = call[d]
          /\ call'[c] = [Start("hashed") EXCEPT !.owner = TRUE]
          /\ user' = user /\ ~user.disabled
      BY <1>11, <1>t DEF ChangePassword
    <2>2. call'[c].pc = "hashed" /\ call'[c].enabled = (~user.disabled)  BY <2>1 DEF Start, Idle
    <2> QED  BY <1>q, <2>1, <2>2
  <1>12. ASSUME NEW c \in Calls, ResetPassword(c) PROVE EnabledInv'
    <2>1. /\ \A d \in Calls \ {c} : call'[d] = call[d]
          /\ call'[c] = [Idle EXCEPT !.pc = "hashed"] /\ user' = user
      BY <1>12, <1>t DEF ResetPassword
    <2>2. call'[c].pc = "hashed" /\ call'[c].owner = FALSE  BY <2>1 DEF Idle
    <2> QED  BY <1>q, <2>1, <2>2
  <1>13. ASSUME NEW c \in Calls, UpdateCommit(c) PROVE EnabledInv'
    <2> DEFINE others == [d \in Calls |->
                             IF call[d].pc \in PastChecks THEN [call[d] EXCEPT !.raced = TRUE]
                             ELSE call[d]]
    <2>1. user'.disabled = user.disabled  BY <1>13, <1>t DEF UpdateCommit
    <2>2. PICK p, raced : call' \in {[others EXCEPT ![c] = Idle], [others EXCEPT ![c] = Challenged(p, raced)]}
      BY <1>13 DEF UpdateCommit
    <2>3. \A d \in Calls : /\ others[d].pc = call[d].pc /\ others[d].owner = call[d].owner
                           /\ others[d].enabled = call[d].enabled
      BY <1>t DEF Call
    <2>4. \A d \in Calls \ {c} : call'[d] = others[d]  BY <2>2
    <2>5. call'[c] \in {Idle, Challenged(p, raced)}  BY <2>2
    <2> HIDE DEF others
    <2>6. \A d \in Calls \ {c} : /\ call'[d].pc = call[d].pc /\ call'[d].owner = call[d].owner
                                 /\ call'[d].enabled = call[d].enabled
      BY <2>3, <2>4
    <2>7. /\ call'[c].pc \in {"idle", "challenged"} /\ call'[c].owner = FALSE
          /\ call'[c].pc = "challenged" => call'[c].enabled = (~user.disabled)
      BY <1>c, <1>i, <2>5
    <2> QED  BY <1>q, <2>1, <2>6, <2>7
  <1>14. ASSUME NEW disabled \in BOOLEAN, SetDisabled(disabled) PROVE EnabledInv'
    <2>1. user'.disabled = disabled  BY <1>14, <1>t DEF SetDisabled
    <2>2. \A d \in Calls :
             /\ call'[d].pc = call[d].pc /\ call'[d].owner = call[d].owner
             /\ call'[d].enabled = (call[d].enabled \/ (call[d].pc \in PastChecks \cup {"read"} /\ ~disabled))
      BY <1>14, <1>t DEF SetDisabled, Call
    <2> QED  BY <2>1, <2>2 DEF EnabledInv
  <1>15. ASSUME UNCHANGED <<user, call>> PROVE EnabledInv'
    BY <1>15 DEF EnabledInv
  <1>16. ASSUME NEW t \in Tokens, Prune(t) PROVE EnabledInv'
    BY <1>15, <1>16 DEF Prune
  <1>17. CASE UNCHANGED vars
    BY <1>15, <1>17 DEF vars
  <1> QED
    BY <1>1, <1>2, <1>3, <1>4, <1>6, <1>7, <1>8, <1>9, <1>10, <1>11, <1>12, <1>13, <1>14, <1>16, <1>17
    DEF Next, Step

\* Refresh and the second half of a sign-in look at the account again: a call
\* under which the account was disabled throughout mints nothing.
THEOREM DisabledMintsNothing == Spec => DisabledStops
  <1>1. Init => EnabledInv
    <2> SUFFICES ASSUME Init PROVE EnabledInv
      OBVIOUS
    <2>1. \A c \in Calls : call[c].pc = "idle" /\ call[c].owner = FALSE  BY DEF Init, Idle
    <2> QED  BY <2>1 DEF EnabledInv, PastChecks
  <1>2. FamilyInv /\ EnabledInv /\ [Next]_vars =>
            [\A c \in Calls : call[c].pc /= "idle" /\ call'[c].pc = "idle" /\ minted' > minted
                => call[c].enabled]_vars
    <2> SUFFICES ASSUME FamilyInv, EnabledInv, Next, NEW c \in Calls,
                        call[c].pc /= "idle", call'[c].pc = "idle", minted' > minted
                 PROVE  call[c].enabled
      OBVIOUS
    <2>t. call \in [Calls -> Call] /\ minted \in Nat  BY SessionsAssumption DEF FamilyInv, TypeOK
    <2>m. minted' /= minted  BY <2>t
    <2>n. /\ \A d \in Calls : /\ ~Login(d) /\ ~Rehash(d) /\ ~Challenge(d) /\ ~CompleteSecondFactor(d)
                             /\ ~Claim(d) /\ ~Lose(d) /\ ~ReadUser(d) /\ ~RevokeBegin(d) /\ ~RevokeCommit(d)
                             /\ ~ChangePassword(d) /\ ~ResetPassword(d) /\ ~UpdateTokens(d) /\ ~Crash(d)
                             /\ \A t \in Tokens : ~Refresh(d, t) /\ ~Logout(d, t)
          /\ \A t \in Tokens : ~Prune(t)
          /\ \A disabled \in BOOLEAN : ~SetDisabled(disabled)
      BY <2>m, Zenon DEF Login, Rehash, Challenge, CompleteSecondFactor, Refresh, Logout, Claim, Lose,
                  ReadUser, RevokeBegin, RevokeCommit, ChangePassword, ResetPassword, UpdateTokens,
                  SetDisabled, Prune, Crash
    <2>1. PICK d \in Calls : LoginIssue(d) \/ RefreshIssue(d) \/ UpdateCommit(d)
      BY <2>n DEF Next, Step
    <2>2. CASE LoginIssue(d)
      <3>1. d = c /\ call[d].pc \in {"verified", "proved"}  BY <2>t, <2>2 DEF LoginIssue, Answer
      <3> QED  BY <3>1 DEF EnabledInv
    <2>3. CASE RefreshIssue(d)
      <3>1. Answer(d) /\ call[d].pc = "admitted"  BY <2>m, <2>3 DEF RefreshIssue
      <3>2. d = c  BY <2>t, <3>1 DEF Answer
      <3> QED  BY <3>1, <3>2 DEF EnabledInv
    <2>4. CASE UpdateCommit(d)
      <3> DEFINE others == [e \in Calls |->
                               IF call[e].pc \in PastChecks THEN [call[e] EXCEPT !.raced = TRUE]
                               ELSE call[e]]
      <3>1. call[d].owner /\ call' = [others EXCEPT ![d] = Idle]  BY <2>m, <2>4 DEF UpdateCommit
      <3>2. \A e \in Calls : others[e].pc = call[e].pc  BY <2>t DEF Call
      <3>3. d = c  BY <3>1, <3>2
      <3> QED  BY <3>1, <3>3 DEF EnabledInv
    <2> QED  BY <2>1, <2>2, <2>3, <2>4
  <1> QED  BY <1>1, <1>2, FamilyHolds, EnabledStep, PTL DEF Spec, DisabledStops

=============================================================================
