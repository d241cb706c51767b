------------------------- MODULE TokenSessionsProofs -------------------------
(***************************************************************************)
(* Proofs for TokenSessions: types, one refresh token standing per family     *)
(* where refreshes do not overlap, and a dead family staying dead, for every  *)
(* number of calls, families, devices and tokens.                             *)
(***************************************************************************)
EXTENDS TokenSessions, TLAPS

-----------------------------------------------------------------------------
(* The inductive invariant *)

\* Rows that are not drawn yet are blank, drawn rows belong to an open family.
RowInv ==
    \A t \in Tokens :
        /\ t > drawn => kind[t] = "none" /\ family[t] = NoFamily
        /\ family[t] # NoFamily => owner[family[t]] # NoDevice
        /\ kind[t] # "none" => family[t] # NoFamily

\* What a call knows of the row it works on is still true of it.
CallInv ==
    \A c \in Calls :
        /\ pc[c] \in Issuing => fam[c] \in Families /\ owner[fam[c]] # NoDevice
        /\ pc[c] \in {"fresh", "marked"} => held[c] \in Tokens
        /\ pc[c] = "marked" => held[c] \in used
        /\ pc[c] \in {"retired", "half"} => held[c] \in revoked
        /\ pc[c] = "reuse" => fam[c] \in Families

\* In a family without overlapping refreshes one call at most is extending the
\* family, and while it is, the only refresh token standing is the one it rotates.
RotationInv ==
    \A c \in Calls : pc[c] \in Issuing /\ fam[c] \notin raced =>
        /\ \A o \in Calls : pc[o] \in Issuing /\ fam[o] = fam[c] => o = c
        /\ \A t \in Standing(fam[c]) : t = held[c] /\ pc[c] \in {"fresh", "marked"}

TInv == TypeOK /\ RowInv /\ CallInv /\ RotationInv /\ OneRefreshStanding

-----------------------------------------------------------------------------

LEMMA InitTInv == Init => TInv
BY NoneAssumption, TokenBound
   DEF Init, TInv, TypeOK, RowInv, CallInv, RotationInv, OneRefreshStanding, Tokens,
       NoToken, CallPhases, Issuing, Standing, Members

\* Steps that leave every row and every call's place in issue_pair() alone.
LEMMA QuietInv ==
    ASSUME TInv,
           \/ \E t \in Tokens : Expire(t)
           \/ \E d \in Devices : BlockDevice(d)
           \/ \E on \in BOOLEAN : SetActive(on)
    PROVE  TInv'
<1>1. TypeOK'
  BY DEF TInv, TypeOK, Expire, BlockDevice, SetActive, rowVars, userVars, histVars
<1>2. RowInv' /\ CallInv' /\ RotationInv' /\ OneRefreshStanding'
  BY DEF TInv, RowInv, CallInv, RotationInv, OneRefreshStanding, Standing, Members,
     Expire, BlockDevice, SetActive, rowVars, userVars, histVars
<1>. QED BY <1>1, <1>2 DEF TInv

\* A call ends, or one begins without a token: nobody joins a family.
LEMMA LeaveInv ==
    ASSUME TInv, NEW c \in Calls, LoginUser(c) \/ LoginRefused(c) \/ Crash(c)
    PROVE  TInv'
<1>1. TypeOK'
  BY DEF TInv, TypeOK, CallPhases, LoginUser, LoginRefused, Crash, Go, rowVars,
     userVars, histVars
<1>2. RowInv' /\ OneRefreshStanding'
  BY DEF TInv, RowInv, OneRefreshStanding, Standing, Members, LoginUser, LoginRefused,
     Crash, rowVars, userVars, histVars
<1>3. \A o \in Calls : (pc'[o] = pc[o]) \/ pc'[o] \in {"user", "done"}
  BY DEF TInv, TypeOK, LoginUser, LoginRefused, Crash, Go
<1>4. UNCHANGED <<kind, family, revoked, held, fam, raced, owner, used>>
  BY DEF LoginUser, LoginRefused, Crash, rowVars, histVars
<1>5. CallInv'
  BY <1>3, <1>4 DEF TInv, CallInv, Issuing
<1>6. RotationInv'
  BY <1>3, <1>4 DEF TInv, RotationInv, Issuing, Standing, Members
<1>. QED BY <1>1, <1>2, <1>5, <1>6 DEF TInv

\* A family is opened: it has no rows and no calls yet.
LEMMA OpenInv ==
    ASSUME TInv, NEW c \in Calls, NEW d \in Devices, NEW f \in Families,
           LoginDevice(c, d, f)
    PROVE  TInv'
<1>1. TypeOK'
  BY DEF TInv, TypeOK, CallPhases, LoginDevice, Go, rowVars, userVars, histVars
<1>2. /\ UNCHANGED <<kind, family, revoked, held, raced, used, drawn>>
      /\ pc' = [pc EXCEPT ![c] = "login"] /\ fam' = [fam EXCEPT ![c] = f]
      /\ owner' = [owner EXCEPT ![f] = d] /\ owner[f] = NoDevice
  BY DEF LoginDevice, Go, rowVars, histVars
<1>3. Standing(f) = {}
  BY <1>2 DEF TInv, TypeOK, RowInv, Standing, Members
<1>4. \A o \in Calls : pc[o] \in Issuing => fam[o] # f
  BY <1>2 DEF TInv, CallInv
<1>5. RowInv' /\ OneRefreshStanding'
  BY <1>2, NoneAssumption DEF TInv, TypeOK, RowInv, OneRefreshStanding, Standing, Members
<1>6. CallInv'
  BY <1>2, NoneAssumption DEF TInv, TypeOK, CallInv, Issuing
<1>7. RotationInv'
  BY <1>2, <1>3, <1>4 DEF TInv, TypeOK, RotationInv, Issuing, Standing, Members
<1>. QED BY <1>1, <1>5, <1>6, <1>7 DEF TInv

\* lookup() finds the token unused and live, and nobody else is rotating it,
\* or the family is marked raced.
LEMMA FreshInv ==
    ASSUME TInv, NEW c \in Calls, NEW t \in Tokens, RefreshFresh(c, t)
    PROVE  TInv'
<1>1. TypeOK'
  BY NoneAssumption DEF TInv, TypeOK, RowInv, CallPhases, RefreshFresh, Presents, Go, rowVars,
     userVars, NoToken
<1>2. /\ UNCHANGED <<kind, family, revoked, used, drawn, owner>>
      /\ pc' = [pc EXCEPT ![c] = "fresh"] /\ fam' = [fam EXCEPT ![c] = family[t]]
      /\ held' = [held EXCEPT ![c] = t] /\ pc[c] = "idle"
      /\ t \notin used /\ t \notin revoked /\ kind[t] = "refresh"
      /\ family[t] \in Families
  BY DEF TInv, TypeOK, RowInv, RefreshFresh, Presents, Go, rowVars, IsLive
<1>3. RowInv' /\ CallInv'
  BY <1>2 DEF TInv, TypeOK, RowInv, CallInv, Issuing
<1>4. raced \subseteq raced'
  BY DEF RefreshFresh
<1>5. OneRefreshStanding'
  BY <1>2, <1>4 DEF TInv, OneRefreshStanding, Standing, Members
<1>6. t \in Standing(family[t])
  BY <1>2 DEF Standing, Members
<1>7. ASSUME family[t] \notin raced', NEW o \in Calls, pc[o] \in Issuing,
             fam[o] = family[t]
      PROVE  FALSE
  <2>1. t = held[o] /\ pc[o] \in {"fresh", "marked"}
    BY <1>4, <1>6, <1>7 DEF TInv, RotationInv
  <2>2. pc[o] # "fresh"
    BY <1>7, <2>1 DEF RefreshFresh
  <2>. QED BY <1>2, <2>1, <2>2 DEF TInv, CallInv
<1>8. RotationInv'
  <2>1. pc'[c] = "fresh" /\ fam'[c] = family[t] /\ held'[c] = t
    BY <1>2 DEF TInv, TypeOK
  <2>2. \A o \in Calls : o # c =>
           pc'[o] = pc[o] /\ fam'[o] = fam[o] /\ held'[o] = held[o]
    BY <1>2 DEF TInv, TypeOK
  <2>3. \A o \in Calls : pc[o] \in Issuing /\ fam[o] \notin raced' => fam[o] # family[t]
    BY <1>7
  <2>4. family[t] \notin raced' => \A u \in Standing(family[t]) : u = t
    BY <1>2, <1>4, <1>6 DEF TInv, TypeOK, OneRefreshStanding
  <2>. QED
    BY <1>2, <1>4, <2>1, <2>2, <2>3, <2>4 DEF TInv, RotationInv, Standing, Members
<1>. QED BY <1>1, <1>3, <1>5, <1>8 DEF TInv

\* lookup() finds a used or a dead token, or an access token is resolved.
LEMMA LookupInv ==
    ASSUME TInv, NEW c \in Calls, NEW t \in Tokens,
           RefreshReuse(c, t) \/ RefreshNotLive(c, t) \/ Resolve(c, t)
    PROVE  TInv'
<1>1. TypeOK'
  BY DEF TInv, TypeOK, CallPhases, RefreshReuse, RefreshNotLive, Resolve, Presents, Go,
     rowVars, userVars, histVars
<1>2. /\ UNCHANGED <<kind, family, revoked, used, drawn, owner, raced>>
      /\ \E p \in {"reuse", "done", "session"} : pc' = [pc EXCEPT ![c] = p]
      /\ fam' = [fam EXCEPT ![c] = family[t]]
      /\ held' = [held EXCEPT ![c] = t]
      /\ family[t] \in Families
  BY DEF TInv, TypeOK, RowInv, RefreshReuse, RefreshNotLive, Resolve, Presents, Go, rowVars,
     histVars
<1>3. RowInv' /\ OneRefreshStanding'
  BY <1>2 DEF TInv, RowInv, OneRefreshStanding, Standing, Members
<1>4. \A o \in Calls : pc'[o] \in Issuing =>
         pc'[o] = pc[o] /\ fam'[o] = fam[o] /\ held'[o] = held[o]
  BY <1>2 DEF TInv, TypeOK, Issuing
<1>5. CallInv'
  BY <1>2, <1>4 DEF TInv, TypeOK, CallInv, Issuing
<1>6. RotationInv'
  BY <1>2, <1>4 DEF TInv, RotationInv, Standing, Members
<1>. QED BY <1>1, <1>3, <1>5, <1>6 DEF TInv

\* Rows are revoked or marked used: fewer refresh tokens stand, and a call that
\* goes on does so in the family and with the token it had.
LEMMA RevokeInv ==
    ASSUME TInv, NEW c \in Calls,
           \/ BurnFamily(c) \/ MarkUsed(c) \/ RevokeRotated(c)
           \/ LogoutFamily(c) \/ LogoutDevice(c)
    PROVE  TInv'
<1>1. TypeOK'
  BY DEF TInv, TypeOK, CallInv, CallPhases, Members, RevokeMembers, BurnFamily, MarkUsed,
     RevokeRotated, LogoutFamily, LogoutDevice, Go, rowVars, userVars, histVars
<1>2. /\ UNCHANGED <<kind, family, drawn, owner, raced, held, fam>>
      /\ revoked \subseteq revoked' /\ used \subseteq used'
      /\ \A o \in Calls : o # c => pc'[o] = pc[o]
  BY DEF TInv, TypeOK, RevokeMembers, BurnFamily, MarkUsed, RevokeRotated, LogoutFamily,
     LogoutDevice, Go, rowVars, userVars, histVars
<1>3. \/ pc'[c] = "done"
      \/ pc[c] = "fresh" /\ pc'[c] = "marked" /\ held[c] \in used'
      \/ pc[c] = "marked" /\ pc'[c] = "retired" /\ held[c] \in revoked'
  BY DEF TInv, TypeOK, BurnFamily, MarkUsed, RevokeRotated, LogoutFamily, LogoutDevice, Go
<1>4. RowInv' /\ OneRefreshStanding'
  BY <1>2 DEF TInv, RowInv, OneRefreshStanding, Standing, Members
<1>5. CallInv'
  BY <1>2, <1>3 DEF TInv, CallInv, Issuing
<1>6. \A o \in Calls : pc'[o] \in Issuing =>
         pc[o] \in Issuing /\ (pc[o] \in {"fresh", "marked"} =>
                                 pc'[o] \in {"fresh", "marked"} \/ held[o] \in revoked')
  BY <1>2, <1>3 DEF Issuing
<1>7. RotationInv'
  BY <1>2, <1>6 DEF TInv, RotationInv, Standing, Members
<1>. QED BY <1>1, <1>4, <1>5, <1>7 DEF TInv

\* A row is inserted: an access token, or the refresh token after the one it
\* replaces has been revoked.
LEMMA IssueInv ==
    ASSUME TInv, NEW c \in Calls, IssueAccess(c) \/ IssueRefresh(c)
    PROVE  TInv'
<1>. DEFINE n == drawn + 1
<1>1. /\ pc[c] \in {"login", "retired", "login_half", "half"}
      /\ n \in Tokens /\ drawn' = n /\ n > drawn
      /\ \E k \in {"access", "refresh"} : kind' = [kind EXCEPT ![n] = k]
      /\ family' = [family EXCEPT ![n] = fam[c]]
      /\ UNCHANGED <<used, revoked, expired, owner, userVars, held, fam, histVars>>
      /\ \E p \in {"login_half", "half", "done"} : pc' = [pc EXCEPT ![c] = p]
  BY TokenBound DEF TInv, TypeOK, IssueAccess, IssueRefresh, Insert, Go, Tokens
<1>2. fam[c] \in Families /\ owner[fam[c]] # NoDevice
  BY <1>1 DEF TInv, CallInv, Issuing
<1>3. \/ kind'[n] = "access" /\ pc'[c] = IF pc[c] = "login" THEN "login_half" ELSE "half"
      \/ kind'[n] = "refresh" /\ pc'[c] = "done"
  BY <1>1 DEF TInv, TypeOK, IssueAccess, IssueRefresh, Insert, Go
<1>4. TypeOK'
  <2>1. drawn' \in 0 .. MaxToken
    BY <1>1, TokenBound DEF TInv, TypeOK, Tokens
  <2>. QED BY <1>1, <1>2, <2>1 DEF TInv, TypeOK, CallPhases, userVars, histVars
<1>8. \A t \in Tokens : t # n => kind'[t] = kind[t] /\ family'[t] = family[t]
  BY <1>1 DEF TInv, TypeOK
<1>5. RowInv'
  <2>1. family'[n] = fam[c] /\ owner' = owner
    BY <1>1 DEF TInv, TypeOK
  <2>2. \A t \in Tokens : t > n => t > drawn
    BY DEF TInv, TypeOK, Tokens
  <2>3. ~(n > n)
    BY DEF TInv, TypeOK
  <2>4. fam[c] # NoFamily
    BY <1>2, NoneAssumption
  <2>. QED BY <1>1, <1>2, <1>8, <2>1, <2>2, <2>3, <2>4 DEF TInv, RowInv
<1>6. CallInv'
  BY <1>1, <1>3 DEF TInv, TypeOK, CallInv, Issuing, IssueAccess, IssueRefresh, Go
<1>7. fam[c] \notin raced => Standing(fam[c]) = {}
  BY <1>1 DEF TInv, RotationInv, Issuing
<1>9. OneRefreshStanding'
  <2>1. family'[n] = fam[c] /\ revoked' = revoked /\ raced' = raced
    BY <1>1 DEF TInv, TypeOK, histVars
  <2>2. ASSUME NEW f \in Families, f \notin raced,
               NEW t \in Tokens, family'[t] = f, kind'[t] = "refresh", t \notin revoked,
               NEW u \in Tokens, family'[u] = f, kind'[u] = "refresh", u \notin revoked
        PROVE  t = u
    <3>1. CASE t # n /\ u # n
      BY <1>8, <2>2, <3>1 DEF TInv, OneRefreshStanding, Standing, Members
    <3>2. CASE t = n \/ u = n
      BY <1>7, <1>8, <2>1, <2>2, <3>2 DEF Standing, Members
    <3>. QED BY <3>1, <3>2
  <2>. QED BY <2>1, <2>2 DEF OneRefreshStanding, Standing, Members
<1>10. RotationInv'
  <2>1. \A o \in Calls : pc'[o] \in Issuing => pc[o] \in Issuing
    BY <1>1 DEF TInv, TypeOK, Issuing
  <2>2. CASE kind'[n] = "access"
    <3>1. \A o \in Calls : pc'[o] \in Issuing /\ o # c => pc'[o] = pc[o]
      BY <1>1 DEF TInv, TypeOK
    <3>. QED
      BY <1>1, <1>7, <1>8, <2>1, <2>2, <3>1
         DEF TInv, TypeOK, RotationInv, Standing, Members, histVars, Issuing
  <2>3. CASE kind'[n] = "refresh" /\ pc'[c] = "done"
    <3>1. \A o \in Calls : o # c => pc'[o] = pc[o]
      BY <1>1 DEF TInv, TypeOK
    <3>2. pc'[c] \notin Issuing
      BY <2>3 DEF Issuing
    <3>3. pc[c] \in Issuing
      BY <1>1 DEF Issuing
    <3>4. \A o \in Calls : pc'[o] \in Issuing /\ fam[o] \notin raced => fam[o] # fam[c]
      BY <2>1, <3>2, <3>3 DEF TInv, RotationInv
    <3>5. family'[n] = fam[c]
      BY <1>1 DEF TInv, TypeOK
    <3>. QED
      BY <1>1, <1>8, <2>1, <3>1, <3>2, <3>4, <3>5
         DEF TInv, RotationInv, Standing, Members, histVars
  <2>. QED BY <1>3, <2>2, <2>3
<1>. QED BY <1>4, <1>5, <1>6, <1>9, <1>10 DEF TInv

\* Every step of every handler, and of the world around them.
LEMMA NextTInv == TInv /\ [Next]_vars => TInv'
<1>. SUFFICES ASSUME TInv, [Next]_vars PROVE TInv'
  OBVIOUS
<1>1. CASE UNCHANGED vars
  BY <1>1 DEF TInv, TypeOK, RowInv, CallInv, RotationInv, OneRefreshStanding, Standing,
     Members, vars, rowVars, userVars, histVars
<1>2. ASSUME NEW c \in Calls, Refresh(c) PROVE TInv'
  BY <1>2, FreshInv, LookupInv, RevokeInv DEF Refresh
<1>3. ASSUME NEW c \in Calls, Login(c) PROVE TInv'
  BY <1>3, LeaveInv, OpenInv DEF Login
<1>4. ASSUME NEW c \in Calls, Logout(c) PROVE TInv'
  BY <1>4, LookupInv, RevokeInv DEF Logout
<1>5. ASSUME NEW c \in Calls, IssueAccess(c) \/ IssueRefresh(c) \/ Crash(c) PROVE TInv'
  BY <1>5, IssueInv, LeaveInv
<1>. QED BY <1>1, <1>2, <1>3, <1>4, <1>5, QuietInv DEF Next

\* The invariant holds in every reachable state.
THEOREM Invariance == Spec => []TInv
BY InitTInv, NextTInv, PTL DEF Spec

\* Token rows and calls keep their types.
THEOREM TypeCorrect == Spec => []TypeOK
<1>1. TInv => TypeOK
  BY DEF TInv
<1>. QED BY <1>1, Invariance, PTL

\* Rotation keeps one refresh token per family standing where refreshes of one
\* token do not overlap: refresh() of auth_service.py.
THEOREM OneStanding == Spec => []OneRefreshStanding
<1>1. TInv => OneRefreshStanding
  BY DEF TInv
<1>. QED BY <1>1, Invariance, PTL

-----------------------------------------------------------------------------
(* A dead family stays dead *)

LEMMA DeadStep ==
    ASSUME TInv, [Next]_vars, NEW f \in Families, Dead(f)
    PROVE  Dead(f)'
<1>. USE DEF Dead, Members
<1>1. CASE UNCHANGED vars
  BY <1>1 DEF vars, rowVars, userVars, histVars
<1>2. ASSUME NEW c \in Calls, NEW t \in Tokens,
             RefreshFresh(c, t) \/ RefreshReuse(c, t) \/ RefreshNotLive(c, t) \/ Resolve(c, t)
      PROVE  Dead(f)'
  <2>1. RefreshFresh(c, t) => family[t] # f
    BY DEF RefreshFresh, IsLive
  <2>2. UNCHANGED <<family, revoked, owner>>
    BY <1>2 DEF RefreshFresh, RefreshReuse, RefreshNotLive, Resolve, Presents, rowVars
  <2>3. pc'[c] \in Issuing => fam'[c] # f
    BY <1>2, <2>1 DEF TInv, TypeOK, RefreshFresh, RefreshReuse, RefreshNotLive, Resolve,
       Presents, Go, Issuing
  <2>4. \A o \in Calls : o # c => pc'[o] = pc[o] /\ fam'[o] = fam[o]
    BY <1>2 DEF TInv, TypeOK, RefreshFresh, RefreshReuse, RefreshNotLive, Resolve, Presents, Go
  <2>. QED BY <2>2, <2>3, <2>4
<1>3. ASSUME NEW c \in Calls,
             \/ BurnFamily(c) \/ MarkUsed(c) \/ RevokeRotated(c)
             \/ LogoutFamily(c) \/ LogoutDevice(c)
             \/ LoginUser(c) \/ LoginRefused(c) \/ Crash(c)
      PROVE  Dead(f)'
  <2>1. UNCHANGED <<family, owner, fam>> /\ revoked \subseteq revoked'
    BY <1>3 DEF BurnFamily, MarkUsed, RevokeRotated, LogoutFamily, LogoutDevice, LoginUser,
       LoginRefused, Crash, RevokeMembers, rowVars
  <2>2. \A o \in Calls : pc'[o] \in Issuing => pc[o] \in Issuing
    BY <1>3 DEF TInv, TypeOK, BurnFamily, MarkUsed, RevokeRotated, LogoutFamily,
       LogoutDevice, LoginUser, LoginRefused, Crash, Go, Issuing
  <2>. QED BY <2>1, <2>2
<1>4. ASSUME NEW c \in Calls, NEW d \in Devices, NEW g \in Families, LoginDevice(c, d, g)
      PROVE  Dead(f)'
  BY <1>4 DEF TInv, TypeOK, LoginDevice, Go, rowVars
<1>5. ASSUME NEW c \in Calls, IssueAccess(c) \/ IssueRefresh(c)
      PROVE  Dead(f)'
  <2>1. fam[c] # f
    BY <1>5 DEF IssueAccess, IssueRefresh, Go, Issuing
  <2>2. /\ UNCHANGED <<revoked, owner, fam>>
        /\ family' = [family EXCEPT ![drawn + 1] = fam[c]]
    BY <1>5 DEF IssueAccess, IssueRefresh, Insert
  <2>3. \A o \in Calls : o # c => pc'[o] = pc[o]
    BY <1>5 DEF TInv, TypeOK, IssueAccess, IssueRefresh, Go
  <2>. QED BY <2>1, <2>2, <2>3 DEF TInv, TypeOK
<1>6. CASE \/ \E t \in Tokens : Expire(t)
           \/ \E d \in Devices : BlockDevice(d)
           \/ \E on \in BOOLEAN : SetActive(on)
  BY <1>6 DEF Expire, BlockDevice, SetActive, rowVars, userVars, histVars
<1>. QED BY <1>1, <1>2, <1>3, <1>4, <1>5, <1>6 DEF Next, Refresh, Login, Logout

\* A family that was logged out or burned, and that no handler is still
\* extending, never has a token that is not revoked again.
THEOREM DeadIsForEver == Spec => DeadStaysDead
<1>1. TInv /\ [Next]_vars => [\A f \in Families : Dead(f) => Dead(f)']_vars
  BY DeadStep
<1>. QED BY <1>1, Invariance, PTL DEF Spec, DeadStaysDead

=============================================================================
