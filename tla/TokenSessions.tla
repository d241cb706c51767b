---------------------------- MODULE TokenSessions ----------------------------
(***************************************************************************)
(* Token families: login, refresh with rotation and reuse detection, and      *)
(* logout, backend/app/services/auth_service.py over the token table of       *)
(* backend/app/db/repositories/tokens.py.                                     *)
(*                                                                            *)
(* A handler is a sequence of autocommit statements on pooled connections,    *)
(* with no transaction around them: every statement is a step, other handlers *)
(* run between two of them, and the process may die between two of them.      *)
(* What lookup() returned is a copy, and is used after the row has changed.   *)
(***************************************************************************)
EXTENDS Integers

CONSTANTS
    Calls,       \* handlers of /auth/login, /auth/refresh and /auth/logout
    Families,    \* token families (family_id)
    Devices,     \* enrolled devices of the user
    NoFamily, NoDevice,
    MaxToken     \* bound: tokens issued

ASSUME TokenBound == MaxToken \in Nat
ASSUME NoneAssumption == NoFamily \notin Families /\ NoDevice \notin Devices

Tokens == 1 .. MaxToken

\* No token: a call that came with a password.
NoToken == 0

VARIABLES
    drawn,     \* tokens 1 .. drawn are rows of acs.tokens
    kind,      \* of each token
    family,    \* of each token
    used,      \* tokens with used_at
    revoked,   \* tokens with revoked_at
    expired,   \* tokens whose expires_at has passed
    owner,     \* the device a family was opened on
    blocked,   \* devices with is_blocked
    active,    \* is_active of the user
    pc,        \* how far each call has come
    held,      \* the token row it works on
    fam,       \* the family it works on
    burned,    \* history: families that reuse detection has revoked
    raced      \* history: families one of whose refresh tokens two calls held
               \*          at once, both having found it unused

rowVars == <<drawn, kind, family>>
userVars == <<blocked, active>>
histVars == <<burned, raced>>
vars == <<rowVars, used, revoked, expired, owner, userVars, pc, held, fam, histVars>>

-----------------------------------------------------------------------------

CallPhases == {"idle", "user", "login", "login_half", "fresh", "marked", "retired",
               "half", "reuse", "session", "done"}

\* The call will still put a refresh token into its family.
Issuing == {"login", "login_half", "fresh", "marked", "retired", "half"}

\* Token rows, accounts and calls have the shape the schema and the handlers
\* give them.
TypeOK ==
    /\ drawn \in 0 .. MaxToken
    /\ kind \in [Tokens -> {"none", "access", "refresh"}]
    /\ family \in [Tokens -> Families \cup {NoFamily}]
    /\ used \subseteq Tokens
    /\ revoked \subseteq Tokens
    /\ expired \subseteq Tokens
    /\ owner \in [Families -> Devices \cup {NoDevice}]
    /\ blocked \subseteq Devices
    /\ active \in BOOLEAN
    /\ pc \in [Calls -> CallPhases]
    /\ held \in [Calls -> Tokens \cup {NoToken}]
    /\ fam \in [Calls -> Families \cup {NoFamily}]
    /\ burned \subseteq Families
    /\ raced \subseteq Families

Init ==
    /\ drawn = 0
    /\ kind = [t \in Tokens |-> "none"]
    /\ family = [t \in Tokens |-> NoFamily]
    /\ used = {} /\ revoked = {} /\ expired = {}
    /\ owner = [f \in Families |-> NoDevice]
    /\ blocked = {} /\ active = TRUE
    /\ pc = [c \in Calls |-> "idle"]
    /\ held = [c \in Calls |-> NoToken]
    /\ fam = [c \in Calls |-> NoFamily]
    /\ burned = {} /\ raced = {}

\* The rows of family f.
Members(f) == {t \in Tokens : family[t] = f}

\* is_live(): of the row as lookup() has just read it, the user and the device
\* joined in.
MutantIgnoresRevoked(t) ==
    /\ t \notin expired
    /\ active
    /\ owner[family[t]] \notin blocked

IsLive(t) ==
    /\ t \notin revoked
    /\ t \notin expired
    /\ active
    /\ owner[family[t]] \notin blocked

Go(c, from, to) ==
    /\ pc[c] = from
    /\ pc' = [pc EXCEPT ![c] = to]

-----------------------------------------------------------------------------
(* issue_pair(): two statements, the access token first *)

Insert(c, k) ==
    /\ drawn < MaxToken
    /\ drawn' = drawn + 1
    /\ kind' = [kind EXCEPT ![drawn + 1] = k]
    /\ family' = [family EXCEPT ![drawn + 1] = fam[c]]
    /\ UNCHANGED <<used, revoked, expired, owner, userVars, held, fam, histVars>>

IssueAccess(c) ==
    /\ Go(c, "login", "login_half") \/ Go(c, "retired", "half")
    /\ Insert(c, "access")

\* After the second statement login() touches the user and the device, and both
\* callers write their audit row.
MutantIssueUntyped(c) ==
    /\ Go(c, "login_half", "done") \/ Go(c, "half", "done")
    /\ Insert(c, "bearer")

IssueRefresh(c) ==
    /\ Go(c, "login_half", "done") \/ Go(c, "half", "done")
    /\ Insert(c, "refresh")

-----------------------------------------------------------------------------
(* login() *)

\* by_username(), the password and is_active.
LoginUser(c) ==
    /\ active
    /\ Go(c, "idle", "user")
    /\ UNCHANGED <<rowVars, used, revoked, expired, owner, userVars, held, fam, histVars>>

\* by_id(): the device is the user's and is not blocked. A new family.
LoginDevice(c, d, f) ==
    /\ d \notin blocked
    /\ owner[f] = NoDevice
    /\ Go(c, "user", "login")
    /\ owner' = [owner EXCEPT ![f] = d]
    /\ fam' = [fam EXCEPT ![c] = f]
    /\ UNCHANGED <<rowVars, used, revoked, expired, userVars, held, histVars>>

\* Any check of login() fails.
LoginRefused(c) ==
    /\ Go(c, "idle", "done") \/ Go(c, "user", "done")
    /\ UNCHANGED <<rowVars, used, revoked, expired, owner, userVars, held, fam, histVars>>

-----------------------------------------------------------------------------
(* refresh() *)

\* lookup() of a refresh token that was issued.
Presents(c, t) ==
    /\ t \in Tokens
    /\ kind[t] = "refresh"
    /\ held' = [held EXCEPT ![c] = t]
    /\ fam' = [fam EXCEPT ![c] = family[t]]
    /\ UNCHANGED <<rowVars, used, revoked, expired, owner, userVars, burned>>

\* The row is unused and live: this call will rotate it.
RefreshFresh(c, t) ==
    /\ Go(c, "idle", "fresh")
    /\ Presents(c, t)
    /\ t \notin used
    /\ IsLive(t)
    /\ raced' = IF \E o \in Calls : pc[o] = "fresh" /\ held[o] = t
                THEN raced \cup {family[t]} ELSE raced

RefreshReuse(c, t) ==
    /\ Go(c, "idle", "reuse")
    /\ Presents(c, t)
    /\ t \in used
    /\ UNCHANGED raced

RefreshNotLive(c, t) ==
    /\ Go(c, "idle", "done")
    /\ Presents(c, t)
    /\ t \notin used
    /\ ~IsLive(t)
    /\ UNCHANGED raced

\* revoke_family(): every row of the family that is not revoked yet.
RevokeMembers(f) == revoked' = revoked \cup Members(f)

\* Reuse detected.
BurnFamily(c) ==
    /\ Go(c, "reuse", "done")
    /\ RevokeMembers(fam[c])
    /\ burned' = burned \cup {fam[c]}
    /\ UNCHANGED <<rowVars, used, expired, owner, userVars, held, fam, raced>>

\* mark_used(): whether or not it is still unused; the count is not looked at.
MarkUsed(c) ==
    /\ Go(c, "fresh", "marked")
    /\ used' = used \cup {held[c]}
    /\ UNCHANGED <<rowVars, revoked, expired, owner, userVars, held, fam, histVars>>

MutantKeepsOld(c) ==
    /\ Go(c, "marked", "retired")
    /\ UNCHANGED <<rowVars, used, revoked, expired, owner, userVars, held, fam, histVars>>

RevokeRotated(c) ==
    /\ Go(c, "marked", "retired")
    /\ revoked' = revoked \cup {held[c]}
    /\ UNCHANGED <<rowVars, used, expired, owner, userVars, held, fam, histVars>>

-----------------------------------------------------------------------------
(* logout() *)

\* resolve_access_token(): a live access token, and with it the session.
Resolve(c, t) ==
    /\ t \in Tokens
    /\ kind[t] = "access"
    /\ IsLive(t)
    /\ Go(c, "idle", "session")
    /\ held' = [held EXCEPT ![c] = t]
    /\ fam' = [fam EXCEPT ![c] = family[t]]
    /\ UNCHANGED <<rowVars, used, revoked, expired, owner, userVars, histVars>>

LogoutFamily(c) ==
    /\ Go(c, "session", "done")
    /\ RevokeMembers(fam[c])
    /\ UNCHANGED <<rowVars, used, expired, owner, userVars, held, fam, histVars>>

\* all_devices: revoke_device_sessions() of the session's device.
LogoutDevice(c) ==
    /\ Go(c, "session", "done")
    /\ revoked' = revoked \cup
          {t \in Tokens : family[t] # NoFamily /\ owner[family[t]] = owner[fam[c]]}
    /\ UNCHANGED <<rowVars, used, expired, owner, userVars, held, fam, histVars>>

-----------------------------------------------------------------------------
(* The process, the clock and the administrator *)

\* A statement raises, or the process dies: the handler's later steps are gone,
\* the earlier ones stay.
Crash(c) ==
    /\ pc[c] \notin {"idle", "done"}
    /\ pc' = [pc EXCEPT ![c] = "done"]
    /\ UNCHANGED <<rowVars, used, revoked, expired, owner, userVars, held, fam, histVars>>

Expire(t) ==
    /\ t <= drawn
    /\ expired' = expired \cup {t}
    /\ UNCHANGED <<rowVars, used, revoked, owner, userVars, pc, held, fam, histVars>>

\* DeviceRepository.block(); nothing unblocks.
BlockDevice(d) ==
    /\ blocked' = blocked \cup {d}
    /\ UNCHANGED <<rowVars, used, revoked, expired, owner, active, pc, held, fam, histVars>>

SetActive(on) ==
    /\ active' = on
    /\ UNCHANGED <<rowVars, used, revoked, expired, owner, blocked, pc, held, fam, histVars>>

-----------------------------------------------------------------------------

Refresh(c) ==
    \/ \E t \in Tokens : RefreshFresh(c, t) \/ RefreshReuse(c, t) \/ RefreshNotLive(c, t)
    \/ BurnFamily(c) \/ MarkUsed(c) \/ RevokeRotated(c)

Login(c) ==
    \/ LoginUser(c) \/ LoginRefused(c)
    \/ \E d \in Devices, f \in Families : LoginDevice(c, d, f)

Logout(c) == (\E t \in Tokens : Resolve(c, t)) \/ LogoutFamily(c) \/ LogoutDevice(c)

Next ==
    \/ \E c \in Calls :
          Refresh(c) \/ Login(c) \/ Logout(c) \/ IssueAccess(c) \/ IssueRefresh(c) \/ Crash(c)
    \/ \E t \in Tokens : Expire(t)
    \/ \E d \in Devices : BlockDevice(d)
    \/ \E on \in BOOLEAN : SetActive(on)

Spec == Init /\ [][Next]_vars

-----------------------------------------------------------------------------
(* Properties *)

\* Refresh tokens of f that have not been revoked.
Standing(f) == {t \in Members(f) : kind[t] = "refresh" /\ t \notin revoked}

\* Rotation keeps one refresh token per family standing, whatever crashes,
\* logouts, blocks and replays happen in between, in every family where no two
\* refreshes overlapped from lookup() to mark_used().
OneRefreshStanding ==
    \A f \in Families \ raced : \A t, u \in Standing(f) : t = u

\* No handler is about to issue a token of f, and every row of f is revoked.
Dead(f) ==
    /\ owner[f] # NoDevice
    /\ Members(f) \subseteq revoked
    /\ \A c \in Calls : fam[c] = f => pc[c] \notin Issuing

\* A family that was logged out or burned, and that no handler under way is
\* still extending, never comes back: no token it ever had revives it.
DeadStaysDead == [][\A f \in Families : Dead(f) => Dead(f)']_vars

\* "Presenting a refresh token that has already been used revokes every token in
\* its family, including any pair a thief has just obtained" (docs/04-api.md).
BurnedHasNoLiveToken ==
    \A f \in burned : \A t \in Members(f) : ~IsLive(t)

=============================================================================
