------------------------------ MODULE RateLimit ------------------------------
(***************************************************************************)
(* What counts against a budget: failed logins per user and per address       *)
(* (backend/app/core/ratelimit.py over acs.failed_attempts), and unlocks per   *)
(* user (counted in acs.audit_log).                                           *)
(*                                                                            *)
(* A check is a SELECT, the rows it counts are written by later statements,   *)
(* and handlers interleave between the two. The counts are read from the      *)
(* database only, so a restart changes no budget. The dict of _remember() is  *)
(* written and never read; it is not modelled.                                *)
(***************************************************************************)
EXTENDS Integers, FiniteSets

CONSTANTS
    Handlers,       \* login and unlock requests the process serves at once
    Users,          \* user names (lower case), and user ids
    Peers,          \* client_ip, NoPeer when it is not known
    NoPeer, NoUser,
    LoginLimit,     \* rate_max_login_failures
    LoginWindow,    \* rate_window_seconds, in ticks
    UnlockLimit,    \* rate_max_unlocks_per_minute
    UnlockWindow,   \* 60 seconds, in ticks
    MaxRow,         \* bound: rows written
    MaxClock        \* bound: ticks

ASSUME LimitAssumption ==
    /\ LoginLimit \in Nat \ {0} /\ LoginWindow \in Nat \ {0}
    /\ UnlockLimit \in Nat \ {0} /\ UnlockWindow \in Nat \ {0}
    /\ MaxRow \in Nat /\ MaxClock \in Nat

ASSUME HandlersFinite == IsFiniteSet(Handlers)

ASSUME SubjectAssumption == NoPeer \notin Peers /\ NoUser \notin Users

Rows == 1 .. MaxRow

\* The subjects of failed_attempts, and the actors of door.unlock rows.
ByUser(u) == <<"user", u>>
ByPeer(i) == <<"ip", i>>
ByActor(u) == <<"actor", u>>

VARIABLES
    clock,
    written,   \* rows 1 .. written exist
    subject,   \* of each row
    at,        \* occurred_at of each row
    call,      \* what each handler is at, for whom, the failures its check has
               \* counted, and the row of its door.unlock_requested
    passed     \* history: requested rows of the unlocks that passed the check

tableVars == <<written, subject, at>>
vars == <<clock, tableVars, call, passed>>

\* No row.
None == 0

Idle == [step |-> "idle", user |-> NoUser, peer |-> NoPeer, seen |-> 0, own |-> None]

Steps == {"login", "attempt", "failed", "half", "budget", "within", "granted"}

\* Rows and handlers have the shape the tables and the code give them.
TypeOK ==
    /\ clock \in 1 .. MaxClock + 1
    /\ written \in 0 .. MaxRow
    /\ subject \in [Rows -> {"user"} \X Users \cup {"ip"} \X Peers
                            \cup {"actor"} \X Users \cup {<<>>}]
    /\ at \in [Rows -> 0 .. MaxClock + 1]
    /\ call \in [Handlers -> {Idle} \cup
                 [step : Steps, user : Users, peer : Peers \cup {NoPeer},
                  seen : 0 .. MaxRow, own : 0 .. MaxRow]]
    /\ passed \subseteq Rows

Init ==
    /\ clock = 1
    /\ written = 0
    /\ subject = [r \in Rows |-> <<>>]
    /\ at = [r \in Rows |-> 0]
    /\ call = [h \in Handlers |-> Idle]
    /\ passed = {}

\* The rows of s in the window that ends now.
Recent(s, window) ==
    {r \in 1 .. written : subject[r] = s /\ at[r] > clock - window}

\* failure_count() and unlock_count().
FailureCount(s) == Cardinality(Recent(s, LoginWindow))

MutantFinishedOnly(u) ==
    Cardinality(Recent(ByActor(u), UnlockWindow) \ {call[h].own : h \in Handlers})

UnlockCount(u) == Cardinality(Recent(ByActor(u), UnlockWindow))

Write(s) ==
    /\ written < MaxRow
    /\ written' = written + 1
    /\ subject' = [subject EXCEPT ![written + 1] = s]
    /\ at' = [at EXCEPT ![written + 1] = clock]

Go(h, from, to) ==
    /\ call[h].step = from
    /\ call' = [call EXCEPT ![h].step = to]

Leave(h, from) ==
    /\ call[h].step = from
    /\ call' = [call EXCEPT ![h] = Idle]

-----------------------------------------------------------------------------
(* login() *)

\* check_login(): the first count. client_ip() has chosen the address.
CountByUser(h, u, i) ==
    /\ call[h] = Idle
    /\ call' = [call EXCEPT ![h] = [step |-> "login", user |-> u, peer |-> i,
                                    seen |-> FailureCount(ByUser(u)), own |-> None]]
    /\ UNCHANGED <<clock, tableVars, passed>>

\* The second count, if there is an address, and the larger of the two.
Failures(h) ==
    LET c == call[h]
        byPeer == IF c.peer = NoPeer THEN 0 ELSE FailureCount(ByPeer(c.peer))
    IN  IF byPeer > c.seen THEN byPeer ELSE c.seen

MutantLimitExceeded(h) ==
    /\ Go(h, "login", "attempt")
    /\ Failures(h) <= LoginLimit
    /\ UNCHANGED <<clock, tableVars, passed>>

Allow(h) ==
    /\ Go(h, "login", "attempt")
    /\ Failures(h) < LoginLimit
    /\ UNCHANGED <<clock, tableVars, passed>>

\* 429, and an audit row that no budget counts.
Trip(h) ==
    /\ Leave(h, "login")
    /\ Failures(h) >= LoginLimit
    /\ UNCHANGED <<clock, tableVars, passed>>

\* AuthService.login() succeeds, or raises AuthenticationError.
Attempt(h) ==
    /\ Leave(h, "attempt") \/ Go(h, "attempt", "failed")
    /\ UNCHANGED <<clock, tableVars, passed>>

\* record_login_failure(): the user's row, then the address's if there is one.
\* The audit row and the progressive delay follow, then the answer.
MutantRecordsNoPeer(h) ==
    /\ Go(h, "failed", "half")
    /\ Write(ByUser(call[h].user))
    /\ UNCHANGED <<clock, passed>>

RecordUser(h) ==
    /\ IF call[h].peer = NoPeer THEN Leave(h, "failed") ELSE Go(h, "failed", "half")
    /\ Write(ByUser(call[h].user))
    /\ UNCHANGED <<clock, passed>>

RecordPeer(h) ==
    /\ Leave(h, "half")
    /\ Write(ByPeer(call[h].peer))
    /\ UNCHANGED <<clock, passed>>

-----------------------------------------------------------------------------
(* unlock() *)

\* The door.unlock_requested row comes before every check.
Requested(h, u) ==
    /\ call[h] = Idle
    /\ Write(ByActor(u))
    /\ call' = [call EXCEPT ![h] = [step |-> "budget", user |-> u, peer |-> NoPeer,
                                    seen |-> 0, own |-> written + 1]]
    /\ UNCHANGED <<clock, passed>>

\* check_unlock().
WithinBudget(h) ==
    /\ Go(h, "budget", "within")
    /\ UnlockCount(call[h].user) < UnlockLimit
    /\ passed' = passed \cup {call[h].own}
    /\ UNCHANGED <<clock, tableVars>>

\* 429, and an audit row whose type is not door.unlock.
OverBudget(h) ==
    /\ Leave(h, "budget")
    /\ UnlockCount(call[h].user) >= UnlockLimit
    /\ UNCHANGED <<clock, tableVars, passed>>

\* The rows of the outcome: denied before or after the check, granted, then
\* confirmed or failed.
Outcome(h) ==
    /\ \/ Leave(h, "budget") \/ Leave(h, "within")
       \/ Go(h, "within", "granted") \/ Leave(h, "granted")
    /\ Write(ByActor(call[h].user))
    /\ UNCHANGED <<clock, passed>>

-----------------------------------------------------------------------------

\* A statement raises, or the process restarts: rows stay, the handler is gone.
CutOff(h) ==
    /\ call[h] # Idle
    /\ call' = [call EXCEPT ![h] = Idle]
    /\ UNCHANGED <<clock, tableVars, passed>>

Tick ==
    /\ clock <= MaxClock
    /\ clock' = clock + 1
    /\ UNCHANGED <<tableVars, call, passed>>

Login(h) ==
    \/ \E u \in Users, i \in Peers \cup {NoPeer} : CountByUser(h, u, i)
    \/ Allow(h) \/ Trip(h) \/ Attempt(h) \/ RecordUser(h) \/ RecordPeer(h)

Unlock(h) ==
    (\E u \in Users : Requested(h, u)) \/ WithinBudget(h) \/ OverBudget(h) \/ Outcome(h)

Next ==
    \/ \E h \in Handlers : Login(h) \/ Unlock(h) \/ CutOff(h)
    \/ Tick

Spec == Init /\ [][Next]_vars

-----------------------------------------------------------------------------
(* Properties *)

\* Logins against u that may still end in a row: admitted, or about to be.
Trying(u) ==
    {h \in Handlers : /\ call[h].user = u
                      /\ \/ call[h].step \in {"attempt", "failed"}
                         \/ call[h].step = "login" /\ call[h].seen < LoginLimit}

TryingFrom(i) ==
    {h \in Handlers : call[h].peer = i /\ call[h].step \in {"attempt", "failed", "half"}}

\* "stops a password guessing run against one account" and "a single host"
\* (ratelimit.py): logins that overlap read the count before any of them adds
\* to it, but the failures of a window, those about to be recorded included,
\* exceed the limit by less than the number of logins served at once.
OvershootBounded ==
    /\ \A u \in Users :
          FailureCount(ByUser(u)) + Cardinality(Trying(u))
              < LoginLimit + Cardinality(Handlers)
    /\ \A i \in Peers :
          FailureCount(ByPeer(i)) + Cardinality(TryingFrom(i))
              < LoginLimit + Cardinality(Handlers)

\* Unlocks that overlap cannot overshoot: each has written its own row before it
\* counts, so of the unlocks of one user requested within a window fewer than
\* the limit pass the check, whatever else is going on.
UnlocksBounded ==
    \A u \in Users :
        Cardinality(passed \cap Recent(ByActor(u), UnlockWindow)) < UnlockLimit

=============================================================================
