----------------------------- MODULE PhoneSession -----------------------------
(***************************************************************************)
(* The phone's end of a token family, against the server's handlers of        *)
(* TokenSessions: android/.../data/api/ApiClient.kt (RefreshInterceptor),     *)
(* data/local/TokenStore.kt and DoorsRepository.signOut().                    *)
(*                                                                            *)
(* The threads of one app process share a token store and the refresh lock.   *)
(* The store is SharedPreferences: apply() changes memory at once and the     *)
(* file later, and a process that dies comes back with the file. Requests and *)
(* answers may be lost, and OkHttp may send a request again.                  *)
(*                                                                            *)
(* The pair is represented by its refresh token. An access token decides only *)
(* whether a request is answered 401, which is left open.                     *)
(***************************************************************************)
EXTENDS TokenSessions

CONSTANTS
    Threads,            \* OkHttp calls under way at once
    NoThread, NoCall

ASSUME PhoneAssumption ==
    /\ NoThread \notin Threads /\ NoCall \notin Calls
    /\ MaxToken >= 2

VARIABLES
    reply,     \* the refresh token in each handler's answer
    store,     \* KEY_REFRESH in memory
    disk,      \* KEY_REFRESH in the file
    lock,      \* holder of refreshLock
    asked,     \* the refresh token in its request
    step,      \* how far each thread has come
    call,      \* the handler that has its request
    lost       \* history: a request, an answer or a saved pair was lost

phoneVars == <<store, disk, lock, step, asked, call, lost>>
serverVars == <<rowVars, used, revoked, expired, owner, userVars, pc, held, fam, histVars, reply>>
systemVars == <<serverVars, phoneVars>>

Steps == {"idle", "wait", "asking", "failed", "leaving"}

\* Threads, store and lock have the shape the app gives them; a thread that
\* refreshes is the one that holds the lock.
PhoneTypeOK ==
    /\ TypeOK
    /\ reply \in [Calls -> Tokens \cup {NoToken}]
    /\ store \in Tokens \cup {NoToken} /\ disk \in Tokens \cup {NoToken}
    /\ lock \in Threads \cup {NoThread}
    /\ step \in [Threads -> Steps]
    /\ \A th \in Threads : step[th] = "asking" <=> lock = th
    /\ asked \in Tokens \cup {NoToken}
    /\ call \in [Threads -> Calls \cup {NoCall}]
    /\ lost \in BOOLEAN

\* An enrolled phone: enroll() has saved the first pair of its family.
PhoneInit ==
    /\ drawn = 2
    /\ kind = [[t \in Tokens |-> "none"] EXCEPT ![1] = "access", ![2] = "refresh"]
    /\ \E f \in Families, d \in Devices :
          /\ family = [t \in Tokens |-> IF t <= 2 THEN f ELSE NoFamily]
          /\ owner = [g \in Families |-> IF g = f THEN d ELSE NoDevice]
    /\ used = {} /\ revoked = {} /\ expired = {}
    /\ blocked = {} /\ active = TRUE
    /\ pc = [c \in Calls |-> "idle"]
    /\ held = [c \in Calls |-> NoToken]
    /\ fam = [c \in Calls |-> NoFamily]
    /\ burned = {} /\ raced = {}
    /\ reply = [c \in Calls |-> NoToken]
    /\ store = 2 /\ disk = 2
    /\ lock = NoThread
    /\ step = [th \in Threads |-> "idle"]
    /\ asked = NoToken
    /\ call = [th \in Threads |-> NoCall]
    /\ lost = FALSE

Moves(th, from, to) ==
    /\ step[th] = from
    /\ step' = [step EXCEPT ![th] = to]

-----------------------------------------------------------------------------
(* RefreshInterceptor *)

\* A request outside /auth/ is answered 401: the thread goes for the lock.
Unauthorized(th) ==
    /\ Moves(th, "idle", "wait")
    /\ UNCHANGED <<serverVars, store, disk, lock, asked, call, lost>>

\* refreshOnce() reads the token inside the lock.
MutantUnlocked(th) ==
    /\ store # NoToken
    /\ Moves(th, "wait", "asking")
    /\ lock' = th
    /\ asked' = store
    /\ UNCHANGED <<serverVars, store, disk, call, lost>>

MutantLockCoversRead(th) ==
    /\ lock = NoThread
    /\ store # NoToken
    /\ Moves(th, "wait", "asking")
    /\ asked' = store
    /\ UNCHANGED <<serverVars, store, disk, lock, call, lost>>

EnterRefresh(th) ==
    /\ lock = NoThread
    /\ store # NoToken
    /\ Moves(th, "wait", "asking")
    /\ lock' = th
    /\ asked' = store
    /\ UNCHANGED <<serverVars, store, disk, call, lost>>

\* No token to refresh with: refreshOnce() is false at once.
NothingToRefresh(th) ==
    /\ lock = NoThread
    /\ store = NoToken
    /\ Moves(th, "wait", "failed")
    /\ UNCHANGED <<serverVars, store, disk, lock, asked, call, lost>>

\* The request reaches the server, and a handler looks the token up.
Present(th, c) ==
    /\ step[th] = "asking" /\ call[th] = NoCall
    /\ \/ RefreshFresh(c, asked)
       \/ RefreshReuse(c, asked)
       \/ RefreshNotLive(c, asked)
    /\ call' = [call EXCEPT ![th] = c]
    /\ UNCHANGED <<reply, store, disk, lock, step, asked, lost>>

\* The answer is there.
Answered(th) ==
    /\ call[th] # NoCall
    /\ pc[call[th]] = "done"

\* savePair(), and the lock is released. The request is sent again with the new
\* access token, and its answer is returned whatever it is.
MutantSavesAccessOnly(th) ==
    /\ Answered(th)
    /\ reply[call[th]] # NoToken
    /\ Moves(th, "asking", "idle")
    /\ lock' = NoThread /\ asked' = NoToken
    /\ call' = [call EXCEPT ![th] = NoCall]
    /\ UNCHANGED <<serverVars, store, disk, lost>>

SavePair(th) ==
    /\ Answered(th)
    /\ reply[call[th]] # NoToken
    /\ Moves(th, "asking", "idle")
    /\ store' = reply[call[th]]
    /\ lock' = NoThread /\ asked' = NoToken
    /\ call' = [call EXCEPT ![th] = NoCall]
    /\ UNCHANGED <<serverVars, disk, lost>>

\* refreshOnce() returns false and the lock is released: the session is not
\* cleared yet.
Fails(th) ==
    /\ Moves(th, "asking", "failed")
    /\ lock' = NoThread /\ asked' = NoToken
    /\ call' = [call EXCEPT ![th] = NoCall]
    /\ UNCHANGED <<serverVars, store, disk>>

Refused(th) ==
    /\ Answered(th)
    /\ reply[call[th]] = NoToken
    /\ Fails(th)
    /\ UNCHANGED lost

\* The request or the answer is lost, or the read timeout passes; the handler,
\* if there is one, goes on.
NoAnswer(th) ==
    /\ Fails(th)
    /\ lost' = TRUE

\* retryOnConnectionFailure: the connection breaks before the answer, and OkHttp
\* sends the same request again.
SendAgain(th) ==
    /\ step[th] = "asking" /\ call[th] # NoCall
    /\ call' = [call EXCEPT ![th] = NoCall]
    /\ lost' = TRUE
    /\ UNCHANGED <<serverVars, store, disk, lock, step, asked>>

\* clearSession(), outside the lock.
ClearFailed(th) ==
    /\ Moves(th, "failed", "idle")
    /\ store' = NoToken
    /\ UNCHANGED <<serverVars, disk, lock, asked, call, lost>>

-----------------------------------------------------------------------------
(* signOut() *)

SignOut(th) ==
    /\ Moves(th, "idle", "leaving")
    /\ UNCHANGED <<serverVars, store, disk, lock, asked, call, lost>>

\* /auth/logout reaches the server with an access token that is live.
PresentLogout(th, c) ==
    /\ step[th] = "leaving" /\ call[th] = NoCall
    /\ \E t \in Tokens : Resolve(c, t)
    /\ call' = [call EXCEPT ![th] = c]
    /\ UNCHANGED <<reply, store, disk, lock, step, asked, lost>>

\* Whatever became of the request: an answer, a 401, which is final, or none.
ClearSignedOut(th) ==
    /\ Moves(th, "leaving", "idle")
    /\ store' = NoToken
    /\ call' = [call EXCEPT ![th] = NoCall]
    /\ UNCHANGED <<serverVars, disk, lock, asked, lost>>

-----------------------------------------------------------------------------
(* The process and its file *)

\* The write that apply() queued.
Flush ==
    /\ disk # store
    /\ disk' = store
    /\ UNCHANGED <<serverVars, store, lock, step, asked, call, lost>>

\* The process dies and is started again.
Die ==
    /\ store' = disk
    /\ lost' = (lost \/ disk # store \/ lock # NoThread)
    /\ lock' = NoThread /\ asked' = NoToken
    /\ step' = [th \in Threads |-> "idle"]
    /\ call' = [th \in Threads |-> NoCall]
    /\ UNCHANGED <<serverVars, disk>>

-----------------------------------------------------------------------------
(* The server *)

\* The answer carries the token issued last.
Reply(c) ==
    /\ IssueRefresh(c)
    /\ reply' = [reply EXCEPT ![c] = drawn + 1]
    /\ UNCHANGED phoneVars

\* The handler of a refresh that dies has no answer to give.
Break(c) ==
    /\ Crash(c)
    /\ lost' = (lost \/ pc[c] # "session")
    /\ UNCHANGED <<reply, store, disk, lock, step, asked, call>>

Serve(c) ==
    /\ \/ BurnFamily(c) \/ MarkUsed(c) \/ RevokeRotated(c) \/ IssueAccess(c)
       \/ LogoutFamily(c)
    /\ UNCHANGED <<reply, phoneVars>>

\* Time and the administrator.
Withdraw ==
    /\ \/ \E t \in Tokens : kind[t] = "refresh" /\ Expire(t)
       \/ \E d \in Devices : BlockDevice(d)
       \/ \E on \in BOOLEAN : SetActive(on)
    /\ UNCHANGED <<reply, phoneVars>>

-----------------------------------------------------------------------------

PhoneNext ==
    \/ \E th \in Threads :
          \/ Unauthorized(th) \/ EnterRefresh(th) \/ NothingToRefresh(th)
          \/ SavePair(th) \/ Refused(th) \/ NoAnswer(th) \/ SendAgain(th) \/ ClearFailed(th)
          \/ SignOut(th) \/ ClearSignedOut(th)
          \/ \E c \in Calls : Present(th, c) \/ PresentLogout(th, c)
    \/ \E c \in Calls : Reply(c) \/ Break(c) \/ Serve(c)
    \/ Flush \/ Die
    \/ Withdraw

PhoneSpec == PhoneInit /\ [][PhoneNext]_systemVars

-----------------------------------------------------------------------------
(* Properties *)

\* The refresh lock "is what keeps the app from triggering the server's own theft
\* detection against itself" (ApiClient.kt): two threads, a sign-out and a
\* server that withdraws the session never make the phone race with itself or
\* burn its family, as long as no request, no answer and no saved pair is lost.
NoFalseTheft == ~lost => burned = {} /\ raced = {}

\* Between two refreshes the phone holds the one refresh token of its family
\* that stands, as long as nothing is lost: none is left with the server that
\* the phone does not know of.
HoldsWhatStands ==
    ~lost /\ lock = NoThread /\ store # NoToken =>
        Standing(family[store]) \subseteq {store}

\* No thread is refreshing, and the session is gone from memory and from disk.
SignedOut == store = NoToken /\ disk = NoToken /\ lock = NoThread

\* A phone without a session, and without a refresh under way, stays without
\* one: no thread that still waits for the lock brings the session back.
SignedOutStays == [][SignedOut => SignedOut']_systemVars

=============================================================================
