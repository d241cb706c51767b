---------------------------- MODULE ControllerHub ----------------------------
(***************************************************************************)
(* The in-process registry of controller sessions, backend/app/ws/hub.py:   *)
(* which authenticated socket stands for a controller, and the futures that  *)
(* unlock requests wait on.  A command is known by the request that issued   *)
(* it: unlock() draws a fresh command_id for every request.                  *)
(*                                                                           *)
(* The operations below are the hub's part of a step; UnlockSystem conjoins  *)
(* them with what the caller does in the same step.  The hub's critical      *)
(* sections contain no await, so each runs to its end in one step of the     *)
(* event loop.                                                               *)
(***************************************************************************)
EXTENDS Integers

CONSTANTS
    Controllers,      \* controller codes
    Sessions,         \* websocket connections, each accepted once
    Requests,         \* unlock requests
    NoSession,        \* no connection
    CodeOf,           \* the controller that opened a connection
    TargetOf          \* the controller of the door a request is for

ASSUME SessionAssumption ==
    /\ NoSession \notin Sessions
    /\ CodeOf \in [Sessions -> Controllers]
    /\ TargetOf \in [Requests -> Controllers]

VARIABLES
    registered,   \* hub._sessions: the session that stands for a controller
    pendingIn,    \* the session whose pending dict holds the request's future
    future        \* the future itself

hubVars == <<registered, pendingIn, future>>

\* "none": no future; "waiting": created and not done; the others are done.
FutureStates == {"none", "waiting", "opened", "rejected", "offline"}

HubType ==
    /\ registered \in [Controllers -> Sessions \cup {NoSession}]
    /\ pendingIn \in [Requests -> Sessions \cup {NoSession}]
    /\ future \in [Requests -> FutureStates]

HubInit ==
    /\ registered = [c \in Controllers |-> NoSession]
    /\ pendingIn = [r \in Requests |-> NoSession]
    /\ future = [r \in Requests |-> "none"]

\* Every future of session s that is not done gets ControllerOffline.
FailPending(s) ==
    future' = [r \in Requests |->
                 IF pendingIn[r] = s /\ future[r] = "waiting" THEN "offline"
                 ELSE future[r]]

\* register(): an older session of the same controller is superseded.
MutantRegisterForgets(s) ==
    /\ registered' = [registered EXCEPT ![CodeOf[s]] = s]
    /\ UNCHANGED <<pendingIn, future>>

Register(s) ==
    /\ FailPending(registered[CodeOf[s]])
    /\ registered' = [registered EXCEPT ![CodeOf[s]] = s]
    /\ UNCHANGED pendingIn

\* unregister(): takes the entry out only if it is still this session's.
MutantUnregisterAny(s) ==
    /\ FailPending(s)
    /\ registered' = [registered EXCEPT ![CodeOf[s]] = NoSession]
    /\ UNCHANGED pendingIn

MutantUnregisterNone(s) ==
    /\ FailPending(s)
    /\ UNCHANGED <<registered, pendingIn>>

Unregister(s) ==
    /\ FailPending(s)
    /\ registered' = [registered EXCEPT ![CodeOf[s]] = IF @ = s THEN NoSession ELSE @]
    /\ UNCHANGED pendingIn

IsOnline(c) == registered[c] # NoSession

\* send_command() up to its first suspension: the future is filed under the
\* session that stands for the controller now.
FileCommand(r) ==
    /\ pendingIn' = [pendingIn EXCEPT ![r] = registered[TargetOf[r]]]
    /\ future' = [future EXCEPT ![r] = "waiting"]
    /\ UNCHANGED registered

\* send_command()'s finally clause.
PopCommand(r) ==
    /\ pendingIn' = [pendingIn EXCEPT ![r] = NoSession]
    /\ future' = [future EXCEPT ![r] = "none"]
    /\ UNCHANGED registered

\* resolve(): only a future of the session the ack came in on, and only once.
MutantResolveOpened(s, r, result) ==
    /\ future' = IF pendingIn[r] = s /\ future[r] = "waiting"
                 THEN [future EXCEPT ![r] = "opened"]
                 ELSE future
    /\ UNCHANGED <<registered, pendingIn>>

Resolve(s, r, result) ==
    /\ future' = IF pendingIn[r] = s /\ future[r] = "waiting"
                 THEN [future EXCEPT ![r] = result]
                 ELSE future
    /\ UNCHANGED <<registered, pendingIn>>

\* The process is restarted: the registry is empty.
HubReset ==
    /\ registered' = [c \in Controllers |-> NoSession]
    /\ pendingIn' = [r \in Requests |-> NoSession]
    /\ future' = [r \in Requests |-> "none"]

=============================================================================
