---------------------------- MODULE UnlockSystem ----------------------------
(***************************************************************************)
(* A door being unlocked, end to end: the request handler of                *)
(* backend/app/services/unlock_service.py, the controller sockets of          *)
(* backend/app/ws/controller_ws.py over the hub, the network in between, and *)
(* the controller's command handler in firmware/esp32/src/acs_ws.cpp.         *)
(*                                                                            *)
(* The backend is one asyncio process: a step of a request runs from one      *)
(* await to the next, and everything else may happen in between.  What the    *)
(* handler learned before an await it uses after it.  A controller that loses *)
(* its connection opens another one, and the server may notice the loss late  *)
(* or never; what was on its way in either direction then may be lost.        *)
(*                                                                            *)
(* Two commands on one socket keep no order here. TCP keeps it; nothing below *)
(* depends on it.                                                             *)
(***************************************************************************)
EXTENDS ControllerHub

VARIABLES
    pc,          \* where each request is in unlock()
    result,      \* how it was answered
    rows,        \* its rows in the audit log
    doorRow,     \* is_blocked of the controller, as read with the door (step 1)
    sock,        \* each websocket, as the server sees it
    link,        \* the connection each controller reads from
    down,        \* commands on their way to the controller, per connection
    up,          \* acknowledgements on their way to the server, per connection
    opened,      \* requests for which a relay was energised
    blocked,     \* controllers with is_blocked
    permitted,   \* requests whose user holds a live grant, inside its window
    startedBlocked,  \* history: the controller was blocked when it started
    neverHeld        \* history: no live grant at any time since it started

reqVars == <<pc, result, rows, doorRow>>
netVars == <<sock, link, down, up>>
dbVars == <<blocked, permitted>>
histVars == <<startedBlocked, neverHeld>>
vars == <<hubVars, reqVars, netVars, opened, dbVars, histVars>>

-----------------------------------------------------------------------------

Phases == {"idle", "requested", "door", "permitted", "present", "online",
           "signed", "granted", "awaiting", "acked", "done"}

Answers == {"none", "denied", "limited", "failed", "error", "confirmed"}

Events == {"requested", "denied", "limited", "granted", "failed", "confirmed"}

SocketStates == {"new", "challenged", "verified", "open", "closing", "closed"}

\* Requests, futures, sockets and messages on their way have the shape the
\* handler, the hub and the firmware give them.
TypeOK ==
    /\ HubType
    /\ pc \in [Requests -> Phases]
    /\ result \in [Requests -> Answers]
    /\ rows \in [Requests -> SUBSET Events]
    /\ doorRow \in [Requests -> BOOLEAN]
    /\ sock \in [Sessions -> SocketStates]
    /\ link \in [Controllers -> Sessions \cup {NoSession}]
    /\ down \in [Sessions -> SUBSET Requests]
    /\ up \in [Sessions -> SUBSET (Requests \X {"opened", "rejected"})]
    /\ opened \subseteq Requests
    /\ blocked \subseteq Controllers
    /\ permitted \subseteq Requests
    /\ startedBlocked \subseteq Requests
    /\ neverHeld \subseteq Requests

Init ==
    /\ HubInit
    /\ pc = [r \in Requests |-> "idle"]
    /\ result = [r \in Requests |-> "none"]
    /\ rows = [r \in Requests |-> {}]
    /\ doorRow = [r \in Requests |-> FALSE]
    /\ sock = [s \in Sessions |-> "new"]
    /\ link = [c \in Controllers |-> NoSession]
    /\ down = [s \in Sessions |-> {}]
    /\ up = [s \in Sessions |-> {}]
    /\ opened = {}
    /\ blocked = {}
    /\ permitted \in SUBSET Requests
    /\ startedBlocked = {}
    /\ neverHeld = {}

-----------------------------------------------------------------------------
(* The request handler: one action per stretch between two awaits *)

\* The request goes from one await to the next.
Go(r, from, to) ==
    /\ pc[r] = from
    /\ pc' = [pc EXCEPT ![r] = to]

\* The row is written and the exception is raised: unlock() is over.
Finish(r, event, answer) ==
    /\ pc' = [pc EXCEPT ![r] = "done"]
    /\ result' = [result EXCEPT ![r] = answer]
    /\ rows' = [rows EXCEPT ![r] = @ \cup {event}]

Record(r, event) == rows' = [rows EXCEPT ![r] = @ \cup {event}]

\* _deny(): reachable from every check before the command is signed and granted.
Deny(r) ==
    /\ Finish(r, "denied", "denied")
    /\ UNCHANGED <<doorRow, hubVars, netVars, opened, dbVars, histVars>>

Start(r) ==
    /\ Go(r, "idle", "requested")
    /\ Record(r, "requested")
    /\ startedBlocked' = IF TargetOf[r] \in blocked THEN startedBlocked \cup {r} ELSE startedBlocked
    /\ neverHeld' = IF r \in permitted THEN neverHeld ELSE neverHeld \cup {r}
    /\ UNCHANGED <<result, doorRow, hubVars, netVars, opened, dbVars>>

\* 1: the door row, its controller's is_blocked joined in.
ReadDoor(r) ==
    /\ Go(r, "requested", "door")
    /\ doorRow' = [doorRow EXCEPT ![r] = TargetOf[r] \in blocked]
    /\ UNCHANGED <<result, rows, hubVars, netVars, opened, dbVars, histVars>>

DoorUnavailable(r) == pc[r] = "requested" /\ Deny(r)

\* 2: permissions.effective().
CheckPermission(r) ==
    /\ r \in permitted
    /\ Go(r, "door", "permitted")
    /\ UNCHANGED <<result, rows, doorRow, hubVars, netVars, opened, dbVars, histVars>>

NoPermission(r) == pc[r] = "door" /\ r \notin permitted /\ Deny(r)

\* 3 and 4: the controller is not blocked, by the row read in step 1, and the
\* beacon identifier is one of the recent ones.
MutantIgnoreBlock(r) ==
    /\ Go(r, "permitted", "present")
    /\ UNCHANGED <<result, rows, doorRow, hubVars, netVars, opened, dbVars, histVars>>

CheckPresence(r) ==
    /\ ~doorRow[r]
    /\ Go(r, "permitted", "present")
    /\ UNCHANGED <<result, rows, doorRow, hubVars, netVars, opened, dbVars, histVars>>

NotPresent(r) == pc[r] = "permitted" /\ Deny(r)

\* 5 and 6: within the rate budget, and the controller has a session.
CheckOnline(r) ==
    /\ IsOnline(TargetOf[r])
    /\ Go(r, "present", "online")
    /\ UNCHANGED <<result, rows, doorRow, hubVars, netVars, opened, dbVars, histVars>>

RateLimited(r) ==
    /\ pc[r] = "present"
    /\ Finish(r, "limited", "limited")
    /\ UNCHANGED <<doorRow, hubVars, netVars, opened, dbVars, histVars>>

Offline(r) == pc[r] = "present" /\ ~IsOnline(TargetOf[r]) /\ Deny(r)

\* 7: the signer signs, or is unavailable or refuses: then a denied row is written
\* and the phone is told that it failed.
Sign(r) ==
    /\ Go(r, "online", "signed")
    /\ UNCHANGED <<result, rows, doorRow, hubVars, netVars, opened, dbVars, histVars>>

SignerRefuses(r) ==
    /\ pc[r] = "online"
    /\ Finish(r, "denied", "failed")
    /\ UNCHANGED <<doorRow, hubVars, netVars, opened, dbVars, histVars>>

RecordGrant(r) ==
    /\ Go(r, "signed", "granted")
    /\ Record(r, "granted")
    /\ UNCHANGED <<result, doorRow, hubVars, netVars, opened, dbVars, histVars>>

\* 8: send_command() to the session registered now.
Dispatch(r) ==
    LET s == registered[TargetOf[r]]
    IN  /\ s # NoSession
        /\ sock[s] = "open"
        /\ Go(r, "granted", "awaiting")
        /\ FileCommand(r)
        /\ down' = [down EXCEPT ![s] = @ \cup {r}]
        /\ UNCHANGED <<result, rows, doorRow, sock, link, up, opened, dbVars, histVars>>

\* No session: ControllerOffline, and the failure is recorded.
DispatchOffline(r) ==
    /\ pc[r] = "granted"
    /\ registered[TargetOf[r]] = NoSession
    /\ Finish(r, "failed", "failed")
    /\ UNCHANGED <<doorRow, hubVars, netVars, opened, dbVars, histVars>>

\* The heartbeat has closed the socket, or its peer has, and the receive loop has
\* not noticed yet: send() raises RuntimeError or WebSocketDisconnect, neither of
\* which unlock() catches. The future is popped again and no row is written.
DispatchClosing(r) ==
    LET s == registered[TargetOf[r]]
    IN  /\ pc[r] = "granted"
        /\ s # NoSession
        /\ sock[s] = "closing" \/ link[TargetOf[r]] # s
        /\ pc' = [pc EXCEPT ![r] = "done"]
        /\ result' = [result EXCEPT ![r] = "error"]
        /\ UNCHANGED <<rows, doorRow, hubVars, netVars, opened, dbVars, histVars>>

\* The future is done with an exception, or the ack is not "opened": _fail().
CommandFailed(r) ==
    /\ pc[r] = "awaiting"
    /\ future[r] \in {"offline", "rejected"}
    /\ PopCommand(r)
    /\ Finish(r, "failed", "failed")
    /\ UNCHANGED <<doorRow, netVars, opened, dbVars, histVars>>

\* wait_for() gives up. The timer may win over a future that is done and whose
\* waiter has not run yet.
MutantNoTimeout(r) == FALSE /\ UNCHANGED vars

MutantTimeoutDenies(r) ==
    /\ pc[r] = "awaiting"
    /\ PopCommand(r)
    /\ Finish(r, "denied", "denied")
    /\ UNCHANGED <<doorRow, netVars, opened, dbVars, histVars>>

TimedOut(r) ==
    /\ pc[r] = "awaiting"
    /\ PopCommand(r)
    /\ Finish(r, "failed", "failed")
    /\ UNCHANGED <<doorRow, netVars, opened, dbVars, histVars>>

Acknowledged(r) ==
    /\ future[r] = "opened"
    /\ Go(r, "awaiting", "acked")
    /\ PopCommand(r)
    /\ UNCHANGED <<result, rows, doorRow, netVars, opened, dbVars, histVars>>

Confirm(r) ==
    /\ pc[r] = "acked"
    /\ Finish(r, "confirmed", "confirmed")
    /\ UNCHANGED <<doorRow, hubVars, netVars, opened, dbVars, histVars>>

\* A query of the handler, the insert of _deny() or of _fail() included, raises:
\* the phone gets a 500 and no row is written. A future it waited on is popped.
DatabaseError(r) ==
    /\ pc[r] \notin {"idle", "done"}
    /\ pc' = [pc EXCEPT ![r] = "done"]
    /\ result' = [result EXCEPT ![r] = "error"]
    /\ PopCommand(r)
    /\ UNCHANGED <<rows, doorRow, netVars, opened, dbVars, histVars>>

-----------------------------------------------------------------------------
(* Sockets, as the server sees them *)

\* The controller opens a connection and gives up the one it had; the server
\* accepts it and sends the challenge.
Connect(s) ==
    /\ sock[s] = "new"
    /\ sock' = [sock EXCEPT ![s] = "challenged"]
    /\ link' = [link EXCEPT ![CodeOf[s]] = s]
    /\ UNCHANGED <<down, up, hubVars, reqVars, opened, dbVars, histVars>>

\* The answer verifies against the key of a controller that is not blocked. The
\* controller may have left the connection since it sent the answer.
Authenticate(s) ==
    /\ sock[s] = "challenged"
    /\ CodeOf[s] \notin blocked
    /\ sock' = [sock EXCEPT ![s] = "verified"]
    /\ UNCHANGED <<link, down, up, hubVars, reqVars, opened, dbVars, histVars>>

\* Handshake timeout, bad signature, unknown or blocked controller, or the
\* connection is lost before it is registered.
HandshakeFails(s) ==
    /\ sock[s] \in {"challenged", "verified"}
    /\ sock' = [sock EXCEPT ![s] = "closed"]
    /\ UNCHANGED <<link, down, up, hubVars, reqVars, opened, dbVars, histVars>>

\* After touch_seen, the audit row and auth_ok, each of them an await.
RegisterSocket(s) ==
    /\ sock[s] = "verified"
    /\ Register(s)
    /\ sock' = [sock EXCEPT ![s] = "open"]
    /\ UNCHANGED <<link, down, up, reqVars, opened, dbVars, histVars>>

\* _heartbeat(): no pong for too long, so the server closes the socket.
MutantPingOnly(s) == sock[s] = "open" /\ UNCHANGED vars

HeartbeatClose(s) ==
    /\ sock[s] = "open"
    /\ sock' = [sock EXCEPT ![s] = "closing"]
    /\ UNCHANGED <<link, down, up, hubVars, reqVars, opened, dbVars, histVars>>

\* The receive loop ends, and its finally clause unregisters the session.
SocketGone(s) ==
    /\ sock[s] \in {"open", "closing"}
    /\ Unregister(s)
    /\ sock' = [sock EXCEPT ![s] = "closed"]
    /\ UNCHANGED <<link, down, up, reqVars, opened, dbVars, histVars>>

\* An ack arrives on s, whether or not s still stands for its controller.
ReceiveAck(s, r, verdict) ==
    /\ sock[s] \in {"open", "closing"}
    /\ <<r, verdict>> \in up[s]
    /\ Resolve(s, r, verdict)
    /\ up' = [up EXCEPT ![s] = @ \ {<<r, verdict>>}]
    /\ UNCHANGED <<sock, link, down, reqVars, opened, dbVars, histVars>>

\* The API process is restarted: its sessions, futures and requests are gone.
ApiRestart ==
    /\ HubReset
    /\ sock' = [s \in Sessions |-> IF sock[s] = "new" THEN "new" ELSE "closed"]
    /\ pc' = [r \in Requests |-> IF pc[r] = "idle" THEN "idle" ELSE "done"]
    /\ result' = [r \in Requests |->
                    IF pc[r] \in {"idle", "done"} THEN result[r] ELSE "error"]
    /\ UNCHANGED <<rows, doorRow, link, down, up, opened, dbVars, histVars>>

-----------------------------------------------------------------------------
(* The controller *)

\* Wi-Fi, power or the server is lost, or the board's own heartbeat gives up.
LinkLost(c) ==
    /\ link[c] # NoSession
    /\ link' = [link EXCEPT ![c] = NoSession]
    /\ UNCHANGED <<sock, down, up, hubVars, reqVars, opened, dbVars, histVars>>

\* The controller acknowledges on the connection the command came in on.
Ack(s, r, verdict) ==
    /\ down' = [down EXCEPT ![s] = @ \ {r}]
    /\ up' = [up EXCEPT ![s] = @ \cup {<<r, verdict>>}]

\* handleCommand(): signature, controller, clock, freshness and replay are in
\* order, the relay is energised and "opened" sent.
OpenDoor(c, r) ==
    /\ link[c] # NoSession
    /\ r \in down[link[c]]
    /\ opened' = opened \cup {r}
    /\ Ack(link[c], r, "opened")
    /\ UNCHANGED <<sock, link, hubVars, reqVars, dbVars, histVars>>

\* handleCommand(): any of the checks refuses.
MutantRejectNamesReason(c, r) ==
    /\ link[c] # NoSession
    /\ r \in down[link[c]]
    /\ Ack(link[c], r, "command expired")
    /\ UNCHANGED <<sock, link, hubVars, opened, reqVars, dbVars, histVars>>

RejectCommand(c, r) ==
    /\ link[c] # NoSession
    /\ r \in down[link[c]]
    /\ Ack(link[c], r, "rejected")
    /\ UNCHANGED <<sock, link, hubVars, opened, reqVars, dbVars, histVars>>

-----------------------------------------------------------------------------
(* The administrator and the clock *)

\* controllers.block(); nothing unblocks. The socket is left as it is.
BlockController(c) ==
    /\ blocked' = blocked \cup {c}
    /\ UNCHANGED <<permitted, hubVars, reqVars, netVars, opened, histVars>>

\* A grant is made, or its daily window opens.
PermissionStarts(r) ==
    /\ permitted' = permitted \cup {r}
    /\ neverHeld' = neverHeld \ {r}
    /\ UNCHANGED <<blocked, startedBlocked, hubVars, reqVars, netVars, opened>>

\* A grant is revoked, or its window closes.
PermissionEnds(r) ==
    /\ permitted' = permitted \ {r}
    /\ UNCHANGED <<blocked, hubVars, reqVars, netVars, opened, histVars>>

-----------------------------------------------------------------------------

\* What the event loop does for a request that is under way.
Handle(r) ==
    \/ ReadDoor(r) \/ DoorUnavailable(r)
    \/ CheckPermission(r) \/ NoPermission(r)
    \/ CheckPresence(r) \/ NotPresent(r)
    \/ CheckOnline(r) \/ RateLimited(r) \/ Offline(r)
    \/ Sign(r) \/ SignerRefuses(r)
    \/ RecordGrant(r)
    \/ Dispatch(r) \/ DispatchOffline(r) \/ DispatchClosing(r)
    \/ CommandFailed(r) \/ TimedOut(r) \/ Acknowledged(r)
    \/ Confirm(r)

Serve(s) ==
    \/ Connect(s) \/ Authenticate(s) \/ HandshakeFails(s) \/ RegisterSocket(s)
    \/ HeartbeatClose(s) \/ SocketGone(s)
    \/ \E r \in Requests, verdict \in {"opened", "rejected"} : ReceiveAck(s, r, verdict)

Control(c) ==
    \/ LinkLost(c) \/ BlockController(c)
    \/ \E r \in Requests : OpenDoor(c, r) \/ RejectCommand(c, r)

Next ==
    \/ \E r \in Requests : Start(r) \/ Handle(r) \/ DatabaseError(r)
                         \/ PermissionStarts(r) \/ PermissionEnds(r)
    \/ \E s \in Sessions : Serve(s)
    \/ \E c \in Controllers : Control(c)
    \/ ApiRestart

Spec == Init /\ [][Next]_vars

\* The event loop runs every task that is ready, queries end, the signer client
\* and wait_for have timeouts; the heartbeat task runs, and a connection the
\* controller has left stops answering it. Nothing else is assumed: a query may
\* fail but need not, and nothing is known of the controller, the network or
\* the administrator.
Fairness ==
    /\ \A r \in Requests : WF_vars(Handle(r))
    /\ \A s \in Sessions :
          /\ WF_vars(link[CodeOf[s]] # s /\ HeartbeatClose(s))
          /\ WF_vars(sock[s] = "closing" /\ SocketGone(s))

FairSpec == Spec /\ Fairness

-----------------------------------------------------------------------------
(* Properties *)

\* A future that is still waiting is filed under the session registered for its
\* controller: whatever ends that session, register() or unregister(), will end
\* the wait too. No request waits on a socket nobody looks at.
NoOrphanFuture ==
    \A r \in Requests : future[r] = "waiting" =>
        /\ registered[TargetOf[r]] # NoSession
        /\ pendingIn[r] = registered[TargetOf[r]]

\* A controller is reported online only while the socket task of the session
\* that stands for it runs.
RegisteredIsLive ==
    \A c \in Controllers : registered[c] # NoSession =>
        sock[registered[c]] \in {"open", "closing"} /\ CodeOf[registered[c]] = c

\* A controller goes offline only when the socket registered for it ends: the
\* late end of a superseded socket takes nothing away from its successor.
OfflineByOwnEnd ==
    [][\A c \in Controllers :
          registered[c] # NoSession /\ registered'[c] = NoSession
             => sock'[registered[c]] = "closed"]_vars

\* The door never opens for a request whose controller was blocked before the
\* request began, nor for a user who held no live grant at any time since.
EntitledOpens == opened \cap (startedBlocked \cup neverHeld) = {}

\* A refusal on record is final: a request with a denied or a rate limit row, the
\* signer's refusal included, never opens the door, then or later.
RefusalIsFinal ==
    \A r \in Requests : rows[r] \cap {"denied", "limited"} # {} => r \notin opened

\* What the phone has been told, for the contract.
Answer(r) ==
    IF pc[r] = "idle" THEN "none"
    ELSE IF pc[r] # "done" THEN "pending"
    ELSE IF result[r] = "confirmed" THEN "opened"
    ELSE "not_opened"

Contract == INSTANCE DoorContract WITH
    answer <- [r \in Requests |-> Answer(r)],
    granted <- {r \in Requests : "granted" \in rows[r]},
    open <- opened

\* The unlock endpoint honours its contract: the door opens only after the
\* grant is on record, "opened" is said only after it opened, and no answer is
\* ever taken back, whatever happens to sockets, sessions and the process.
ContractHonoured == Contract!Spec

\* Every unlock request is answered: no wait on a controller, a socket or a
\* future is for ever.
EveryRequestAnswered == \A r \in Requests : pc[r] # "idle" ~> pc[r] = "done"

\* A connection that its controller has left does not stay registered: the
\* controller ends up offline or under a newer connection.
DeadLinkNoticed ==
    \A s \in Sessions :
        registered[CodeOf[s]] = s /\ link[CodeOf[s]] # s ~> registered[CodeOf[s]] # s

=============================================================================
