------------------------- MODULE UnlockSystemProofs -------------------------
(***************************************************************************)
(* What the unlock path guarantees for any number of requests, controllers  *)
(* and connections: proofs of the safety properties of UnlockSystem, and of *)
(* the contract it implements.                                              *)
(***************************************************************************)
EXTENDS UnlockSystem, TLAPS

-----------------------------------------------------------------------------
(* The inductive invariant *)

\* The phases of unlock() after the grant is recorded.
AfterGrant == {"granted", "awaiting", "acked"}

\* "opened" is never said, at any stage on its way to the phone, of a door that
\* has not opened.
AckInv ==
    /\ \A s \in Sessions, r \in Requests : <<r, "opened">> \in up[s] => r \in opened
    /\ \A r \in Requests : future[r] = "opened" => r \in opened
    /\ \A r \in Requests : pc[r] = "acked" => r \in opened
    /\ \A r \in Requests : result[r] = "confirmed" => r \in opened

\* What has been sent was granted, and what was granted is not refused.
GrantInv ==
    /\ \A s \in Sessions, r \in Requests : r \in down[s] => "granted" \in rows[r]
    /\ \A r \in Requests : r \in opened => "granted" \in rows[r]
    /\ \A r \in Requests : pc[r] \in AfterGrant => "granted" \in rows[r]
    /\ \A r \in Requests : "granted" \in rows[r] =>
          pc[r] \in AfterGrant \cup {"done"} /\ rows[r] \cap {"denied", "limited"} = {}
    /\ \A r \in Requests : rows[r] \cap {"denied", "limited"} # {} => pc[r] = "done"
    /\ \A r \in Requests : result[r] # "none" => pc[r] = "done"

\* A request that has passed a check was entitled to.
EntitledInv ==
    /\ \A r \in Requests : r \in startedBlocked =>
          /\ pc[r] \in {"door", "permitted"} => doorRow[r]
          /\ pc[r] \in {"requested", "door", "permitted", "done"}
          /\ "granted" \notin rows[r]
    /\ \A r \in Requests : r \in neverHeld =>
          /\ pc[r] \in {"requested", "door", "done"}
          /\ "granted" \notin rows[r]
    /\ \A r \in startedBlocked : TargetOf[r] \in blocked
    /\ neverHeld \cap permitted = {}

IInv ==
    /\ TypeOK
    /\ NoOrphanFuture
    /\ RegisteredIsLive
    /\ AckInv
    /\ GrantInv
    /\ EntitledInv

-----------------------------------------------------------------------------
(* The invariant holds initially and is preserved by every step *)

LEMMA InitInv == Init => IInv
BY SessionAssumption DEF Init, HubInit, IInv, TypeOK, HubType, FutureStates, Phases,
    Answers, Events, SocketStates, NoOrphanFuture, RegisteredIsLive, AckInv, GrantInv,
    EntitledInv, AfterGrant

\* A request begins: nothing of it is in flight yet.
LEMMA StartInv ==
    ASSUME IInv, NEW r \in Requests, Start(r)
    PROVE  IInv'
<1>1. TypeOK'
  BY DEF IInv, TypeOK, HubType, FutureStates, Phases, Answers, Events, SocketStates,
       Start, Go, Record, hubVars, netVars, dbVars
<1>2. NoOrphanFuture' /\ RegisteredIsLive'
  BY DEF IInv, TypeOK, HubType, NoOrphanFuture, RegisteredIsLive, Start, Go, Record,
       hubVars, netVars, dbVars
<1>3. AckInv'
  BY DEF IInv, TypeOK, HubType, AckInv, Start, Go, Record, hubVars, netVars, dbVars
<1>4. GrantInv'
  BY DEF IInv, TypeOK, HubType, GrantInv, AfterGrant, Start, Go, Record, hubVars,
       netVars, dbVars
<1>5. EntitledInv'
  <2>1. pc'[r] = "requested" /\ "granted" \notin rows'[r]
    BY DEF IInv, TypeOK, GrantInv, AfterGrant, Start, Go, Record
  <2>2. \A q \in Requests : q # r =>
           /\ q \in startedBlocked' <=> q \in startedBlocked
           /\ q \in neverHeld' <=> q \in neverHeld
           /\ pc'[q] = pc[q] /\ rows'[q] = rows[q] /\ doorRow'[q] = doorRow[q]
    BY DEF IInv, TypeOK, Start, Go, Record
  <2>3. \A q \in startedBlocked' : TargetOf[q] \in blocked'
    BY DEF IInv, EntitledInv, Start, dbVars
  <2>4. neverHeld' \cap permitted' = {}
    BY DEF IInv, EntitledInv, Start, dbVars
  <2>. QED BY <2>1, <2>2, <2>3, <2>4 DEF IInv, EntitledInv
<1>. QED BY <1>1, <1>2, <1>3, <1>4, <1>5 DEF IInv

\* The door row shows a block that was there when the request began.
LEMMA ReadDoorInv ==
    ASSUME IInv, NEW r \in Requests, ReadDoor(r)
    PROVE  IInv'
<1>1. TypeOK'
  BY SessionAssumption DEF IInv, TypeOK, HubType, FutureStates, Phases, Answers,
       Events, SocketStates, ReadDoor, Go, hubVars, netVars, dbVars, histVars
<1>2. NoOrphanFuture' /\ RegisteredIsLive'
  BY SessionAssumption DEF IInv, TypeOK, HubType, NoOrphanFuture, RegisteredIsLive,
       ReadDoor, Go, hubVars, netVars, dbVars, histVars
<1>3. AckInv'
  BY SessionAssumption DEF IInv, TypeOK, HubType, AckInv, ReadDoor, Go, hubVars,
       netVars, dbVars, histVars
<1>4. GrantInv'
  BY SessionAssumption DEF IInv, TypeOK, HubType, GrantInv, AfterGrant, ReadDoor,
       Go, hubVars, netVars, dbVars, histVars
<1>5. EntitledInv'
  BY SessionAssumption DEF IInv, TypeOK, HubType, EntitledInv, GrantInv, AfterGrant,
       ReadDoor, Go, hubVars, netVars, dbVars, histVars
<1>. QED BY <1>1, <1>2, <1>3, <1>4, <1>5 DEF IInv

\* A check passes: only the phase changes.
LEMMA CheckInv ==
    ASSUME IInv, NEW r \in Requests,
           CheckPermission(r) \/ CheckPresence(r) \/ CheckOnline(r) \/ Sign(r)
    PROVE  IInv'
<1>1. TypeOK'
  BY DEF IInv, TypeOK, HubType, FutureStates, Phases, Answers, Events, SocketStates,
       CheckPermission, CheckPresence, CheckOnline, Sign, Go, hubVars, netVars,
       dbVars, histVars
<1>2. NoOrphanFuture' /\ RegisteredIsLive'
  BY DEF IInv, TypeOK, HubType, NoOrphanFuture, RegisteredIsLive, CheckPermission,
       CheckPresence, CheckOnline, Sign, Go, hubVars, netVars, dbVars, histVars
<1>3. AckInv'
  BY DEF IInv, TypeOK, HubType, AckInv, CheckPermission, CheckPresence, CheckOnline,
       Sign, Go, hubVars, netVars, dbVars, histVars
<1>4. GrantInv'
  BY DEF IInv, TypeOK, HubType, GrantInv, AfterGrant, CheckPermission,
       CheckPresence, CheckOnline, Sign, Go, hubVars, netVars, dbVars, histVars
<1>5. EntitledInv'
  <2>1. CASE CheckPermission(r)
    BY <2>1 DEF IInv, TypeOK, EntitledInv, CheckPermission, Go, hubVars, netVars,
         dbVars, histVars
  <2>2. CASE CheckPresence(r)
    BY <2>2 DEF IInv, TypeOK, EntitledInv, CheckPresence, Go, hubVars, netVars,
         dbVars, histVars
  <2>3. CASE CheckOnline(r)
    BY <2>3 DEF IInv, TypeOK, EntitledInv, CheckOnline, Go, hubVars, netVars,
         dbVars, histVars
  <2>4. CASE Sign(r)
    BY <2>4 DEF IInv, TypeOK, EntitledInv, Sign, Go, hubVars, netVars, dbVars,
         histVars
  <2>. QED BY <2>1, <2>2, <2>3, <2>4
<1>. QED BY <1>1, <1>2, <1>3, <1>4, <1>5 DEF IInv

\* A check refuses, before anything was granted.
LEMMA RefuseInv ==
    ASSUME IInv, NEW r \in Requests,
           \/ DoorUnavailable(r) \/ NoPermission(r) \/ NotPresent(r)
           \/ Offline(r) \/ SignerRefuses(r) \/ RateLimited(r)
    PROVE  IInv'
<1>1. TypeOK'
  BY DEF IInv, TypeOK, HubType, FutureStates, Phases, Answers, Events, SocketStates,
       DoorUnavailable, NoPermission, NotPresent, Offline, SignerRefuses,
       RateLimited, Deny, Finish, hubVars, netVars, dbVars, histVars
<1>2. NoOrphanFuture' /\ RegisteredIsLive'
  BY DEF IInv, TypeOK, HubType, NoOrphanFuture, RegisteredIsLive, DoorUnavailable,
       NoPermission, NotPresent, Offline, SignerRefuses, RateLimited, Deny, Finish,
       hubVars, netVars, dbVars, histVars
<1>3. AckInv'
  BY DEF IInv, TypeOK, HubType, AckInv, DoorUnavailable, NoPermission, NotPresent,
       Offline, SignerRefuses, RateLimited, Deny, Finish, hubVars, netVars, dbVars,
       histVars
<1>4. GrantInv'
  BY DEF IInv, TypeOK, HubType, GrantInv, AfterGrant, DoorUnavailable, NoPermission,
       NotPresent, Offline, SignerRefuses, RateLimited, Deny, Finish, hubVars,
       netVars, dbVars, histVars
<1>5. EntitledInv'
  BY DEF IInv, TypeOK, HubType, EntitledInv, GrantInv, AfterGrant, DoorUnavailable,
       NoPermission, NotPresent, Offline, SignerRefuses, RateLimited, Deny, Finish,
       hubVars, netVars, dbVars, histVars
<1>. QED BY <1>1, <1>2, <1>3, <1>4, <1>5 DEF IInv

\* The grant is on record before the command is sent.
LEMMA RecordGrantInv ==
    ASSUME IInv, NEW r \in Requests, RecordGrant(r)
    PROVE  IInv'
<1>1. TypeOK'
  BY DEF IInv, TypeOK, HubType, FutureStates, Phases, Answers, Events, SocketStates,
       RecordGrant, Go, Record, hubVars, netVars, dbVars, histVars
<1>2. NoOrphanFuture' /\ RegisteredIsLive'
  BY DEF IInv, TypeOK, HubType, NoOrphanFuture, RegisteredIsLive, RecordGrant, Go,
       Record, hubVars, netVars, dbVars, histVars
<1>3. AckInv'
  BY DEF IInv, TypeOK, HubType, AckInv, RecordGrant, Go, Record, hubVars, netVars,
       dbVars, histVars
<1>4. GrantInv'
  BY DEF IInv, TypeOK, HubType, GrantInv, AfterGrant, RecordGrant, Go, Record,
       hubVars, netVars, dbVars, histVars
<1>5. EntitledInv'
  BY DEF IInv, TypeOK, HubType, EntitledInv, GrantInv, AfterGrant, RecordGrant, Go,
       Record, hubVars, netVars, dbVars, histVars
<1>. QED BY <1>1, <1>2, <1>3, <1>4, <1>5 DEF IInv

\* The future is filed under the session the command is sent on.
LEMMA DispatchInv ==
    ASSUME IInv, NEW r \in Requests, Dispatch(r)
    PROVE  IInv'
<1>1. TypeOK'
  BY SessionAssumption DEF IInv, TypeOK, HubType, FutureStates, Phases, Answers,
       Events, SocketStates, Dispatch, Go, FileCommand, dbVars, histVars
<1>2. NoOrphanFuture' /\ RegisteredIsLive'
  BY SessionAssumption DEF IInv, TypeOK, HubType, NoOrphanFuture, RegisteredIsLive,
       Dispatch, Go, FileCommand, dbVars, histVars
<1>3. AckInv'
  BY SessionAssumption DEF IInv, TypeOK, HubType, AckInv, Dispatch, Go, FileCommand,
       dbVars, histVars
<1>4. GrantInv'
  BY SessionAssumption DEF IInv, TypeOK, HubType, GrantInv, AfterGrant, Dispatch,
       Go, FileCommand, dbVars, histVars
<1>5. EntitledInv'
  BY SessionAssumption DEF IInv, TypeOK, HubType, EntitledInv, GrantInv, AfterGrant,
       Dispatch, Go, FileCommand, dbVars, histVars
<1>. QED BY <1>1, <1>2, <1>3, <1>4, <1>5 DEF IInv

\* The request ends without a wait: nobody is connected, or the send raises.
LEMMA BreakInv ==
    ASSUME IInv, NEW r \in Requests,
           DispatchOffline(r) \/ DispatchClosing(r)
    PROVE  IInv'
<1>1. TypeOK'
  BY DEF IInv, TypeOK, HubType, FutureStates, Phases, Answers, Events, SocketStates,
       DispatchOffline, DispatchClosing, Finish, hubVars, netVars,
       dbVars, histVars
<1>2. NoOrphanFuture' /\ RegisteredIsLive'
  BY DEF IInv, TypeOK, HubType, NoOrphanFuture, RegisteredIsLive, DispatchOffline,
       DispatchClosing, Finish, hubVars, netVars, dbVars, histVars
<1>3. AckInv'
  BY DEF IInv, TypeOK, HubType, AckInv, DispatchOffline, DispatchClosing,
       Finish, hubVars, netVars, dbVars, histVars
<1>4. GrantInv'
  BY DEF IInv, TypeOK, HubType, GrantInv, AfterGrant, DispatchOffline,
       DispatchClosing, Finish, hubVars, netVars, dbVars, histVars
<1>5. EntitledInv'
  BY DEF IInv, TypeOK, HubType, EntitledInv, GrantInv, AfterGrant, DispatchOffline,
       DispatchClosing, Finish, hubVars, netVars, dbVars, histVars
<1>. QED BY <1>1, <1>2, <1>3, <1>4, <1>5 DEF IInv

\* The wait ends, or a query raises: the future is popped, whatever became of it.
LEMMA WaitEndsInv ==
    ASSUME IInv, NEW r \in Requests,
           CommandFailed(r) \/ TimedOut(r) \/ Acknowledged(r) \/ DatabaseError(r)
    PROVE  IInv'
<1>1. TypeOK'
  BY DEF IInv, TypeOK, HubType, FutureStates, Phases, Answers, Events, SocketStates,
       CommandFailed, TimedOut, Acknowledged, DatabaseError, PopCommand, Finish, Go, netVars,
       dbVars, histVars
<1>2. NoOrphanFuture' /\ RegisteredIsLive'
  BY DEF IInv, TypeOK, HubType, NoOrphanFuture, RegisteredIsLive, CommandFailed,
       TimedOut, Acknowledged, DatabaseError, PopCommand, Finish, Go, netVars, dbVars, histVars
<1>3. AckInv'
  BY DEF IInv, TypeOK, HubType, AckInv, CommandFailed, TimedOut, Acknowledged,
       DatabaseError, PopCommand, Finish, Go, netVars, dbVars, histVars
<1>4. GrantInv'
  BY DEF IInv, TypeOK, HubType, GrantInv, AfterGrant, CommandFailed, TimedOut,
       Acknowledged, DatabaseError, PopCommand, Finish, Go, netVars, dbVars, histVars
<1>5. EntitledInv'
  BY DEF IInv, TypeOK, HubType, EntitledInv, GrantInv, AfterGrant, CommandFailed,
       TimedOut, Acknowledged, DatabaseError, PopCommand, Finish, Go, netVars, dbVars, histVars
<1>. QED BY <1>1, <1>2, <1>3, <1>4, <1>5 DEF IInv

\* The confirmation is recorded and answered.
LEMMA ConfirmInv ==
    ASSUME IInv, NEW r \in Requests, Confirm(r)
    PROVE  IInv'
<1>1. TypeOK'
  BY DEF IInv, TypeOK, HubType, FutureStates, Phases, Answers, Events, SocketStates,
       Confirm, Finish, hubVars, netVars, dbVars, histVars
<1>2. NoOrphanFuture' /\ RegisteredIsLive'
  BY DEF IInv, TypeOK, HubType, NoOrphanFuture, RegisteredIsLive, Confirm, Finish,
       hubVars, netVars, dbVars, histVars
<1>3. AckInv'
  BY DEF IInv, TypeOK, HubType, AckInv, Confirm, Finish, hubVars, netVars, dbVars,
       histVars
<1>4. GrantInv'
  BY DEF IInv, TypeOK, HubType, GrantInv, AfterGrant, Confirm, Finish, hubVars,
       netVars, dbVars, histVars
<1>5. EntitledInv'
  BY DEF IInv, TypeOK, HubType, EntitledInv, GrantInv, AfterGrant, Confirm, Finish,
       hubVars, netVars, dbVars, histVars
<1>. QED BY <1>1, <1>2, <1>3, <1>4, <1>5 DEF IInv

\* Grants come and go.
LEMMA PermissionInv ==
    ASSUME IInv, NEW r \in Requests, PermissionStarts(r) \/ PermissionEnds(r)
    PROVE  IInv'
<1>1. TypeOK'
  BY DEF IInv, TypeOK, HubType, FutureStates, Phases, Answers, Events, SocketStates,
       PermissionStarts, PermissionEnds, hubVars, reqVars, netVars, histVars
<1>2. NoOrphanFuture' /\ RegisteredIsLive'
  BY DEF IInv, TypeOK, HubType, NoOrphanFuture, RegisteredIsLive, PermissionStarts,
       PermissionEnds, hubVars, reqVars, netVars, histVars
<1>3. AckInv'
  BY DEF IInv, TypeOK, HubType, AckInv, PermissionStarts, PermissionEnds, hubVars,
       reqVars, netVars, histVars
<1>4. GrantInv'
  BY DEF IInv, TypeOK, HubType, GrantInv, AfterGrant, PermissionStarts,
       PermissionEnds, hubVars, reqVars, netVars, histVars
<1>5. EntitledInv'
  BY DEF IInv, TypeOK, HubType, EntitledInv, GrantInv, AfterGrant, PermissionStarts,
       PermissionEnds, hubVars, reqVars, netVars, histVars
<1>. QED BY <1>1, <1>2, <1>3, <1>4, <1>5 DEF IInv

\* A connection that is not registered concerns nobody else.
LEMMA HandshakeInv ==
    ASSUME IInv, NEW s \in Sessions,
           Connect(s) \/ Authenticate(s) \/ HandshakeFails(s) \/ HeartbeatClose(s)
    PROVE  IInv'
<1>1. TypeOK'
  BY DEF IInv, TypeOK, HubType, FutureStates, Phases, Answers, Events, SocketStates,
       Connect, Authenticate, HandshakeFails, HeartbeatClose, hubVars, reqVars,
       dbVars, histVars
<1>2. NoOrphanFuture' /\ RegisteredIsLive'
  BY DEF IInv, TypeOK, HubType, NoOrphanFuture, RegisteredIsLive, Connect,
       Authenticate, HandshakeFails, HeartbeatClose, hubVars, reqVars, dbVars,
       histVars
<1>3. AckInv'
  BY DEF IInv, TypeOK, HubType, AckInv, Connect, Authenticate, HandshakeFails,
       HeartbeatClose, hubVars, reqVars, dbVars, histVars
<1>4. GrantInv'
  BY DEF IInv, TypeOK, HubType, GrantInv, AfterGrant, Connect, Authenticate,
       HandshakeFails, HeartbeatClose, hubVars, reqVars, dbVars, histVars
<1>5. EntitledInv'
  BY DEF IInv, TypeOK, HubType, EntitledInv, GrantInv, AfterGrant, Connect,
       Authenticate, HandshakeFails, HeartbeatClose, hubVars, reqVars, dbVars,
       histVars
<1>. QED BY <1>1, <1>2, <1>3, <1>4, <1>5 DEF IInv

\* register() fails every future of the session it supersedes.
LEMMA RegisterInv ==
    ASSUME IInv, NEW s \in Sessions, RegisterSocket(s)
    PROVE  IInv'
<1>1. TypeOK'
  BY SessionAssumption DEF IInv, TypeOK, HubType, FutureStates, Phases, Answers,
       Events, SocketStates, RegisterSocket, Register, FailPending, reqVars, dbVars,
       histVars
<1>2. NoOrphanFuture' /\ RegisteredIsLive'
  BY SessionAssumption DEF IInv, TypeOK, HubType, NoOrphanFuture, RegisteredIsLive,
       RegisterSocket, Register, FailPending, reqVars, dbVars, histVars
<1>3. AckInv'
  BY SessionAssumption DEF IInv, TypeOK, HubType, AckInv, RegisterSocket, Register,
       FailPending, reqVars, dbVars, histVars
<1>4. GrantInv'
  BY SessionAssumption DEF IInv, TypeOK, HubType, GrantInv, AfterGrant,
       RegisterSocket, Register, FailPending, reqVars, dbVars, histVars
<1>5. EntitledInv'
  BY SessionAssumption DEF IInv, TypeOK, HubType, EntitledInv, GrantInv, AfterGrant,
       RegisterSocket, Register, FailPending, reqVars, dbVars, histVars
<1>. QED BY <1>1, <1>2, <1>3, <1>4, <1>5 DEF IInv

\* unregister() fails the futures of its own session, and only takes its own
\* entry out.
LEMMA SocketGoneInv ==
    ASSUME IInv, NEW s \in Sessions, SocketGone(s)
    PROVE  IInv'
<1>1. TypeOK'
  BY SessionAssumption DEF IInv, TypeOK, HubType, FutureStates, Phases, Answers,
       Events, SocketStates, SocketGone, Unregister, FailPending, reqVars, dbVars,
       histVars
<1>2. NoOrphanFuture' /\ RegisteredIsLive'
  BY SessionAssumption DEF IInv, TypeOK, HubType, NoOrphanFuture, RegisteredIsLive,
       SocketGone, Unregister, FailPending, reqVars, dbVars, histVars
<1>3. AckInv'
  BY SessionAssumption DEF IInv, TypeOK, HubType, AckInv, SocketGone, Unregister,
       FailPending, reqVars, dbVars, histVars
<1>4. GrantInv'
  BY SessionAssumption DEF IInv, TypeOK, HubType, GrantInv, AfterGrant, SocketGone,
       Unregister, FailPending, reqVars, dbVars, histVars
<1>5. EntitledInv'
  BY SessionAssumption DEF IInv, TypeOK, HubType, EntitledInv, GrantInv, AfterGrant,
       SocketGone, Unregister, FailPending, reqVars, dbVars, histVars
<1>. QED BY <1>1, <1>2, <1>3, <1>4, <1>5 DEF IInv

\* An ack resolves a future of the session it came in on, or nothing.
LEMMA ReceiveAckInv ==
    ASSUME IInv, NEW s \in Sessions, NEW r \in Requests,
           NEW verdict \in {"opened", "rejected"}, ReceiveAck(s, r, verdict)
    PROVE  IInv'
<1>1. TypeOK'
  BY DEF IInv, TypeOK, HubType, FutureStates, Phases, Answers, Events, SocketStates,
       ReceiveAck, Resolve, reqVars, dbVars, histVars
<1>2. NoOrphanFuture' /\ RegisteredIsLive'
  BY DEF IInv, TypeOK, HubType, NoOrphanFuture, RegisteredIsLive, ReceiveAck,
       Resolve, reqVars, dbVars, histVars
<1>3. AckInv'
  BY DEF IInv, TypeOK, HubType, AckInv, ReceiveAck, Resolve, reqVars, dbVars,
       histVars
<1>4. GrantInv'
  BY DEF IInv, TypeOK, HubType, GrantInv, AfterGrant, ReceiveAck, Resolve, reqVars,
       dbVars, histVars
<1>5. EntitledInv'
  BY DEF IInv, TypeOK, HubType, EntitledInv, GrantInv, AfterGrant, ReceiveAck,
       Resolve, reqVars, dbVars, histVars
<1>. QED BY <1>1, <1>2, <1>3, <1>4, <1>5 DEF IInv

\* The relay is energised before "opened" is sent.
LEMMA ControllerInv ==
    ASSUME IInv, NEW c \in Controllers, NEW r \in Requests,
           OpenDoor(c, r) \/ RejectCommand(c, r)
    PROVE  IInv'
<1>1. TypeOK'
  BY DEF IInv, TypeOK, HubType, FutureStates, Phases, Answers, Events, SocketStates,
       OpenDoor, RejectCommand, Ack, hubVars, reqVars, dbVars, histVars
<1>2. NoOrphanFuture' /\ RegisteredIsLive'
  BY DEF IInv, TypeOK, HubType, NoOrphanFuture, RegisteredIsLive, OpenDoor,
       RejectCommand, Ack, hubVars, reqVars, dbVars, histVars
<1>3. AckInv'
  BY DEF IInv, TypeOK, HubType, AckInv, OpenDoor, RejectCommand, Ack, hubVars,
       reqVars, dbVars, histVars
<1>4. GrantInv'
  BY DEF IInv, TypeOK, HubType, GrantInv, AfterGrant, OpenDoor, RejectCommand, Ack,
       hubVars, reqVars, dbVars, histVars
<1>5. EntitledInv'
  BY DEF IInv, TypeOK, HubType, EntitledInv, GrantInv, AfterGrant, OpenDoor,
       RejectCommand, Ack, hubVars, reqVars, dbVars, histVars
<1>. QED BY <1>1, <1>2, <1>3, <1>4, <1>5 DEF IInv

\* The link is lost, or the controller is blocked.
LEMMA OutsideInv ==
    ASSUME IInv, NEW c \in Controllers, LinkLost(c) \/ BlockController(c)
    PROVE  IInv'
<1>1. TypeOK'
  BY DEF IInv, TypeOK, HubType, FutureStates, Phases, Answers, Events, SocketStates,
       LinkLost, BlockController, hubVars, reqVars, netVars, dbVars, histVars
<1>2. NoOrphanFuture' /\ RegisteredIsLive'
  BY DEF IInv, TypeOK, HubType, NoOrphanFuture, RegisteredIsLive, LinkLost,
       BlockController, hubVars, reqVars, netVars, dbVars, histVars
<1>3. AckInv'
  BY DEF IInv, TypeOK, HubType, AckInv, LinkLost, BlockController, hubVars, reqVars,
       netVars, dbVars, histVars
<1>4. GrantInv'
  BY DEF IInv, TypeOK, HubType, GrantInv, AfterGrant, LinkLost, BlockController,
       hubVars, reqVars, netVars, dbVars, histVars
<1>5. EntitledInv'
  BY DEF IInv, TypeOK, HubType, EntitledInv, GrantInv, AfterGrant, LinkLost,
       BlockController, hubVars, reqVars, netVars, dbVars, histVars
<1>. QED BY <1>1, <1>2, <1>3, <1>4, <1>5 DEF IInv

\* The process forgets every session and future, and every request ends.
LEMMA ApiRestartInv ==
    ASSUME IInv, ApiRestart
    PROVE  IInv'
<1>1. TypeOK'
  BY DEF IInv, TypeOK, HubType, FutureStates, Phases, Answers, Events, SocketStates,
       ApiRestart, HubReset, dbVars, histVars
<1>2. NoOrphanFuture' /\ RegisteredIsLive'
  BY DEF IInv, TypeOK, HubType, NoOrphanFuture, RegisteredIsLive, ApiRestart,
       HubReset, dbVars, histVars
<1>3. AckInv'
  BY DEF IInv, TypeOK, HubType, AckInv, ApiRestart, HubReset, dbVars, histVars
<1>4. GrantInv'
  BY DEF IInv, TypeOK, HubType, GrantInv, AfterGrant, ApiRestart, HubReset, dbVars,
       histVars
<1>5. EntitledInv'
  BY DEF IInv, TypeOK, HubType, EntitledInv, GrantInv, AfterGrant, ApiRestart,
       HubReset, dbVars, histVars
<1>. QED BY <1>1, <1>2, <1>3, <1>4, <1>5 DEF IInv

LEMMA NextInv == IInv /\ [Next]_vars => IInv'
<1>. SUFFICES ASSUME IInv, [Next]_vars PROVE IInv'
  OBVIOUS
<1>1. ASSUME NEW r \in Requests, Start(r) PROVE IInv'
  BY <1>1, StartInv
<1>2. ASSUME NEW r \in Requests, Handle(r) \/ DatabaseError(r) PROVE IInv'
  BY <1>2, ReadDoorInv, CheckInv, RefuseInv, RecordGrantInv, DispatchInv, BreakInv,
     WaitEndsInv, ConfirmInv DEF Handle
<1>3. ASSUME NEW r \in Requests, PermissionStarts(r) \/ PermissionEnds(r) PROVE IInv'
  BY <1>3, PermissionInv
<1>4. ASSUME NEW s \in Sessions, Serve(s) PROVE IInv'
  BY <1>4, HandshakeInv, RegisterInv, SocketGoneInv, ReceiveAckInv DEF Serve
<1>5. ASSUME NEW c \in Controllers, Control(c) PROVE IInv'
  BY <1>5, ControllerInv, OutsideInv DEF Control
<1>6. CASE ApiRestart
  BY <1>6, ApiRestartInv
<1>7. CASE UNCHANGED vars
  BY <1>7 DEF vars, hubVars, reqVars, netVars, dbVars, histVars, IInv, TypeOK, HubType,
     NoOrphanFuture, RegisteredIsLive, AckInv, GrantInv, EntitledInv
<1>. QED BY <1>1, <1>2, <1>3, <1>4, <1>5, <1>6, <1>7 DEF Next

\* In every state of every behaviour the inductive invariant holds.
THEOREM Invariance == Spec => []IInv
BY InitInv, NextInv, PTL DEF Spec

\* The state of requests, hub, sockets and controllers keeps its type.
THEOREM TypeCorrect == Spec => []TypeOK
<1>1. IInv => TypeOK
  BY DEF IInv
<1>. QED BY Invariance, <1>1, PTL

\* The hub loses no waiter: register() and unregister() between them reach
\* every future that is not done.
THEOREM HubKeepsWaiters == Spec => []NoOrphanFuture
<1>1. IInv => NoOrphanFuture
  BY DEF IInv
<1>. QED BY Invariance, <1>1, PTL

\* Whatever order sockets open, are superseded and end in, the session that
\* stands for a controller has a socket task that will unregister it.
THEOREM RegistrationsAreLive == Spec => []RegisteredIsLive
<1>1. IInv => RegisteredIsLive
  BY DEF IInv
<1>. QED BY Invariance, <1>1, PTL

\* A block or a missing grant that precedes the request keeps the door shut.
THEOREM OnlyEntitledOpens == Spec => []EntitledOpens
<1>1. IInv => EntitledOpens
  BY DEF IInv, TypeOK, EntitledInv, GrantInv, EntitledOpens
<1>. QED BY Invariance, <1>1, PTL

\* Only the end of a connection's own socket, or of the whole process, takes a
\* controller offline. unregister() and the restart both close the socket that
\* was registered; register() replaces an entry and never empties it.
THEOREM OfflineOnlyByOwnEnd == Spec => OfflineByOwnEnd
<1>. DEFINE A == \A c \in Controllers :
                    registered[c] # NoSession /\ registered'[c] = NoSession
                       => sock'[registered[c]] = "closed"
<1>1. ASSUME IInv, [Next]_vars PROVE A
  <2>1. /\ registered \in [Controllers -> Sessions \cup {NoSession}]
        /\ sock \in [Sessions -> SocketStates]
        /\ RegisteredIsLive
    BY <1>1 DEF IInv, TypeOK, HubType
  <2>2. ASSUME registered' = registered PROVE A
    BY <2>2
  <2>3. ASSUME NEW s \in Sessions, RegisterSocket(s) PROVE A
    BY <2>1, <2>3, SessionAssumption DEF RegisterSocket, Register
  <2>4. ASSUME NEW s \in Sessions, SocketGone(s) PROVE A
    BY <2>1, <2>4, SessionAssumption DEF SocketGone, Unregister
  <2>5. CASE ApiRestart
    BY <2>1, <2>5 DEF ApiRestart, RegisteredIsLive
  <2>6. ASSUME NEW r \in Requests,
               Start(r) \/ Handle(r) \/ DatabaseError(r)
                 \/ PermissionStarts(r) \/ PermissionEnds(r)
        PROVE  A
    <3>1. registered' = registered
      BY <2>6 DEF Start, Handle, DatabaseError, PermissionStarts, PermissionEnds, ReadDoor,
         DoorUnavailable, CheckPermission, NoPermission, CheckPresence, NotPresent,
         CheckOnline, RateLimited, Offline, Sign, SignerRefuses, RecordGrant, Dispatch,
         DispatchOffline, DispatchClosing, CommandFailed, TimedOut, Acknowledged, Confirm, Deny,
         FileCommand, PopCommand, hubVars
    <3>. QED BY <2>2, <3>1
  <2>7. ASSUME NEW s \in Sessions, Serve(s) PROVE A
    <3>1. ASSUME Connect(s) \/ Authenticate(s) \/ HandshakeFails(s) \/ HeartbeatClose(s)
                   \/ \E r \in Requests, verdict \in {"opened", "rejected"} :
                        ReceiveAck(s, r, verdict)
          PROVE  registered' = registered
      BY <3>1 DEF Connect, Authenticate, HandshakeFails, HeartbeatClose, ReceiveAck, Resolve,
         hubVars
    <3>. QED BY <2>2, <2>3, <2>4, <2>7, <3>1 DEF Serve
  <2>8. ASSUME NEW c \in Controllers, Control(c) PROVE A
    <3>1. registered' = registered
      BY <2>8 DEF Control, LinkLost, BlockController, OpenDoor, RejectCommand, hubVars
    <3>. QED BY <2>2, <3>1
  <2>9. CASE UNCHANGED vars
    <3>1. registered' = registered
      BY <2>9 DEF vars, hubVars
    <3>. QED BY <2>2, <3>1
  <2>. QED BY <1>1, <2>5, <2>6, <2>7, <2>8, <2>9 DEF Next
<1>. QED BY <1>1, Invariance, PTL DEF Spec, OfflineByOwnEnd

\* A request refused before its grant never opens the door.
THEOREM RefusalsAreFinal == Spec => []RefusalIsFinal
<1>1. IInv => RefusalIsFinal
  BY DEF IInv, GrantInv, RefusalIsFinal
<1>. QED BY Invariance, <1>1, PTL

-----------------------------------------------------------------------------
(* The system implements its contract *)

\* What the contract sees of a state.
Told == [r \in Requests |-> Answer(r)]
OnRecord == {r \in Requests : "granted" \in rows[r]}

\* A step that changes neither the answers, the grants nor the doors.
LEMMA InvisibleStep ==
    ASSUME UNCHANGED opened, Told' = Told, OnRecord' = OnRecord
    PROVE  UNCHANGED Contract!vars
BY DEF Contract!vars, Told, OnRecord

\* A request that goes on is still pending, and nothing else is visible of it.
LEMMA PhaseOnly ==
    ASSUME IInv, NEW r \in Requests, NEW from, NEW to, Go(r, from, to),
           from \notin {"idle", "done"}, to \notin {"idle", "done"},
           UNCHANGED <<result, rows, opened>>
    PROVE  UNCHANGED Contract!vars
<1>1. Told' = Told /\ OnRecord' = OnRecord
  BY DEF IInv, TypeOK, Go, Told, Answer, OnRecord
<1>. QED BY <1>1, InvisibleStep

\* A request that ends is answered, with "opened" only if it was confirmed.
LEMMA EndOfRequest ==
    ASSUME IInv, NEW r \in Requests, NEW a \in Answers, pc[r] \notin {"idle", "done"},
           pc' = [pc EXCEPT ![r] = "done"], result' = [result EXCEPT ![r] = a],
           a = "confirmed" => r \in opened,
           OnRecord' = OnRecord, UNCHANGED opened
    PROVE  Contract!Next
<1>1. \A q \in Requests : q # r => Answer(q)' = Answer(q)
  BY DEF IInv, TypeOK, Answer
<1>2. Answer(r) = "pending" /\ Answer(r)' = IF a = "confirmed" THEN "opened" ELSE "not_opened"
  BY DEF IInv, TypeOK, Answer
<1>3. Told' = [Told EXCEPT ![r] = IF a = "confirmed" THEN "opened" ELSE "not_opened"]
  BY <1>1, <1>2 DEF Told
<1>4. Told[r] = "pending"
  BY <1>2 DEF Told
<1>5. Contract!Answer(r)
  BY <1>3, <1>4 DEF Contract!Answer, Told, OnRecord
<1>. QED BY <1>5 DEF Contract!Next

LEMMA RefinesStart ==
    ASSUME IInv, NEW r \in Requests, Start(r)
    PROVE  Contract!Next
<1>1. Told' = [Told EXCEPT ![r] = "pending"] /\ Told[r] = "none"
  BY DEF IInv, TypeOK, Start, Go, Told, Answer
<1>2. OnRecord' = OnRecord /\ UNCHANGED opened
  BY DEF IInv, TypeOK, Start, Record, OnRecord
<1>3. Contract!Ask(r)
  BY <1>1, <1>2 DEF Contract!Ask, Told, OnRecord
<1>. QED BY <1>3 DEF Contract!Next

LEMMA RefinesGrant ==
    ASSUME IInv, NEW r \in Requests, RecordGrant(r)
    PROVE  Contract!Next
<1>1. Told' = Told /\ Told[r] = "pending"
  BY DEF IInv, TypeOK, RecordGrant, Go, Told, Answer
<1>2. OnRecord' = OnRecord \cup {r} /\ UNCHANGED opened
  BY DEF IInv, TypeOK, RecordGrant, Record, OnRecord
<1>3. Contract!Grant(r)
  BY <1>1, <1>2 DEF Contract!Grant, Told, OnRecord
<1>. QED BY <1>3 DEF Contract!Next

\* The handler's other steps: a phase more, or the answer.
LEMMA RefinesHandle ==
    ASSUME IInv, NEW r \in Requests, Handle(r) \/ DatabaseError(r)
    PROVE  Contract!Next \/ UNCHANGED Contract!vars
<1>1. CASE RecordGrant(r)
  BY <1>1, RefinesGrant
<1>2. CASE ReadDoor(r)
  BY <1>2, PhaseOnly DEF ReadDoor
<1>3. CASE CheckPermission(r) \/ CheckPresence(r) \/ CheckOnline(r) \/ Sign(r)
  BY <1>3, PhaseOnly DEF CheckPermission, CheckPresence, CheckOnline, Sign
<1>4. CASE Dispatch(r) \/ Acknowledged(r)
  BY <1>4, PhaseOnly DEF Dispatch, Acknowledged
<1>5. ASSUME NEW event \in Events \ {"granted"}, NEW a \in Answers, Finish(r, event, a),
             pc[r] \notin {"idle", "done"}, a = "confirmed" => r \in opened, UNCHANGED opened
      PROVE  Contract!Next
  <2>1. OnRecord' = OnRecord
    BY <1>5 DEF IInv, TypeOK, Finish, OnRecord
  <2>. QED BY <1>5, <2>1, EndOfRequest DEF Finish
<1>6. CASE DoorUnavailable(r) \/ NoPermission(r) \/ NotPresent(r) \/ Offline(r)
           \/ SignerRefuses(r)
  BY <1>5, <1>6 DEF DoorUnavailable, NoPermission, NotPresent, Offline, SignerRefuses,
     Deny, Events, Answers
<1>7. CASE RateLimited(r) \/ DispatchOffline(r)
  BY <1>5, <1>7 DEF RateLimited, DispatchOffline, Events, Answers
<1>8. CASE CommandFailed(r) \/ TimedOut(r)
  BY <1>5, <1>8 DEF CommandFailed, TimedOut, Events, Answers
<1>9. CASE Confirm(r)
  <2>1. r \in opened
    BY <1>9 DEF IInv, AckInv, Confirm
  <2>. QED BY <1>5, <1>9, <2>1 DEF Confirm, Events, Answers
<1>10. CASE DispatchClosing(r) \/ DatabaseError(r)
  <2>1. OnRecord' = OnRecord
    BY <1>10 DEF DispatchClosing, DatabaseError, OnRecord
  <2>. QED BY <1>10, <2>1, EndOfRequest DEF DispatchClosing, DatabaseError, Answers
<1>. QED BY <1>1, <1>2, <1>3, <1>4, <1>6, <1>7, <1>8, <1>9, <1>10 DEF Handle

LEMMA RefinesOpen ==
    ASSUME IInv, NEW c \in Controllers, NEW r \in Requests, OpenDoor(c, r)
    PROVE  Contract!Next
<1>1. r \in OnRecord
  BY DEF IInv, TypeOK, GrantInv, OpenDoor, OnRecord
<1>2. Told' = Told /\ OnRecord' = OnRecord
  BY DEF OpenDoor, reqVars, Told, Answer, OnRecord
<1>3. Contract!Open(r)
  BY <1>1, <1>2 DEF OpenDoor, Contract!Open, Told, OnRecord
<1>. QED BY <1>3 DEF Contract!Next

LEMMA RefinesRestart ==
    ASSUME IInv, ApiRestart
    PROVE  Contract!Next
<1>1. Told' = [r \in Requests |-> IF Told[r] = "pending" THEN "not_opened" ELSE Told[r]]
  <2>1. ASSUME NEW r \in Requests
        PROVE  Answer(r)' = IF Answer(r) = "pending" THEN "not_opened" ELSE Answer(r)
    BY DEF IInv, TypeOK, ApiRestart, Answer
  <2>. QED BY <2>1 DEF Told
<1>2. OnRecord' = OnRecord /\ UNCHANGED opened
  BY DEF ApiRestart, OnRecord
<1>3. Contract!Abandon
  BY <1>1, <1>2 DEF Contract!Abandon, Told, OnRecord
<1>. QED BY <1>3 DEF Contract!Next

\* Sockets, links, blocks and grants are not visible to the phone.
LEMMA RefinesRest ==
    ASSUME UNCHANGED <<reqVars, opened>>
    PROVE  UNCHANGED Contract!vars
<1>1. Told' = Told /\ OnRecord' = OnRecord
  BY DEF reqVars, Told, Answer, OnRecord
<1>. QED BY <1>1, InvisibleStep DEF reqVars

LEMMA RefinesNext == IInv /\ [Next]_vars => [Contract!Next]_(Contract!vars)
<1>. SUFFICES ASSUME IInv, [Next]_vars PROVE Contract!Next \/ UNCHANGED Contract!vars
  OBVIOUS
<1>1. ASSUME NEW r \in Requests, Start(r) PROVE Contract!Next
  BY <1>1, RefinesStart
<1>2. ASSUME NEW r \in Requests, Handle(r) \/ DatabaseError(r) PROVE Contract!Next \/ UNCHANGED Contract!vars
  BY <1>2, RefinesHandle
<1>3. ASSUME NEW r \in Requests, PermissionStarts(r) \/ PermissionEnds(r)
      PROVE  UNCHANGED Contract!vars
  BY <1>3, RefinesRest DEF PermissionStarts, PermissionEnds
<1>4. ASSUME NEW s \in Sessions, Serve(s) PROVE UNCHANGED Contract!vars
  BY <1>4, RefinesRest DEF Serve, Connect, Authenticate, HandshakeFails, RegisterSocket,
     HeartbeatClose, SocketGone, ReceiveAck
<1>5. ASSUME NEW c \in Controllers, Control(c)
      PROVE  Contract!Next \/ UNCHANGED Contract!vars
  <2>1. ASSUME NEW r \in Requests, OpenDoor(c, r) PROVE Contract!Next
    BY <2>1, RefinesOpen
  <2>2. ASSUME NEW r \in Requests, RejectCommand(c, r) PROVE UNCHANGED Contract!vars
    BY <2>2, RefinesRest DEF RejectCommand
  <2>3. CASE LinkLost(c) \/ BlockController(c)
    BY <2>3, RefinesRest DEF LinkLost, BlockController
  <2>. QED BY <1>5, <2>1, <2>2, <2>3 DEF Control
<1>6. CASE ApiRestart
  BY <1>6, RefinesRestart
<1>7. CASE UNCHANGED vars
  BY <1>7, RefinesRest DEF vars
<1>. QED BY <1>1, <1>2, <1>3, <1>4, <1>5, <1>6, <1>7 DEF Next

LEMMA RefinesInit == Init => Contract!Init
BY DEF Init, Contract!Init, Answer

\* Every behaviour of the requests, the hub, the sockets and the controllers is
\* one the contract of the unlock endpoint allows.
THEOREM ContractIsHonoured == Spec => ContractHonoured
BY RefinesInit, RefinesNext, Invariance, PTL DEF Spec, ContractHonoured, Contract!Spec

=============================================================================
