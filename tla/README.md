# Verification of doors-control

TLA+ models of the access-control system in this repository: a phone asks the
backend to open a door, the backend checks, signs and sends a command to the
door's controller, and everything that happens goes into a hash-chained audit
log. The models are translated from the source, checked with TLC on small
instances, and the central results are proved with TLAPS for every size.

## The system and its parts

| Part | Source | State it keeps | Operations | Model |
|---|---|---|---|---|
| audit log | `backend/db/migrations/004,005`, `repositories/audit.py`, `audit_service.py` | rows by `seq`, sequence, advisory lock, monthly partitions | insert (trigger), verify, head, ensure partitions, detach | `AuditChain` |
| unlock service | `services/unlock_service.py`, `api/doors.py` | one coroutine per request | the eight checks, grant, command, outcome | `UnlockSystem` |
| controller hub | `ws/hub.py` | sessions by controller, futures by command | register, unregister, send, resolve | `ControllerHub` |
| controller socket | `ws/controller_ws.py` | one task and one heartbeat per socket | handshake, receive loop, heartbeat, clean-up | `UnlockSystem` |
| controller firmware | `firmware/esp32/src` | connection, replay ring, relay, clocks, beacon, updates | handle command, loop, update, reboot | `Controller`; its connection in `UnlockSystem` |
| token sessions | `services/auth_service.py`, `repositories/tokens.py` | token rows in families | login, refresh, logout, block | `TokenSessions` |
| phone | `android/.../ApiClient.kt`, `TokenStore.kt`, `DoorsRepository.kt` | token pair in memory and on disk, refresh lock | call, refresh, sign out | `PhoneSession` |
| enrolment | `services/enrollment_service.py`, `repositories/devices.py` | challenges, one-time codes, devices | issue a code, challenge, enrol | `Enrollment` |
| attestation | `core/attestation.py` | none | verify a chain, a key description, an integrity verdict | `Attestation` |
| rate limiter | `core/ratelimit.py`, `repositories/rate_limit.py` | failure rows, audit rows | check, record | `RateLimit` |
| proximity | `core/proximity.py`, `acs_beacon.cpp` | none (clock, key) | derive, verify | `Proximity`, `Controller` |
| signer | `signer/` | none | sign or refuse | what it signs in `Controller`, a verdict in `UnlockSystem` |
| admin | `admin/main.py` | none | block, grant, list | two actions of `UnlockSystem` |

How they interact. The phone calls the backend over HTTP with a bearer token.
The backend is one asyncio process; its handlers interleave at every `await`
and share the hub in memory and the tables in PostgreSQL. Controllers connect
to the backend by websocket; a command goes down that socket and an
acknowledgement comes up, and the request waits for it on a future. Every part
writes to the one audit log, each insert an autocommit statement on a pooled
connection.

What is hard here: handlers that use what they read before an `await`; sockets
that end, are superseded and noticed late; commands and acknowledgements that
are lost or late; a process that dies between two statements of a handler that
has no transaction; inserts that race for the head of the chain; checks that
count rows other handlers are about to write; a phone whose threads share one
token and whose answers get lost; a board with two clocks, one that wraps and
one that is wrong, and a loop that an update blocks.
`PROJECT.json` lists each hazard at its line.

## Modules

**`AuditChain`.** One INSERT is five actions, because PostgreSQL does it in
that order: `Begin` (the statement starts; `now()` is fixed), `Draw` (the `seq`
default is evaluated and the row is routed to its partition) or `Refuse` (no
partition), `AcquireLock`, `ReadHead`, `Commit`. `Abort` may strike at any
point. `EnsurePartitionsAhead`, `DetachOldest` and `NextMonth` are the world
around it. `log` is a function from `seq` to rows. A digest is the pair it
digests, which models SHA-256 as collision free. `RowOk`, `BadRows` and
`ChainOk` are `verify_audit_chain()`: the walk compares each row with the row
below it in `seq`, so its verdict on a row is a property of that row and its
neighbour. `lost`, `inverted` and `pruned` are history variables.

**`ControllerHub`.** The hub's share of a step. Its critical sections contain
no `await`, so each is atomic. It is a library of sub-actions that
`UnlockSystem` conjoins with what the caller does in the same step.

**`UnlockSystem`.** One action per stretch of `unlock()` between two awaits,
per step of a socket task, per command handled by a controller. `doorRow` is
the copy of `is_blocked` that step 1 read and step 3 uses. `link[c]` is the
connection the controller reads from, `sock[s]` what the server believes of a
socket; `down` and `up` are messages on their way, per connection, lost when
their reader leaves. Proximity, rate, signature and the controller's checks
are verdicts: both outcomes are always possible. `startedBlocked` and
`neverHeld` are history.

**`DoorContract`.** What the endpoint promises: a door opens only for a request
whose grant is on record, "opened" is answered only after it opened, an answer
is final. `UnlockSystem` instantiates it with a refinement mapping
(`ContractHonoured`).

**`TokenSessions`.** login, refresh and logout, one action per SQL statement.
`held` and `fam` are what the handler's copy of the row says. `raced` records
families in which two refreshes held one token at once, `burned` those that
reuse detection revoked. `Crash` ends a handler between two statements.

**`PhoneSession`** extends `TokenSessions`: the threads of the app on one side,
the handlers of `/auth/refresh` and `/auth/logout` on the other, one action per
stretch of `RefreshInterceptor` and `signOut()` between two points where
another thread or the server can step in. `store` and `disk` are the refresh
token in memory and in the file (`apply()` writes it later, `Flush`; `Die` goes
back to it). `EnterRefresh` takes the lock and reads the token; `SavePair` and
`Fails` release it; `ClearFailed` is the `clearSession()` that follows outside
the lock. `NoAnswer` and `SendAgain` are the network's. `lost` records that a
request, an answer or a saved pair was lost. The access token is left out: it
decides only whether a request is answered 401, and that is always possible.

**`Enrollment`** over **`Attestation`.** `IssueChallenge` and `Take...` are the
challenge store, whose methods are atomic; the rest of `enroll()` is one action
per statement. What a phone sends (`Evidence`) is a set of records: a chain of
certificates, each with its key type, its fingerprint, whether the next one
signed it and its key description, and an integrity token. `Attestation`
evaluates them as the code does: an AuthorizationList is the sequence of its
entries, a later root of trust replaces an earlier one, and the software list
takes the place of the hardware list, on every point, when that has no root of
trust. The trusted roots are a parameter that `enroll()` leaves empty. `mode`
is `strict` or `log_only`. `CreateFails` and `CreateLost` are the two ways
`create()` can raise: without a row, and with a row whose `INSERT` was committed
before the connection broke.

**`RateLimit`.** The two counting SELECTs of a login and the INSERTs that
follow a failure are separate actions; so are the rows an unlock writes before
and after its check. `seen` is the first of a login's two counts, used after
the second. The in-process dict `_recent` is written and never read, and
`record_device_failure()` is never called; neither is modelled.

**`Controller`** over **`Proximity`.** One board: `Iterate` is the loop in one
tick of time (relay and beacon are looked at many times a tick), `Downloading`
a tick in which an update blocks it, `UpdateFails` and `Reboot` its end.
`millis` counts modulo `Wrap`, and the end of a pulse is compared as
`int32_t` of the difference is. `Time` is the server's time plus the error of
the board's clock. `HandleCommand` has the checks of `handleCommand()` in their
order and may strike again for a command that was recorded. `Sign` is the
signer, whose limits on `ttl` and `duration` hold whatever the API asks for; it
has no clock, so `issued_at` lies an arbitrary member of `Offsets` from the time
of signing. Signatures are taken to be unforgeable, so a command that exists was
signed. The field `at` (when a command was signed) and `firstAt` (what the
board's clock said when it was honoured first) are history.

`MC*` modules give TLC its constants; `*Proofs` modules hold the proofs. An
operator named `Mutant...` stands before the definition it is a faulty variant
of; it is not part of any specification, and exists to show that a property
notices the fault.

## Runs

| Run | Instance | What it shows |
|---|---|---|
| `audit_chain` | 2 connections, 2 bodies, 3 rows, 3 months | The five safety properties and `InsertsEnd`, under fairness |
| `audit_fork` | same | violation: two rows name one predecessor |
| `audit_lost_event` | same | violation: an event is refused for want of a partition |
| `unlock_safety` | 1 controller, 2 connections, 2 requests | hub, entitlement, refusals and the contract |
| `unlock_liveness` | 1 controller, 2 connections, 1 request | every request is answered, dead connections are noticed |
| `token_sessions` | 4 calls, 2 families, 6 tokens | rotation keeps one refresh token, dead families stay dead |
| `token_burn` | 3 calls, 1 family, 4 tokens | violation: a burned family has a live token |
| `phone` | 2 threads, 2 handlers, 6 tokens | the refresh lock, sign-out, losses and the death of the process |
| `enrolment` | 2 calls, 2 codes, 2 keys, 2 challenges, 3 ticks | codes and challenges are spent once; what a verified device rests on |
| `limits` | 2 handlers, 2 users, 1 address, 4 rows, 3 ticks | by how much concurrent requests can overshoot a limit |
| `controller` | 3 commands, a ring of 2, 2 clock errors, 2 dates of issue, 6 ticks, 1 reboot | pulses, replays and beacon identifiers stay within their bounds |
| `signer_later` | 1 command, 2 dates of issue | violation: a command is honoured long after it was signed |

The properties, in words:

* `HeadStillHead`: what the advisory lock is for. The head that was read is the
  head at commit.
* `OrderedChainVerifies`: as long as rows commit in the order of `seq` and time,
  verification accepts the log, also from any row that has a retained row below.
* `RemovalEvident`, `EditNamed`: what verification and the published head catch.
* `NoOrphanFuture`, `RegisteredIsLive`, `OfflineByOwnEnd`: nobody waits on a
  session that no longer stands for its controller; the late end of an old
  socket does not unregister the new one.
* `EntitledOpens`: no door opens for a request whose controller was blocked
  when it started, or whose user had no live grant since. A block or a
  revocation *during* a request is not promised to stop it, and does not.
* `RefusalIsFinal`: a request with a denied or a rate limit row never opens. The
  signer's refusal is among them: it writes a denied row and is answered as
  failed.
* `OneRefreshStanding`, `DeadStaysDead`: see above. That two overlapping
  refreshes of one token both succeed is why the first is conditional.
* `NoFalseTheft`: what the refresh lock is for. It holds while no request, no
  answer and no saved pair is lost. When an answer is lost, the thread clears
  the session only after it has released the lock; a second thread can present
  the spent token in between, and reuse detection revokes the family. A process
  that dies before `apply()` has written the new pair comes back with the spent
  one, with the same effect.
* `HoldsWhatStands`: a phone that lost nothing and has a session holds the one
  refresh token that stands. A sign-out that is answered 401 (its access token
  has expired, and 401 is final under `/auth/`) is outside it: the phone forgets
  its token, and the server keeps it standing.
* `SignedOutStays`: threads that still wait for the lock cannot bring a session
  back. A refresh that is *under way* during a sign-out can, and does.
* `OneDevicePerCode`, `ChallengeSpentOnce`, `NewestChallengeOnly`: what can be
  used once is used once, across overlapping calls, failures and restarts. A
  failure after the claim spends the code; that is the code's choice.
* `VerifiedOverOwnChallenge`: a verified device rests on a challenge that was
  issued for its own code and on which no other device rests, so a chain recorded
  in one enrolment verifies no second one.
* `HardwareNotOverruled`: where the hardware list states a root of trust, the
  last one must be a verified boot on a locked device, and the list must ask for
  authentication, whatever the software list says. Where it states none, the
  code takes the software list's word for all of it, and the property says that
  too. Play Integrity's verdict is by the policy in the settings.
* `EnrolledIsComplete`: a 200 means device, code and pair; anything less belongs
  to a call that is at work, was cut off, or was answered 409 because the answer
  to its committed `INSERT` was lost.
* `OvershootBounded`: check-then-act lets overlapping logins pass together, but
  by less than their number; `docs/02-threat-model.md` (T-07) speaks of a hard
  lockout, which is what a single login at a time gets. `UnlocksBounded`: an unlock writes its own row
  before it counts, so here the limit is hard. The budget counts rows, not
  attempts (`docs/04-api.md:193` speaks of attempts): a success costs three, so
  a limit of 6 lets two through in a minute, and refused requests count too.
* `PulseCeiling`, `PulseNotCut`: a pulse lasts what was asked for and signed, at
  most `ACS_RELAY_MAX_MS`, across the wrap of `millis()`; only a hang of the
  loop, which the watchdog bounds, prolongs it, and only a reset shortens it.
* `RingRemembers`, `ReplayWindow`: the two halves of replay protection. The
  ring forgets when it overflows and when the board reboots; then freshness
  alone bounds what a recorded command is worth. It does so from the first use
  on: `MaxTtl` and the skew on both sides, by the board's clock. Nothing bounds
  the time from the signature to the first use (`signer_later`).
* `BeaconWindow`: what a phone hears is accepted for the whole freshness window
  and for less than a slot beyond it, reckoned from the board's clock and less
  the time its loop has hung.

### What the violations say

1. `audit_fork`: `seq` is a column default and is drawn before the lock. Rows
   can commit out of order; an untouched log then fails verification.
2. `audit_lost_event`: PostgreSQL routes before it fires the row trigger, so
   the lazy creation of partitions in the trigger is never reached.
3. `token_burn`: the statements of a refresh under way are not covered by the
   `UPDATE` of reuse detection, and its pair outlives the family.
4. `signer_later`: `validate_command()` compares `issued_at` and `expires_at`
   with each other and with no clock. A command can be had now for any later
   time, against `README.md:133-135`, `signer/server.py:14-16` and T-23 of the
   threat model. `unlock()` itself always asks for a command dated now.

Other places where the code does not do what a text in the repository says are
visible in the definitions, and the properties are stated so that they allow
them:

* `docs/04-api.md:183-184`: "Anything else means the door did not open." That
  `200` implies opened is part of the contract and is proved. The converse does
  not hold: the acknowledgement may be late or lost, and `DoorContract` lets a
  granted door open before or after an answer of another kind.
* `docs/04-api.md:198`: "Every branch writes an audit row with the real reason
  before it returns." `send()` on a socket that is closing raises what
  `unlock()` does not catch (`DispatchClosing`): a granted row, and no outcome.
* `backend/db/README.md:119-121` calls the rows retained after a detach
  verifiable from their first `seq`. `verify_audit_chain(from)` takes genesis
  for the predecessor when no older row is left (`HashBelow`), and reports the
  first of them; it would need the hash of the last detached row.
  `OrderedChainVerifies` speaks of walks that have a retained row below them.
* `core/attestation.py:11-13` says of an attested key that "it cannot be used
  without a biometric". When the hardware list has no root of trust,
  `parsed.update()` (line 162) overwrites what it says of authentication with
  what the software list says (`Enforced`).
* `core/attestation.py:7`: "signed up to a Google root". `enroll()` passes no
  `trusted_roots`, so the top of the chain is compared with nothing. What
  "verified" means is therefore what the lists say, whoever signed them. The
  second phone of the `enrolment` instance is accepted in spite of both points.
* `config.example.h:95-96` calls `ACS_RELAY_MAX_MS` a hard ceiling. The download
  of an update does not return to the loop that releases the relay;
  `PulseCeiling` adds the hang that the watchdog tolerates.

### Bounds

Three rows are enough for a fork (the third row follows the inverted pair), and
three months for a detach between two months of rows. Two connections show
supersession; two requests show that one request's future is not another's.
Six tokens are a login and two rotations; four calls are those three and one
more that overlaps any of them. The bounds are guards (`MaxSeq`, `MaxMonth`,
`MaxToken`); at a bound, no further row is begun or token issued.
`Connect` consumes a member of `Sessions`, which bounds reconnects.

In `phone`, two handlers are two presentations of a token, or one and a
sign-out; six tokens are the enrolment's pair and both rotations. In
`enrolment`, two challenges let the second replace the first, and each is
valid for one tick of the three. In `limits`, the limits are low enough to be
reached by the four rows, and rows leave the window as time passes. In
`controller`, three commands overflow a ring of two; `millis()` starts three
ticks before its wrap, so pulses run across it; durations and lifetimes above
the signer's and the relay's limits occur; the watchdog's two ticks are as long
as the longest pulse, which is cut to the relay's limit. Commands are dated now
or two ticks ahead (`Offsets`), with time for either to expire.
`MaxRow`, `MaxClock`, `MaxChallenge`, `MaxBoots` and
`MaxHonoured` are guards.

### Fairness

`AuditChain`: PostgreSQL runs the statements it accepted (weak fairness) and
queues the waiters of a lock (strong fairness of `AcquireLock`).
`UnlockSystem`: the event loop runs every ready task; queries end (they may
fail, but no answer relies on it); the signer client and `wait_for` have timeouts, which is what makes `Handle`
weakly fair (`TimedOut` is one of its disjuncts); the heartbeat task closes a
socket whose peer has left. Frames are small, so `send()` is taken not to block
on a full buffer. Nothing is assumed of controllers, network or users.
The other modules state no fairness: their properties are safety properties.

## Proofs

Proved for every number of connections, controllers, requests, calls, families
and tokens:

* `AuditChainProofs`: `TypeCorrect`, `HeadIsStable`, `OrderedVerifies`,
  `RemovalIsEvident`, `EditIsNamed`. The inductive invariant adds that seqs are
  distinct and below `nextSeq`, that only the holder of the lock is past it,
  that every row's hash is that of its contents and its `prev`, and that while
  nothing was inverted each row's `prev` is the hash of the row below. That the
  head determines the rows goes by well-founded induction on `seq`, written as
  a minimal counterexample.
* `UnlockSystemProofs`: `TypeCorrect`, `HubKeepsWaiters`, `RegistrationsAreLive`,
  `OfflineOnlyByOwnEnd`, `OnlyEntitledOpens`, `RefusalsAreFinal`, and
  `ContractIsHonoured`, the refinement of `DoorContract`. The invariant adds
  `AckInv` ("opened" is nowhere on its way for a door that has not opened),
  `GrantInv` (what was sent was granted, what was granted has no denied and no
  rate limit row, and a request with one is over) and `EntitledInv` (how far a
  request that is not entitled can have come).
* `TokenSessionsProofs`: `TypeCorrect`, `OneStanding`, `DeadIsForEver`. The
  invariant adds `RotationInv`: without a race at most one call extends a
  family, and while it does, the only refresh token standing is the one it is
  rotating.
* `PhoneSessionProofs`: `PhoneTypeCorrect`, `LockPreventsFalseTheft`,
  `PhoneHoldsWhatStands`, `SignedOutIsFinal`, for every number of threads and
  handlers. None of the properties is inductive. `Calm` says why they hold
  while nothing is lost: the only handler that rotates serves the holder of the
  lock, and the token that is held (lock free), asked for (lock taken) or
  answered with (handler done) is unspent and the only one standing.
* `EnrollmentProofs`: `TypeCorrect`, `CodeYieldsOneDevice`,
  `ChallengeIsSingleUse`, `OnlyTheNewestCounts`, `VerifiedIsOverOwnChallenge`,
  `HardwareIsNotOverruled` and `AnsweredIsComplete`, for every number of calls, codes, keys, challenges and
  ticks and whatever the phones send. The invariant adds `StoreInv` (what the
  store keeps for a code is the newest challenge issued for it, and nobody has
  taken it), `OwnInv` (a claimed code has one owner that may go on),
  `DeviceInv` (a device belongs to a claimed code and was made by a call that
  is known by its key; a call that has only claimed finds no device of its
  code), `PartsInv` (what a call has added is there) and `ProvenInv` (the
  challenge of a verified row was issued for its code, and its evidence
  `Vouches`). That no two verified devices share a challenge then follows from
  `OneDevicePerCode`. That the verdict on a key description says no more than its
  lists rests on `LastRootExists`: a list with a root of trust has a last one,
  the least distance from the end.
* `RateLimitProofs`: `TypeCorrect`, `OvershootIsBounded`, `UnlocksAreBounded`,
  for all limits and windows. The overshoot argument is one of counting
  (`StaysBelow`): when a row is written, its login leaves those that may still
  fail, so the sum does not grow; when it grows, a count below the limit has
  just been read, and those that may still fail are at most the handlers. The
  user's count is read at the first SELECT and the address's at the second, so
  the two halves grow at different steps (`CountOvershoot`, `AllowOvershoot`).
  For unlocks, the row of the unlock that is checked is among those counted, so
  all rows of its user that have passed, its own included, are fewer than the
  limit (`PassesBounded`).
* `ControllerProofs`: `TypeCorrect`, `PulseIsBounded`, `PulseIsNotCut`,
  `RingIsExact`, `ReplayIsBounded`, `BeaconIsTimely`. `FirstInv` says that a
  command's first use lay within its dates and the skew; a second use lies
  within them too, so the two are no further apart than both allow, for any
  `Offsets`. `PulseInv` says that the
  end of a pulse is where it should be *up to one turn* of `millis()`;
  `HalfRange` is the lemma behind the `int32_t` comparison: two readings less
  than half the range apart compare as the times they stand for. `RingInv`
  gives the place of each of the last `Capacity` commands (`Back(k)`), which is
  more than "the ring contains them" and is what survives the wrap of the
  write position. `BeaconInv` ties the advertised slot to the time the loop ran
  last; the window then is arithmetic on quotients (`Quotient`,
  `CancelFactor`, `WindowOfSlot`).

Every inductive invariant has also been checked by TLC on the instance of its
module's run.

Assumptions: only the named ones of the modules. The bounds are naturals, the
"none" values are not members, the constant functions are typed. Beyond that:
`EvidenceAssumption`, the lists of a key description are sequences (the parser
reads them as such); `HandlersFinite`, a process serves finitely many requests
at once; `WrapAssumption`, a pulse and a hang together are less than half the
range of `millis()` (on the board: seconds against 24 days).

Only model-checked, because the prover used has no liveness under fairness:
`InsertsEnd`, `EveryRequestAnswered` and `DeadLinkNoticed`. Every invariant,
action property and refinement that a passing run checks is also a theorem.
No proof relies on a recursive definition: where the code walks a list or a
table, the model states what the walk computes (`Roots`, `LastRoot`, `RowOk`),
and the few inductions there are go by a least counterexample.

## Plan

The core, the phone, enrolment, the limits and the board are modelled, and their
safety properties are proved. Left:

1. Permission windows: weekday, hours and time zone, where the arithmetic is
   PostgreSQL's, and `ON CONFLICT` of a grant.
2. `UnlockSystem` over the details its verdicts stand for: that the board of
   `Controller` and the limits of `RateLimit` refine them.

## Not modelled

Password hashing, DER parsing, the signer's framing and the JSON
canonicalisation are functions of one input, without state. The signature over
an update's manifest and the digest of its image are not modelled. Roles and grants
are static. The phone's screens are layout. Event messages of controllers only
add audit rows. The event loop's cancellation of handlers at shutdown is
covered by `ApiRestart`.
