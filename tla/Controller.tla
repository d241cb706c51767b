------------------------------ MODULE Controller ------------------------------
(***************************************************************************)
(* One controller board over time: the main loop of firmware/esp32/src with   *)
(* its relay, replay ring, beacon and updates, and the signer that limits     *)
(* what the board may be sent (backend/signer).                               *)
(*                                                                            *)
(* An iteration of loop() is much shorter than a tick, so the board looks at  *)
(* relay and beacon in every tick, unless an update blocks the loop; then     *)
(* neither is looked at, and the watchdog is not fed, until it returns.       *)
(* now is the server's time. The board has two clocks: millis(), which wraps, *)
(* and time(), which is right up to drift once SNTP has answered.             *)
(***************************************************************************)
EXTENDS Proximity, Sequences

CONSTANTS
    Commands,      \* command_ids
    NoCommand,
    Durations,     \* duration_ms the API asks for, in ticks
    Ttls,          \* expires_at - issued_at it asks for
    Offsets,       \* issued_at it asks for, less the time it asks at
    Drifts,        \* errors of the board's clock
    MaxDuration, MaxTtl,   \* MAX_DURATION_MS, MAX_COMMAND_TTL_SECONDS of the signer
    RelayMax,      \* ACS_RELAY_MAX_MS
    Watchdog,      \* ACS_WATCHDOG_S
    MaxSkew,       \* ACS_MAX_CLOCK_SKEW_S
    Capacity,      \* kSeenCapacity
    Wrap,          \* millis() counts modulo this
    UpFor,         \* millis() at the start
    MaxClock,      \* bound: ticks
    MaxBoots,      \* bound: reboots
    MaxHonoured,   \* bound: commands honoured between two reboots
    Never          \* in place of a time

ASSUME ControllerAssumption ==
    /\ Durations \subseteq Nat /\ Ttls \subseteq Nat /\ Drifts \subseteq Int
    /\ Offsets \subseteq Int /\ Never \notin Int
    /\ MaxDuration \in Nat /\ MaxTtl \in Nat /\ MaxSkew \in Nat
    /\ RelayMax \in Nat \ {0} /\ Watchdog \in Nat \ {0} /\ Capacity \in Nat \ {0}
    /\ Wrap \in Nat /\ UpFor \in 0 .. Wrap - 1
    /\ MaxClock \in Nat /\ MaxBoots \in Nat /\ MaxHonoured \in Nat
    /\ NoCommand \notin Commands

\* A pulse and a hang together are short against half the range of millis().
ASSUME WrapAssumption == 2 * (RelayMax + Watchdog) < Wrap

VARIABLES
    now,
    signed,      \* payload of each command the signer has signed
    millis,
    synced,      \* the time of day is sane: SNTP has answered
    drift,
    energised, offAt,      \* Relay
    seen, seenNext,        \* WsLink: the replay ring
    advertising, slot,     \* Beacon
    updating,    \* the loop is inside applyUpdate()
    unfed,       \* ticks since the last iteration of loop()
    lit,         \* history: ticks since the last pulse(), while energised
    granted,     \* history: the length of that pulse
    honoured,    \* history: commands honoured since the reboot, in order
    firstAt,     \* history: the board's time when it honoured each command first
    boots        \* reboots so far

relayVars == <<energised, offAt, lit, granted>>
ringVars == <<seen, seenNext, honoured, firstAt>>
beaconVars == <<advertising, slot>>
clockVars == <<now, millis, unfed>>
vars == <<clockVars, signed, synced, drift, relayVars, ringVars, beaconVars, updating, boots>>

\* at is history: when the signer signed. It appears in no payload, and the
\* signer has no use for it.
Unsigned == [issued |-> 0, expires |-> 0, duration |-> 0, at |-> 0]

Slots == 0 .. Capacity - 1

\* The board's variables have the shape the firmware gives them.
TypeOK ==
    /\ now \in Nat /\ millis \in 0 .. Wrap - 1 /\ unfed \in 0 .. Watchdog
    /\ signed \in [Commands -> [issued : Int, expires : Int, duration : Nat, at : Nat]]
    /\ synced \in BOOLEAN /\ drift \in Drifts
    /\ energised \in BOOLEAN /\ offAt \in 0 .. Wrap - 1
    /\ lit \in Nat /\ granted \in Nat
    /\ seen \in [Slots -> Commands \cup {NoCommand}] /\ seenNext \in Slots
    /\ honoured \in Seq(Commands) /\ firstAt \in [Commands -> Int \cup {Never}]
    /\ advertising \in BOOLEAN /\ slot \in Int
    /\ updating \in BOOLEAN
    /\ boots \in 0 .. MaxBoots

\* What setup() and the constructors leave behind.
Booted ==
    /\ energised' = FALSE /\ offAt' = 0 /\ lit' = 0 /\ granted' = 0
    /\ seen' = [i \in Slots |-> NoCommand] /\ seenNext' = 0 /\ honoured' = <<>>
    /\ advertising' = FALSE /\ slot' = 0
    /\ updating' = FALSE
    /\ millis' = 0 /\ unfed' = 0

Init ==
    /\ now = Rotation /\ millis = UpFor /\ unfed = 0
    /\ signed = [c \in Commands |-> Unsigned]
    /\ synced = FALSE /\ drift \in Drifts
    /\ energised = FALSE /\ offAt = 0 /\ lit = 0 /\ granted = 0
    /\ seen = [i \in Slots |-> NoCommand] /\ seenNext = 0 /\ honoured = <<>>
    /\ firstAt = [c \in Commands |-> Never]
    /\ advertising = FALSE /\ slot = 0
    /\ updating = FALSE
    /\ boots = 0

\* time(nullptr), once it is sane.
Time == now + drift

-----------------------------------------------------------------------------
(* The signer *)

\* validate_command(): what the signer signs, whoever asks.
ValidateCommand(ttl, duration) ==
    /\ 0 < duration /\ duration <= MaxDuration
    /\ 0 < ttl /\ ttl <= MaxTtl

\* The API asks for a command that is valid from issued on. unlock() asks with an
\* offset of 0, but the signer has no clock to compare issued_at with: whoever
\* speaks for the API chooses it, as it chooses ttl and duration.
Sign(c, offset, ttl, duration) ==
    /\ signed[c] = Unsigned
    /\ ValidateCommand(ttl, duration)
    /\ LET issued == now + offset
       IN  signed' = [signed EXCEPT ![c] = [issued |-> issued, expires |-> issued + ttl,
                                            duration |-> duration, at |-> now]]
    /\ UNCHANGED <<clockVars, synced, drift, relayVars, ringVars, beaconVars, updating, boots>>

-----------------------------------------------------------------------------
(* One iteration of loop() *)

\* static_cast<int32_t>(a - b) >= 0
MutantPlainCompare(a, b) == a >= b

NotBefore(a, b) == (a - b) % Wrap < Wrap \div 2

\* Relay::tick() at millis() = ms, elapsed after the last state.
RelayTick(ms, elapsed) ==
    LET over == energised /\ NotBefore(ms, offAt)
    IN  /\ energised' = (energised /\ ~over)
        /\ lit' = IF energised' THEN lit + elapsed ELSE 0
        /\ granted' = IF energised' THEN granted ELSE 0
        /\ UNCHANGED offAt

\* Beacon::tick() at time t: silent until the clock is sane, then the slot's
\* identifier.
BeaconTick(t) ==
    /\ advertising' = synced
    /\ slot' = IF synced THEN SlotFor(t) ELSE slot

\* Time passes and the loop runs.
Iterate ==
    /\ ~updating
    /\ now < MaxClock
    /\ now' = now + 1
    /\ millis' = (millis + 1) % Wrap
    /\ unfed' = 0
    /\ RelayTick(millis', 1)
    /\ BeaconTick(Time + 1)
    /\ UNCHANGED <<signed, synced, drift, ringVars, updating, boots>>

\* SNTP answers, with an error of d.
Sync(d) ==
    /\ ~synced
    /\ synced' = TRUE
    /\ drift' = d
    /\ UNCHANGED <<clockVars, signed, relayVars, ringVars, beaconVars, updating, boots>>

\* pulse(): the ceiling holds whatever was signed.
MutantUnclamped(duration) == duration

Clamp(duration) == IF duration > RelayMax THEN RelayMax ELSE duration

Pulse(duration) ==
    /\ energised' = TRUE
    /\ offAt' = (millis + Clamp(duration)) % Wrap
    /\ lit' = 0
    /\ granted' = Clamp(duration)

\* handleCommand() gets as far as the ring: signed for this board, its clock is
\* sane, not expired and not from the future.
MutantNoExpiry(c) ==
    /\ signed[c] # Unsigned
    /\ synced
    /\ signed[c].issued <= Time + MaxSkew

Fresh(c) ==
    /\ signed[c] # Unsigned
    /\ synced
    /\ signed[c].expires >= Time - MaxSkew
    /\ signed[c].issued <= Time + MaxSkew

CommandAlreadySeen(c) == \E i \in Slots : seen[i] = c

MutantShortRing(c) ==
    /\ seen' = [seen EXCEPT ![seenNext] = c]
    /\ seenNext' = IF seenNext + 2 < Capacity THEN seenNext + 1 ELSE 0

MutantNoModulo(c) ==
    /\ seen' = [seen EXCEPT ![seenNext] = c]
    /\ seenNext' = seenNext + 1

RememberCommand(c) ==
    /\ seen' = [seen EXCEPT ![seenNext] = c]
    /\ seenNext' = (seenNext + 1) % Capacity

\* A signed command arrives, for the first time or again, and is honoured. One
\* that is refused changes nothing on the board.
HandleCommand(c) ==
    /\ ~updating
    /\ Fresh(c)
    /\ ~CommandAlreadySeen(c)
    /\ Len(honoured) < MaxHonoured
    /\ RememberCommand(c)
    /\ Pulse(signed[c].duration)
    /\ honoured' = Append(honoured, c)
    /\ firstAt' = [firstAt EXCEPT ![c] = IF @ = Never THEN Time ELSE @]
    /\ UNCHANGED <<clockVars, signed, synced, drift, beaconVars, updating, boots>>

-----------------------------------------------------------------------------
(* Updates and resets *)

\* OtaUpdater::tick() finds a signed manifest and starts the download.
StartUpdate ==
    /\ ~updating
    /\ updating' = TRUE
    /\ UNCHANGED <<clockVars, signed, synced, drift, relayVars, ringVars, beaconVars, boots>>

\* The download goes on; nothing else does.
Downloading ==
    /\ updating
    /\ unfed < Watchdog
    /\ now < MaxClock
    /\ now' = now + 1
    /\ millis' = (millis + 1) % Wrap
    /\ unfed' = unfed + 1
    /\ lit' = IF energised THEN lit + 1 ELSE 0
    /\ UNCHANGED <<signed, synced, drift, energised, offAt, granted, ringVars, beaconVars,
                   updating, boots>>

\* The update fails: the loop goes on where it was, with its next iteration.
UpdateFails ==
    /\ updating
    /\ updating' = FALSE
    /\ unfed' = 0
    /\ RelayTick(millis, 0)
    /\ BeaconTick(Time)
    /\ UNCHANGED <<now, millis, signed, synced, drift, ringVars, boots>>

\* ESP.restart() after an update, the watchdog, or the power. The time of day
\* survives a software reset; without power it is gone.
Reboot ==
    /\ boots < MaxBoots
    /\ boots' = boots + 1
    /\ synced' \in {synced, FALSE}
    /\ Booted
    /\ UNCHANGED <<now, signed, drift, firstAt>>

Next ==
    \/ \E c \in Commands, offset \in Offsets, ttl \in Ttls, duration \in Durations :
          Sign(c, offset, ttl, duration)
    \/ \E d \in Drifts : Sync(d)
    \/ \E c \in Commands : HandleCommand(c)
    \/ Iterate
    \/ StartUpdate \/ Downloading \/ UpdateFails
    \/ Reboot

Spec == Init /\ [][Next]_vars

-----------------------------------------------------------------------------
(* Properties *)

\* The relay is on for at most what the command asked for, at most RelayMax, and
\* a hang of the loop, which the watchdog ends; across the wrap of millis().
PulseCeiling ==
    energised => lit < granted + unfed /\ granted <= RelayMax

\* Short of a reset, the relay is not released before the time of the last
\* command honoured is over, whatever the update and the clocks do; across the
\* wrap of millis().
PulseNotCut ==
    [][energised /\ ~energised' /\ boots' = boots => lit + (now' - now) >= granted]_vars

\* A command is honoured twice only when the ring has been overwritten in
\* between, or the board has rebooted: of Capacity + 1 commands honoured in a
\* row, no two are the same.
RingRemembers ==
    \A i, j \in DOMAIN honoured : i < j /\ honoured[i] = honoured[j] => j - i > Capacity

\* A recorded command that has opened the door once opens it again only within
\* the longest lifetime the signer allows and the skew on either side, by the
\* board's clock: after a reboot too, when the ring is empty, and whatever
\* issued_at the API asked for.
ReplayWindow ==
    [][\A c \in Commands : honoured' = Append(honoured, c) /\ firstAt[c] # Never =>
          Time - firstAt[c] \in -(MaxTtl + 2 * MaxSkew) .. MaxTtl + 2 * MaxSkew]_vars

\* What a phone hears now is accepted for MaxAge, by the board's clock and less
\* the time the loop has hung, and is refused once the window and the slot it
\* rounds up to are over.
BeaconWindow ==
    advertising =>
        LET heard == Time - unfed
        IN  \A t \in now .. now + (Span + 2) * Rotation :
               /\ t >= heard /\ t - heard <= MaxAge => VerifyProximity(slot, t)
               /\ VerifyProximity(slot, t) => t - heard < (Span + 1) * Rotation

\* README.md:133-135, of an API that was taken over: it "gets nothing that outlives
\* that access", and docs/02-threat-model.md:65: it "cannot mint commands for later
\* use". A command would then be worth nothing MaxTtl after it was signed, give or
\* take the skew and the error of the board's clock; but the signer never looks at
\* a clock.
NoneForLater ==
    [][\A c \in Commands : honoured' = Append(honoured, c) =>
          now <= signed[c].at + MaxTtl + MaxSkew - drift]_vars

=============================================================================
