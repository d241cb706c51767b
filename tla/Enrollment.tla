------------------------------ MODULE Enrollment ------------------------------
(***************************************************************************)
(* Binding a phone to a user: the challenge store and enroll() of             *)
(* backend/app/services/enrollment_service.py over the tables of              *)
(* backend/app/db/repositories/devices.py.                                    *)
(*                                                                            *)
(* The store is a dict in the process: its methods have no await and are      *)
(* atomic, and a restart empties it. Everything after take() is autocommit    *)
(* statements with no transaction around them. public_key is UNIQUE, so a     *)
(* device is its key. What a request carries is chosen where the code first   *)
(* looks at it.                                                               *)
(***************************************************************************)
EXTENDS Attestation

CONSTANTS
    Calls,          \* handlers of POST /auth/enroll
    Codes,          \* enrolment codes, issued by an administrator or made up
    Keys,           \* public keys of phones
    Evidence,       \* what a phone may send: [chain, integrity]
    ChallengeTtl,   \* CHALLENGE_TTL_SECONDS, in ticks
    CodeTtl,        \* --ttl of issue_enrollment_code.py, in ticks
    NoCode, NoKey, NoDevice, NoProof,
    MaxChallenge,   \* bound: challenges drawn
    MaxClock        \* bound: ticks

ASSUME EnrollmentBounds ==
    /\ MaxChallenge \in Nat /\ MaxClock \in Nat
    /\ ChallengeTtl \in Nat \ {0} /\ CodeTtl \in Nat \ {0}

ASSUME EnrollmentNone == NoCode \notin Codes /\ NoKey \notin Keys

\* The lists of a key description are sequences.
ASSUME EvidenceAssumption ==
    \A evidence \in Evidence :
        LET description == evidence.chain[1].extension
        IN  evidence.chain # <<>> /\ description # NoExtension =>
                \A list \in {description.tee, description.software} :
                    Len(list) \in Nat /\ DOMAIN list = 1 .. Len(list)

Challenges == 1 .. MaxChallenge

\* No challenge, and what a phone presents that no server issued.
NoChallenge == 0

VARIABLES
    mode,       \* attestation_mode, set before the process starts
    clock,
    drawn,      \* challenges 1 .. drawn have been issued
    issuedFor,  \* history: the code each was issued for
    issuedAt,   \* the tick; an item's expires_at is issuedAt + ChallengeTtl
    items,      \* ChallengeStore._items: the challenge kept for each code
    expires,    \* expires_at of each row of acs.enrollment_codes, 0 for no row
    used,       \* codes with used_at
    attached,   \* used_by_device
    device,     \* rows of acs.devices by key
    tokens,     \* kinds of token issued to each device
    pc,         \* how far each call has come
    code,       \* the code it came with
    taken,      \* the challenge it took and matched
    key         \* the key it enrols

storeVars == <<drawn, issuedFor, issuedAt, items>>
codeVars == <<expires, used, attached>>
callVars == <<code, taken, key>>
vars == <<mode, clock, storeVars, codeVars, device, tokens, pc, callVars>>

\* Where a call is; the last four are how it ended: 200, 401 and 409 with their
\* audit row, and cut off (500, or the process died).
Phases == {"idle", "mismatch", "claim", "claimed", "rejected", "clash",
           "created", "attached", "half", "paired"}
Ended == {"enrolled", "refused", "conflict", "failed"}

DeviceRow == [status : {"verified"}, code : Codes, proof : Challenges \X Evidence]
                 \cup [status : {"exempt"}, code : Codes, proof : {NoProof}]

ASSUME NoDeviceAssumption == NoDevice \notin DeviceRow

\* Rows, items and calls have the shape the schema and the code give them.
TypeOK ==
    /\ mode \in {"strict", "log_only"}
    /\ clock \in 1 .. MaxClock + 1
    /\ drawn \in 0 .. MaxChallenge
    /\ issuedFor \in [Challenges -> Codes \cup {NoCode}]
    /\ issuedAt \in [Challenges -> 0 .. MaxClock + 1]
    /\ items \in [Codes -> Challenges \cup {NoChallenge}]
    /\ expires \in [Codes -> Nat]
    /\ used \subseteq Codes
    /\ attached \in [Codes -> Keys \cup {NoKey}]
    /\ device \in [Keys -> DeviceRow \cup {NoDevice}]
    /\ tokens \in [Keys -> SUBSET {"access", "refresh"}]
    /\ pc \in [Calls -> Phases \cup Ended]
    /\ code \in [Calls -> Codes \cup {NoCode}]
    /\ taken \in [Calls -> Challenges \cup {NoChallenge}]
    /\ key \in [Calls -> Keys \cup {NoKey}]

Init ==
    /\ mode \in {"strict", "log_only"}
    /\ clock = 1
    /\ drawn = 0
    /\ issuedFor = [n \in Challenges |-> NoCode]
    /\ issuedAt = [n \in Challenges |-> 0]
    /\ items = [x \in Codes |-> NoChallenge]
    /\ expires = [x \in Codes |-> 0]
    /\ used = {}
    /\ attached = [x \in Codes |-> NoKey]
    /\ device = [k \in Keys |-> NoDevice]
    /\ tokens = [k \in Keys |-> {}]
    /\ pc = [c \in Calls |-> "idle"]
    /\ code = [c \in Calls |-> NoCode]
    /\ taken = [c \in Calls |-> NoChallenge]
    /\ key = [c \in Calls |-> NoKey]

Go(c, from, to) ==
    /\ pc[c] = from
    /\ pc' = [pc EXCEPT ![c] = to]

-----------------------------------------------------------------------------
(* The administrator and the challenge store *)

\* issue_enrollment_code.py: a fresh code for a user that exists.
IssueCode(x) ==
    /\ expires[x] = 0
    /\ expires' = [expires EXCEPT ![x] = clock + CodeTtl]
    /\ UNCHANGED <<mode, clock, storeVars, used, attached, device, tokens, pc, callVars>>

\* _sweep(): what is left of the items.
Sweep ==
    [x \in Codes |-> IF items[x] # NoChallenge /\ issuedAt[items[x]] + ChallengeTtl < clock
                     THEN NoChallenge ELSE items[x]]

MutantKeepsFirst(x) ==
    /\ drawn < MaxChallenge
    /\ drawn' = drawn + 1
    /\ issuedFor' = [issuedFor EXCEPT ![drawn + 1] = x]
    /\ issuedAt' = [issuedAt EXCEPT ![drawn + 1] = clock]
    /\ items' = [Sweep EXCEPT ![x] = IF @ = NoChallenge THEN drawn + 1 ELSE @]
    /\ UNCHANGED <<mode, clock, codeVars, device, tokens, pc, callVars>>

\* enroll_challenge(): for any code, real or not. A challenge that was there is
\* replaced.
IssueChallenge(x) ==
    /\ drawn < MaxChallenge
    /\ drawn' = drawn + 1
    /\ issuedFor' = [issuedFor EXCEPT ![drawn + 1] = x]
    /\ issuedAt' = [issuedAt EXCEPT ![drawn + 1] = clock]
    /\ items' = [Sweep EXCEPT ![x] = drawn + 1]
    /\ UNCHANGED <<mode, clock, codeVars, device, tokens, pc, callVars>>

-----------------------------------------------------------------------------
(* enroll() *)

\* take() removes the item whatever is presented.
MutantPeek(x) == items' = Sweep

Pop(x) == items' = [Sweep EXCEPT ![x] = NoChallenge]

Arrives(c, x) ==
    /\ code' = [code EXCEPT ![c] = x]
    /\ UNCHANGED <<mode, clock, drawn, issuedFor, issuedAt, codeVars, device, tokens, key>>

TakeMatching(c, x, presented) ==
    /\ Go(c, "idle", "claim")
    /\ presented # NoChallenge
    /\ Sweep[x] = presented
    /\ Pop(x)
    /\ taken' = [taken EXCEPT ![c] = presented]
    /\ Arrives(c, x)

\* Nothing is kept for the code, or something else is; or what is presented is
\* no base64, and b64decode() raises.
TakeOther(c, x, presented) ==
    /\ Go(c, "idle", "mismatch") \/ (presented = NoChallenge /\ Go(c, "idle", "failed"))
    /\ presented = NoChallenge \/ Sweep[x] # presented
    /\ Pop(x)
    /\ UNCHANGED taken
    /\ Arrives(c, x)

\* claim(): one UPDATE.
Claimable(x) == x \notin used /\ expires[x] > clock

MutantClaimAny(c) ==
    /\ Go(c, "claim", "claimed")
    /\ expires[code[c]] > clock
    /\ used' = used \cup {code[c]}
    /\ UNCHANGED <<mode, clock, storeVars, expires, attached, device, tokens, callVars>>

Claim(c) ==
    /\ Go(c, "claim", "claimed")
    /\ Claimable(code[c])
    /\ used' = used \cup {code[c]}
    /\ UNCHANGED <<mode, clock, storeVars, expires, attached, device, tokens, callVars>>

ClaimFails(c) ==
    /\ Go(c, "claim", "mismatch")
    /\ ~Claimable(code[c])
    /\ UNCHANGED <<mode, clock, storeVars, codeVars, device, tokens, callVars>>

\* enroll() passes no trusted_roots.
Accepted(c, evidence, attested) ==
    /\ VerifyKeyAttestation(evidence.chain, attested, taken[c], {})
    /\ EvaluatePlayIntegrity(DecodeIntegrityPayload(evidence.integrity))

\* What is not accepted is admitted all the same when the mode is log_only.
Admitted(c, evidence, attested) ==
    mode = "log_only" \/ Accepted(c, evidence, attested)

Reject(c, evidence, attested) ==
    /\ Go(c, "claimed", "rejected")
    /\ ~Admitted(c, evidence, attested)
    /\ UNCHANGED <<mode, clock, storeVars, codeVars, device, tokens, callVars>>

\* The row, with what it was verified on (attestation_detail). What was not
\* accepted is "exempt".
MutantFailedKept(c, evidence, attested) ==
    IF Accepted(c, evidence, attested)
    THEN [status |-> "verified", code |-> code[c], proof |-> <<attested, evidence>>]
    ELSE [status |-> "failed", code |-> code[c], proof |-> NoProof]

NewDevice(c, evidence, attested) ==
    IF Accepted(c, evidence, attested)
    THEN [status |-> "verified", code |-> code[c], proof |-> <<attested, evidence>>]
    ELSE [status |-> "exempt", code |-> code[c], proof |-> NoProof]

\* The verdict, and the INSERT of create(): public_key is UNIQUE.
MutantUpsert(c, evidence, attested, k) ==
    /\ Go(c, "claimed", "created")
    /\ Admitted(c, evidence, attested)
    /\ device' = [device EXCEPT ![k] = NewDevice(c, evidence, attested)]
    /\ key' = [key EXCEPT ![c] = k]
    /\ UNCHANGED <<mode, clock, storeVars, codeVars, tokens, code, taken>>

CreateDevice(c, evidence, attested, k) ==
    /\ Go(c, "claimed", "created")
    /\ Admitted(c, evidence, attested)
    /\ device[k] = NoDevice
    /\ device' = [device EXCEPT ![k] = NewDevice(c, evidence, attested)]
    /\ key' = [key EXCEPT ![c] = k]
    /\ UNCHANGED <<mode, clock, storeVars, codeVars, tokens, code, taken>>

\* Any exception of create(): the key has a row already, is no base64, or the
\* database is away. No row is written;
CreateFails(c, evidence, attested) ==
    /\ Go(c, "claimed", "clash")
    /\ Admitted(c, evidence, attested)
    /\ UNCHANGED <<mode, clock, storeVars, codeVars, device, tokens, callVars>>

\* or the connection is lost after the INSERT has committed: the device is there,
\* and the caller goes the same way as if it were not.
CreateLost(c, evidence, attested, k) ==
    /\ Go(c, "claimed", "clash")
    /\ Admitted(c, evidence, attested)
    /\ device[k] = NoDevice
    /\ device' = [device EXCEPT ![k] = NewDevice(c, evidence, attested)]
    /\ key' = [key EXCEPT ![c] = k]
    /\ UNCHANGED <<mode, clock, storeVars, codeVars, tokens, code, taken>>

AttachDevice(c) ==
    /\ Go(c, "created", "attached")
    /\ attached' = [attached EXCEPT ![code[c]] = key[c]]
    /\ UNCHANGED <<mode, clock, storeVars, expires, used, device, tokens, callVars>>

\* issue_pair(): two INSERTs.
IssuePair(c) ==
    /\ \/ /\ Go(c, "attached", "half")
          /\ tokens' = [tokens EXCEPT ![key[c]] = @ \cup {"access"}]
       \/ /\ Go(c, "half", "paired")
          /\ tokens' = [tokens EXCEPT ![key[c]] = @ \cup {"refresh"}]
    /\ UNCHANGED <<mode, clock, storeVars, codeVars, device, callVars>>

\* The audit row of the outcome, and the answer.
Answer(c) ==
    /\ \/ Go(c, "mismatch", "refused") \/ Go(c, "rejected", "refused")
       \/ Go(c, "clash", "conflict")
       \/ Go(c, "paired", "enrolled")
    /\ UNCHANGED <<mode, clock, storeVars, codeVars, device, tokens, callVars>>

\* A statement raises: the answer is 500 and the rest of the handler is gone.
DatabaseError(c) ==
    /\ pc[c] \in Phases \ {"idle"}
    /\ pc' = [pc EXCEPT ![c] = "failed"]
    /\ UNCHANGED <<mode, clock, storeVars, codeVars, device, tokens, callVars>>

-----------------------------------------------------------------------------

\* The process restarts: every handler is gone, and the store with it.
Restart ==
    /\ items' = [x \in Codes |-> NoChallenge]
    /\ pc' = [c \in Calls |-> IF pc[c] \in Phases \ {"idle"} THEN "failed" ELSE pc[c]]
    /\ UNCHANGED <<mode, clock, drawn, issuedFor, issuedAt, codeVars, device, tokens, callVars>>

Tick ==
    /\ clock <= MaxClock
    /\ clock' = clock + 1
    /\ UNCHANGED <<mode, storeVars, codeVars, device, tokens, pc, callVars>>

Request(c) ==
    \E x \in Codes, presented \in Challenges \cup {NoChallenge} :
        TakeMatching(c, x, presented) \/ TakeOther(c, x, presented)

Decide(c) ==
    \E evidence \in Evidence, attested \in Challenges :
        \/ Reject(c, evidence, attested) \/ CreateFails(c, evidence, attested)
        \/ \E k \in Keys : \/ CreateDevice(c, evidence, attested, k)
                         \/ CreateLost(c, evidence, attested, k)

Handle(c) ==
    \/ Claim(c) \/ ClaimFails(c) \/ Decide(c) \/ AttachDevice(c)
    \/ IssuePair(c) \/ Answer(c) \/ DatabaseError(c)

Next ==
    \/ \E c \in Calls : Request(c) \/ Handle(c)
    \/ \E x \in Codes : IssueCode(x) \/ IssueChallenge(x)
    \/ Restart
    \/ Tick

Spec == Init /\ [][Next]_vars

-----------------------------------------------------------------------------
(* Properties *)

Verified == {k \in Keys : device[k] # NoDevice /\ device[k].status = "verified"}

\* "a code is claimed atomically": whatever calls overlap, fail, are retried or
\* are cut off by a restart, one enrolment code never yields two devices.
OneDevicePerCode ==
    \A k, l \in Keys :
        device[k] # NoDevice /\ device[l] # NoDevice /\ device[k].code = device[l].code
            => k = l

\* "It is single use: a chain can only be presented once"
\* (enrollment_service.py): no two calls get past the comparison with one
\* challenge, across restarts too.
ChallengeSpentOnce ==
    \A c, d \in Calls : taken[c] = taken[d] /\ taken[c] # NoChallenge => c = d

\* The challenge a call gets past the comparison with was issued for its code,
\* at most ChallengeTtl ago, and is the newest one issued for it: asking again
\* takes the earlier one back.
NewestChallengeOnly ==
    [][\A c \in Calls : taken'[c] # taken[c] =>
          /\ issuedFor[taken'[c]] = code'[c]
          /\ clock - issuedAt[taken'[c]] <= ChallengeTtl
          /\ \A n \in Challenges : issuedFor[n] = code'[c] => n <= taken'[c]]_vars

\* A device is recorded as "verified" only over a challenge that was issued for
\* its own code, and over one that no other verified device rests on: a recorded
\* chain is worth nothing in another enrolment. In strict mode there is no other
\* device.
VerifiedOverOwnChallenge ==
    /\ \A k \in Verified : issuedFor[device[k].proof[1]] = device[k].code
    /\ \A k, l \in Verified : device[k].proof[1] = device[l].proof[1] => k = l
    /\ mode = "strict" => {k \in Keys : device[k] # NoDevice} \subseteq Verified

\* The last root of trust in the list is a verified boot on a locked device, and
\* the list does not allow the key to be used without authentication.
StatedBy(list) ==
    /\ \E i \in DOMAIN list :
          /\ list[i].tag = "root" /\ list[i].boot = "verified" /\ list[i].locked
          /\ \A j \in DOMAIN list : list[j].tag = "root" => j <= i
    /\ \A i \in DOMAIN list : list[i].tag # "no_auth"

\* Play Integrity's verdict on app and device, by the policy in the settings.
Recognised(integrity) ==
    /\ integrity.form \in {"json", "base64"}
    /\ integrity.payload.app = "PLAY_RECOGNIZED"
    /\ Package # Unset => integrity.payload.package = Package
    /\ CertDigest # Unset => CertDigest \in integrity.payload.digests
    /\ "MEETS_DEVICE_INTEGRITY" \in integrity.payload.device

\* Where the hardware list states a root of trust, nothing the software list says
\* makes a device verified: the last root is sound, and the list asks for
\* authentication. Where it states none, the software list decides alone, and what
\* the hardware list says of authentication is not heeded. Either way the level is
\* not "software" and Play Integrity recognises app and device. Who signed the top
\* of the chain is not part of it: enroll() does not look.
HardwareNotOverruled ==
    \A k \in Verified :
        LET evidence == device[k].proof[2]
            description == evidence.chain[1].extension
        IN  /\ description.level # "software"
            /\ HasRoot(description.tee) => StatedBy(description.tee)
            /\ ~HasRoot(description.tee) => StatedBy(description.software)
            /\ Recognised(evidence.integrity)

\* A device with all that belongs to it.
Complete(k) ==
    /\ device[k] # NoDevice
    /\ device[k].code \in used
    /\ attached[device[k].code] = k
    /\ tokens[k] = {"access", "refresh"}

\* An enrolment answered with 200 has its own device, code and token pair, and
\* no other call changes that later; a device that lacks any of them belongs to
\* a call that is still at work on it, was cut off, or could not know that its
\* INSERT had been committed.
EnrolledIsComplete ==
    /\ \A c \in Calls : pc[c] = "enrolled" =>
          Complete(key[c]) /\ device[key[c]].code = code[c]
    /\ \A k \in Keys : device[k] # NoDevice /\ ~Complete(k) =>
          \E c \in Calls : key[c] = k /\ pc[c] \in {"created", "attached", "half", "failed",
                                                  "clash", "conflict"}

=============================================================================
