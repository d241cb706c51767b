--------------------------- MODULE EnrollmentProofs ---------------------------
(***************************************************************************)
(* Proofs for Enrollment: types, that a code yields one device and a          *)
(* challenge is spent once, which challenge and which list a verified device  *)
(* rests on, and what belongs to a device when its enrolment has been         *)
(* answered, for every number of calls, codes, keys, challenges and ticks and *)
(* for any evidence.                                                          *)
(***************************************************************************)
EXTENDS Enrollment, WellFoundedInduction, TLAPS

-----------------------------------------------------------------------------
(* The inductive invariant *)

\* A call that has made its device, by how much of it is there.
HasRefresh == {"paired", "enrolled"}
HasAccess == {"half"} \cup HasRefresh
HasAttached == {"attached"} \cup HasAccess
HasDevice == {"created"} \cup HasAttached

\* A call that has ended, or is about to end, without knowing whether there is a
\* device.
Left == {"failed", "clash", "conflict"}

\* A call that has claimed its code and may go on.
Owning == {"claimed"} \cup HasDevice

\* What is kept for a code is the newest challenge issued for it, and nobody has
\* taken it; what a call has taken was issued for its code.
StoreInv ==
    /\ \A n \in Challenges : n > drawn => issuedFor[n] = NoCode
    /\ \A x \in Codes : items[x] # NoChallenge =>
          /\ items[x] <= drawn /\ issuedFor[items[x]] = x
          /\ \A n \in Challenges : issuedFor[n] = x => n <= items[x]
          /\ \A c \in Calls : taken[c] # items[x]
    /\ \A c \in Calls : taken[c] # NoChallenge =>
          taken[c] <= drawn /\ issuedFor[taken[c]] = code[c]

\* What a call has in hand at each step.
CallInv ==
    \A c \in Calls :
        /\ pc[c] = "idle" => taken[c] = NoChallenge
        /\ pc[c] # "idle" => code[c] \in Codes
        /\ pc[c] \in HasDevice => key[c] \in Keys
        /\ pc[c] \in Owning => code[c] \in used

\* A claimed code has one owner.
OwnInv ==
    \A c, d \in Calls :
        pc[c] \in Owning /\ pc[d] \in Owning /\ code[c] = code[d] => c = d

\* A device has a claimed code and the call that made it; that call knows it by
\* its key, and what it has added to it is there.
DeviceInv ==
    /\ \A k \in Keys : device[k] # NoDevice =>
          /\ device[k].code \in used
          /\ \E c \in Calls : key[c] = k /\ pc[c] \in HasDevice \cup Left
    /\ \A c \in Calls : pc[c] = "claimed" =>
          \A k \in Keys : device[k] # NoDevice => device[k].code # code[c]
    /\ \A c \in Calls : pc[c] \in HasDevice =>
          device[key[c]] # NoDevice /\ device[key[c]].code = code[c]

\* What has been added is there.
PartsInv ==
    \A c \in Calls :
        /\ pc[c] \in HasAttached => attached[code[c]] = key[c]
        /\ pc[c] \in HasAccess => "access" \in tokens[key[c]]
        /\ pc[c] \in HasRefresh => "refresh" \in tokens[key[c]]

\* What evidence must say for a device to be recorded as verified.
Vouches(evidence) ==
    LET description == evidence.chain[1].extension
    IN  /\ description.level # "software"
        /\ HasRoot(description.tee) => StatedBy(description.tee)
        /\ ~HasRoot(description.tee) => StatedBy(description.software)
        /\ Recognised(evidence.integrity)

\* A device that is not verified was admitted by log_only; a verified one was
\* checked against a challenge issued for its code, on evidence that vouches.
ProvenInv ==
    \A k \in Keys : device[k] # NoDevice =>
        \/ mode = "log_only" /\ device[k].status = "exempt"
        \/ /\ device[k].status = "verified"
           /\ issuedFor[device[k].proof[1]] = device[k].code
           /\ Vouches(device[k].proof[2])

\* That challenge has been drawn.
ProofInv ==
    \A k \in Keys : device[k] # NoDevice /\ device[k].status = "verified" =>
        device[k].proof[1] <= drawn

EInv ==
    /\ TypeOK /\ StoreInv /\ ChallengeSpentOnce /\ CallInv /\ OwnInv
    /\ DeviceInv /\ OneDevicePerCode /\ PartsInv /\ ProofInv /\ ProvenInv

-----------------------------------------------------------------------------
(* Evidence *)

\* A finite sequence with a root of trust has a last one.
LEMMA LastRootExists ==
    ASSUME NEW list, Len(list) \in Nat, DOMAIN list = 1 .. Len(list), HasRoot(list)
    PROVE  \E i \in Roots(list) : LastRoot(list) = list[i] /\ \A j \in Roots(list) : j <= i
<1>. DEFINE R == Roots(list)
            T == {Len(list) - i : i \in R}
<1>1. R # {} /\ R \subseteq 1 .. Len(list)
  BY DEF HasRoot, Roots
<1>2. T \subseteq Nat /\ T # {}
  BY <1>1
<1>3. PICK m \in T : \A y \in T : ~(<<y, m>> \in OpToRel(<, Nat))
  <2>. HIDE DEF T
  <2>. QED BY <1>2, NatLessThanWellFounded, WFMin
<1>4. \A y \in T : ~(y < m)
  BY <1>2, <1>3 DEF OpToRel
<1>5. PICK i \in R : m = Len(list) - i
  OBVIOUS
<1>6. \A j \in R : j <= i
  <2>. TAKE j \in R
  <2>1. ~(Len(list) - j < m)
    BY <1>4
  <2>. QED BY <1>1, <1>5, <2>1
<1>7. PICK n \in R : n = (CHOOSE x \in R : \A j \in R : j <= x) /\ \A j \in R : j <= n
  BY <1>6
<1>. QED BY <1>7 DEF LastRoot

\* What the verdict on a list says is stated in it.
LEMMA ScanIsStated ==
    ASSUME NEW list, Len(list) \in Nat, DOMAIN list = 1 .. Len(list),
           ScanAuthorizationList(list).boot_state = "verified",
           ScanAuthorizationList(list).device_locked,
           ~ScanAuthorizationList(list).no_auth_required
    PROVE  StatedBy(list)
<1>1. HasRoot(list) /\ LastRoot(list).boot = "verified" /\ LastRoot(list).locked
  BY DEF ScanAuthorizationList, HasRoot, Unknown
<1>2. PICK i \in Roots(list) : LastRoot(list) = list[i] /\ \A j \in Roots(list) : j <= i
  BY <1>1, LastRootExists
<1>3. i \in DOMAIN list /\ list[i].tag = "root" /\ list[i].boot = "verified" /\ list[i].locked
  BY <1>1, <1>2 DEF Roots
<1>4. \A j \in DOMAIN list : list[j].tag = "root" => j <= i
  BY <1>2 DEF Roots
<1>5. \A j \in DOMAIN list : list[j].tag # "no_auth"
  BY DEF ScanAuthorizationList
<1>. QED BY <1>3, <1>4, <1>5 DEF StatedBy

LEMMA AcceptedVouches ==
    ASSUME NEW c \in Calls, NEW evidence \in Evidence, NEW attested \in Challenges,
           Accepted(c, evidence, attested)
    PROVE  attested = taken[c] /\ Vouches(evidence)
<1>. DEFINE d == evidence.chain[1].extension
<1>1. /\ evidence.chain # <<>> /\ d # NoExtension
      /\ attested = taken[c] /\ d.level # "software"
      /\ ParseKeyDescription(d).boot_state = "verified"
      /\ ParseKeyDescription(d).device_locked
      /\ ~ParseKeyDescription(d).no_auth_required
  BY DEF Accepted, VerifyKeyAttestation
<1>2. Recognised(evidence.integrity)
  <2>1. EvaluatePlayIntegrity(DecodeIntegrityPayload(evidence.integrity))
    BY DEF Accepted
  <2>2. evidence.integrity.form \in {"json", "base64"}
    BY <2>1 DEF EvaluatePlayIntegrity, DecodeIntegrityPayload
  <2>. QED BY <2>1, <2>2 DEF EvaluatePlayIntegrity, DecodeIntegrityPayload, Recognised
<1>3. \A list \in {d.tee, d.software} : Len(list) \in Nat /\ DOMAIN list = 1 .. Len(list)
  BY <1>1, EvidenceAssumption
<1>4. StatedBy(Enforced(d))
  <2>1. Enforced(d) \in {d.tee, d.software}
    BY DEF Enforced
  <2>2. Len(Enforced(d)) \in Nat /\ DOMAIN Enforced(d) = 1 .. Len(Enforced(d))
    BY <1>3, <2>1
  <2>. HIDE DEF d
  <2>. QED BY <1>1, <2>2, ScanIsStated DEF ParseKeyDescription
<1>. QED BY <1>1, <1>2, <1>4 DEF Enforced, Vouches

-----------------------------------------------------------------------------
(* Every step preserves the invariant *)

LEMMA InitEInv == Init => EInv
<1>. SUFFICES ASSUME Init PROVE EInv
  OBVIOUS
<1>1. TypeOK
  BY EnrollmentBounds DEF Init, TypeOK, Phases, NoChallenge
<1>2. StoreInv /\ ChallengeSpentOnce
  BY DEF Init, StoreInv, ChallengeSpentOnce
<1>3. CallInv /\ OwnInv
  BY DEF Init, CallInv, OwnInv, Owning, HasDevice, HasAttached, HasAccess, HasRefresh
<1>4. DeviceInv /\ OneDevicePerCode /\ PartsInv /\ ProofInv /\ ProvenInv
  BY DEF Init, DeviceInv, OneDevicePerCode, PartsInv, ProofInv, ProvenInv,
     HasDevice, HasAttached, HasAccess, HasRefresh
<1>. QED BY <1>1, <1>2, <1>3, <1>4 DEF EInv

\* What is left after a sweep was there before it, and is not too old.
LEMMA SweepKeeps ==
    ASSUME TypeOK
    PROVE  /\ Sweep \in [Codes -> Challenges \cup {NoChallenge}]
           /\ \A x \in Codes : Sweep[x] \in {items[x], NoChallenge}
           /\ \A x \in Codes : Sweep[x] # NoChallenge =>
                 Sweep[x] = items[x] /\ clock - issuedAt[Sweep[x]] <= ChallengeTtl
BY EnrollmentBounds DEF TypeOK, Sweep, Challenges, NoChallenge

\* The rows of codes and devices, and the calls, do not move.
LEMMA RowsKept ==
    ASSUME EInv, UNCHANGED <<mode, used, attached, device, tokens, pc, callVars>>
    PROVE  /\ ChallengeSpentOnce' /\ CallInv' /\ OwnInv'
           /\ DeviceInv' /\ OneDevicePerCode' /\ PartsInv'
<1>1. ChallengeSpentOnce' /\ CallInv' /\ OwnInv'
  BY DEF EInv, ChallengeSpentOnce, CallInv, OwnInv, callVars
<1>2. DeviceInv' /\ OneDevicePerCode' /\ PartsInv'
  BY DEF EInv, DeviceInv, OneDevicePerCode, PartsInv, callVars
<1>. QED BY <1>1, <1>2

LEMMA IssueCodeInv ==
    ASSUME EInv, NEW x \in Codes, IssueCode(x)
    PROVE  EInv'
<1>1. UNCHANGED <<mode, clock, storeVars, used, attached, device, tokens, pc, callVars>>
  BY DEF IssueCode
<1>2. TypeOK'
  BY EnrollmentBounds DEF EInv, TypeOK, IssueCode, storeVars, callVars
<1>3. StoreInv'
  BY <1>1 DEF EInv, StoreInv, storeVars, callVars
<1>4. ProofInv' /\ ProvenInv'
  BY <1>1 DEF EInv, ProofInv, ProvenInv, storeVars
<1>. QED BY <1>1, <1>2, <1>3, <1>4, RowsKept DEF EInv

LEMMA TickInv ==
    ASSUME EInv, Tick
    PROVE  EInv'
<1>1. UNCHANGED <<mode, storeVars, codeVars, device, tokens, pc, callVars>>
  BY DEF Tick
<1>2. TypeOK'
  BY EnrollmentBounds DEF EInv, TypeOK, Tick, storeVars, codeVars, callVars
<1>3. StoreInv'
  BY <1>1 DEF EInv, StoreInv, storeVars, callVars
<1>4. ProofInv' /\ ProvenInv'
  BY <1>1 DEF EInv, ProofInv, ProvenInv, storeVars
<1>. QED BY <1>1, <1>2, <1>3, <1>4, RowsKept DEF EInv, codeVars

\* A new challenge is larger than all others, and nothing rests on it yet.
LEMMA IssueChallengeInv ==
    ASSUME EInv, NEW x \in Codes, IssueChallenge(x)
    PROVE  EInv'
<1>1. /\ drawn + 1 \in Challenges /\ drawn' = drawn + 1
      /\ issuedFor' = [issuedFor EXCEPT ![drawn + 1] = x]
      /\ issuedAt' = [issuedAt EXCEPT ![drawn + 1] = clock]
      /\ items' = [Sweep EXCEPT ![x] = drawn + 1]
      /\ UNCHANGED <<mode, clock, codeVars, device, tokens, pc, callVars>>
  BY EnrollmentBounds DEF IssueChallenge, Challenges, EInv, TypeOK
<1>2. TypeOK'
  BY <1>1, SweepKeeps, EnrollmentBounds DEF EInv, TypeOK, Challenges, codeVars, callVars
<1>3. StoreInv'
  <2>1. \A n \in Challenges : n > drawn' => issuedFor'[n] = NoCode
    BY <1>1 DEF EInv, StoreInv, TypeOK, Challenges
  <2>2. ASSUME NEW y \in Codes, items'[y] # NoChallenge
        PROVE  /\ items'[y] <= drawn' /\ issuedFor'[items'[y]] = y
               /\ \A n \in Challenges : issuedFor'[n] = y => n <= items'[y]
               /\ \A c \in Calls : taken'[c] # items'[y]
    <3>1. CASE y = x
      <4>1. items'[y] = drawn + 1
        BY <1>1, <3>1, SweepKeeps DEF EInv
      <4>2. \A c \in Calls : taken[c] # drawn + 1
        BY DEF EInv, StoreInv, TypeOK, NoChallenge, Challenges
      <4>3. \A n \in Challenges : issuedFor'[n] = y => n <= drawn + 1
        BY <1>1, EnrollmentNone DEF EInv, StoreInv, TypeOK, Challenges
      <4>. QED BY <1>1, <3>1, <4>1, <4>2, <4>3 DEF EInv, TypeOK, callVars, Challenges
    <3>2. CASE y # x
      <4>1. items'[y] = items[y] /\ items[y] # NoChallenge
        BY <1>1, <2>2, <3>2, SweepKeeps DEF EInv
      <4>2. items[y] \in Challenges /\ items[y] <= drawn
        BY <4>1 DEF EInv, TypeOK, StoreInv
      <4>3. \A n \in Challenges : issuedFor'[n] = y => issuedFor[n] = y
        BY <1>1, <3>2 DEF EInv, TypeOK
      <4>4. issuedFor'[items[y]] = y
        BY <1>1, <4>1, <4>2 DEF EInv, TypeOK, StoreInv, Challenges
      <4>5. items[y] <= drawn + 1
        BY <4>2 DEF EInv, TypeOK, Challenges
      <4>6. /\ \A n \in Challenges : issuedFor[n] = y => n <= items[y]
            /\ \A c \in Calls : taken[c] # items[y]
        BY <4>1 DEF EInv, StoreInv
      <4>. QED BY <1>1, <4>1, <4>3, <4>4, <4>5, <4>6 DEF callVars
    <3>. QED BY <3>1, <3>2
  <2>3. \A c \in Calls : taken'[c] # NoChallenge =>
            taken'[c] <= drawn' /\ issuedFor'[taken'[c]] = code'[c]
    BY <1>1 DEF EInv, StoreInv, TypeOK, callVars, Challenges, NoChallenge
  <2>. QED BY <2>1, <2>2, <2>3 DEF StoreInv
<1>4. ProofInv'
  BY <1>1 DEF EInv, ProofInv, TypeOK, DeviceRow, Challenges
<1>5. ProvenInv'
  <2>1. \A k \in Keys : device[k] # NoDevice /\ device[k].status = "verified" =>
            issuedFor'[device[k].proof[1]] = issuedFor[device[k].proof[1]]
    <3>. TAKE k \in Keys
    <3>. HAVE device[k] # NoDevice /\ device[k].status = "verified"
    <3>1. device[k].proof[1] \in Challenges /\ device[k].proof[1] <= drawn
      BY DEF EInv, ProofInv, TypeOK, DeviceRow
    <3>. QED BY <1>1, <3>1 DEF EInv, TypeOK, Challenges
  <2>. QED BY <1>1, <2>1 DEF EInv, ProvenInv
<1>. QED BY <1>1, <1>2, <1>3, <1>4, <1>5, RowsKept DEF EInv, codeVars

\* A call that moves on with nothing but its place.
LEMMA MoveInv ==
    ASSUME EInv, NEW c \in Calls, NEW to \in (Phases \cup Ended) \ {"idle", "claimed"},
           pc[c] \notin {"idle", "failed"}, pc' = [pc EXCEPT ![c] = to],
           \A has \in {HasRefresh, HasAccess, HasAttached, HasDevice} : to \in has => pc[c] \in has,
           pc[c] \in HasDevice \cup Left => to \in HasDevice \cup Left,
           UNCHANGED <<mode, clock, storeVars, codeVars, device, tokens, callVars>>
    PROVE  EInv'
<1>1. TypeOK'
  BY DEF EInv, TypeOK, storeVars, codeVars, callVars
<1>2. StoreInv' /\ ChallengeSpentOnce'
  BY DEF EInv, StoreInv, ChallengeSpentOnce, storeVars, callVars
<1>3. to \in Owning => pc[c] \in Owning
  BY DEF Owning
<1>4. CallInv' /\ OwnInv'
  BY <1>3 DEF EInv, TypeOK, CallInv, OwnInv, codeVars, callVars
<1>5. DeviceInv'
  <2>1. \A d \in Calls : pc[d] \in HasDevice \cup Left =>
            pc'[d] \in HasDevice \cup Left
    BY DEF EInv, TypeOK
  <2>2. \A d \in Calls : /\ pc'[d] = "claimed" => pc[d] = "claimed"
                         /\ pc'[d] \in HasDevice => pc[d] \in HasDevice
    BY DEF EInv, TypeOK
  <2>. QED BY <2>1, <2>2 DEF EInv, DeviceInv, codeVars, callVars
<1>6. PartsInv'
  BY DEF EInv, TypeOK, PartsInv, codeVars, callVars
<1>7. OneDevicePerCode' /\ ProofInv' /\ ProvenInv'
  BY DEF EInv, OneDevicePerCode, ProofInv, ProvenInv, storeVars
<1>. QED BY <1>1, <1>2, <1>4, <1>5, <1>6, <1>7 DEF EInv

LEMMA MovesInv ==
    ASSUME EInv, NEW c \in Calls,
           \/ ClaimFails(c) \/ Answer(c) \/ DatabaseError(c)
           \/ \E evidence \in Evidence, attested \in Challenges :
                 Reject(c, evidence, attested) \/ CreateFails(c, evidence, attested)
    PROVE  EInv'
<1>. DEFINE Allowed(from, to) ==
              /\ to \in (Phases \cup Ended) \ {"idle", "claimed"}
              /\ from \notin {"idle", "failed"}
              /\ \A has \in {HasRefresh, HasAccess, HasAttached, HasDevice} :
                    to \in has => from \in has
              /\ from \in HasDevice \cup Left => to \in HasDevice \cup Left
<1>1. UNCHANGED <<mode, clock, storeVars, codeVars, device, tokens, callVars>>
  BY DEF ClaimFails, Answer, DatabaseError, Reject, CreateFails
<1>2. PICK to : pc' = [pc EXCEPT ![c] = to] /\ Allowed(pc[c], to)
  <2>1. /\ Allowed("claim", "mismatch") /\ Allowed("claimed", "rejected")
        /\ Allowed("claimed", "clash") /\ Allowed("mismatch", "refused")
        /\ Allowed("rejected", "refused") /\ Allowed("clash", "conflict")
        /\ Allowed("paired", "enrolled")
    BY DEF Phases, Ended, Left, HasDevice, HasAttached, HasAccess, HasRefresh
  <2>2. pc[c] \in Phases \ {"idle"} => Allowed(pc[c], "failed")
    BY DEF Phases, Ended, Left, HasDevice, HasAttached, HasAccess, HasRefresh
  <2>. HIDE DEF Allowed
  <2>3. CASE DatabaseError(c)
    BY <2>2, <2>3 DEF DatabaseError
  <2>4. CASE ~DatabaseError(c)
    BY <2>1, <2>4 DEF ClaimFails, Answer, Reject, CreateFails, Go
  <2>. QED BY <2>3, <2>4
<1>. QED BY <1>1, <1>2, MoveInv

\* take(): whatever is presented, nothing is kept for the code afterwards.
LEMMA RequestInv ==
    ASSUME EInv, NEW c \in Calls, Request(c)
    PROVE  EInv'
<1>1. PICK x \in Codes, presented \in Challenges \cup {NoChallenge} :
          TakeMatching(c, x, presented) \/ TakeOther(c, x, presented)
  BY DEF Request
<1>2. /\ pc[c] = "idle" /\ \E to \in {"claim", "mismatch", "failed"} : pc' = [pc EXCEPT ![c] = to]
      /\ items' = [Sweep EXCEPT ![x] = NoChallenge]
      /\ code' = [code EXCEPT ![c] = x]
      /\ UNCHANGED <<mode, clock, drawn, issuedFor, issuedAt, codeVars, device, tokens, key>>
  BY <1>1 DEF TakeMatching, TakeOther, Go, Pop, Arrives
<1>3. PICK took \in Challenges \cup {NoChallenge} :
          /\ taken' = [taken EXCEPT ![c] = took]
          /\ took # NoChallenge => took = items[x]
  <2>1. CASE TakeMatching(c, x, presented)
    BY <2>1, SweepKeeps DEF TakeMatching, EInv
  <2>2. CASE TakeOther(c, x, presented)
    BY <1>2, <2>2 DEF TakeOther, EInv, TypeOK, CallInv
  <2>. QED BY <1>1, <2>1, <2>2
<1>4. TypeOK'
  BY <1>2, <1>3, SweepKeeps DEF EInv, TypeOK, Phases, Ended, codeVars
<1>5. \A y \in Codes : items'[y] # NoChallenge => y # x /\ items'[y] = items[y]
  BY <1>2, SweepKeeps DEF EInv
<1>6. StoreInv'
  <2>1. \A y \in Codes : items'[y] # NoChallenge =>
            /\ items'[y] <= drawn' /\ issuedFor'[items'[y]] = y
            /\ \A n \in Challenges : issuedFor'[n] = y => n <= items'[y]
    BY <1>2, <1>5 DEF EInv, StoreInv
  <2>2. ASSUME NEW y \in Codes, items'[y] # NoChallenge, NEW d \in Calls
        PROVE  taken'[d] # items'[y]
    <3>1. took # NoChallenge => took # items[y]
      BY <1>3, <1>5, <2>2 DEF EInv, StoreInv
    <3>. QED BY <1>3, <1>5, <2>2, <3>1 DEF EInv, TypeOK, StoreInv
  <2>3. \A d \in Calls : taken'[d] # NoChallenge =>
            taken'[d] <= drawn' /\ issuedFor'[taken'[d]] = code'[d]
    BY <1>2, <1>3 DEF EInv, TypeOK, StoreInv
  <2>. QED BY <1>2, <2>1, <2>2, <2>3 DEF EInv, StoreInv
<1>7. ChallengeSpentOnce'
  <2>1. \A d \in Calls : took # NoChallenge => taken[d] # took
    BY <1>3 DEF EInv, StoreInv
  <2>. QED BY <1>3, <2>1 DEF EInv, TypeOK, ChallengeSpentOnce
<1>8. \A d \in Calls : /\ pc'[d] \in Owning => pc[d] \in Owning /\ d # c
                       /\ d # c => pc'[d] = pc[d] /\ code'[d] = code[d] /\ taken'[d] = taken[d]
  BY <1>2, <1>3 DEF EInv, TypeOK, Owning, HasDevice, HasAttached, HasAccess, HasRefresh
<1>9. CallInv' /\ OwnInv'
  <2>1. pc'[c] # "idle" /\ code'[c] \in Codes
    BY <1>2 DEF EInv, TypeOK
  <2>2. \A d \in Calls : pc'[d] \in HasDevice => d # c
    BY <1>8 DEF Owning
  <2>. QED BY <1>2, <1>8, <2>1, <2>2 DEF EInv, CallInv, OwnInv, codeVars
<1>10. DeviceInv'
  <2>1. \A d \in Calls : pc'[d] \in HasDevice \cup {"claimed"} =>
            d # c /\ pc'[d] = pc[d] /\ code'[d] = code[d]
    BY <1>8 DEF Owning
  <2>2. \A d \in Calls : pc[d] \in HasDevice \cup Left => pc'[d] = pc[d]
    BY <1>2, <1>8 DEF Left, HasDevice, HasAttached, HasAccess, HasRefresh
  <2>. QED BY <1>2, <2>1, <2>2 DEF EInv, DeviceInv, codeVars
<1>11. PartsInv'
  <2>1. \A d \in Calls : pc'[d] \in HasAttached =>
            d # c /\ pc'[d] = pc[d] /\ code'[d] = code[d]
    BY <1>8 DEF Owning, HasDevice
  <2>. QED BY <1>2, <2>1 DEF EInv, PartsInv, codeVars, HasAttached, HasAccess
<1>12. OneDevicePerCode' /\ ProofInv' /\ ProvenInv'
  BY <1>2 DEF EInv, OneDevicePerCode, ProofInv, ProvenInv
<1>. QED BY <1>4, <1>6, <1>7, <1>9, <1>10, <1>11, <1>12 DEF EInv

\* claim(): the code was free, so nobody owns it and no device has it.
LEMMA ClaimInv ==
    ASSUME EInv, NEW c \in Calls, Claim(c)
    PROVE  EInv'
<1>1. /\ pc[c] = "claim" /\ pc' = [pc EXCEPT ![c] = "claimed"]
      /\ code[c] \in Codes /\ code[c] \notin used
      /\ used' = used \cup {code[c]}
      /\ UNCHANGED <<mode, clock, storeVars, expires, attached, device, tokens, callVars>>
  BY DEF Claim, Go, Claimable, EInv, CallInv
<1>2. TypeOK'
  BY <1>1 DEF EInv, TypeOK, Phases, storeVars, callVars
<1>3. StoreInv' /\ ChallengeSpentOnce'
  BY <1>1 DEF EInv, StoreInv, ChallengeSpentOnce, storeVars, callVars
<1>4. \A d \in Calls : /\ pc'[d] \in HasDevice <=> pc[d] \in HasDevice
                       /\ d # c => pc'[d] = pc[d]
  BY <1>1 DEF EInv, TypeOK, HasDevice, HasAttached, HasAccess, HasRefresh
<1>5. pc'[c] = "claimed"
  BY <1>1 DEF EInv, TypeOK
<1>6. CallInv'
  BY <1>1, <1>4, <1>5 DEF EInv, CallInv, callVars, Owning
<1>7. OwnInv'
  <2>1. \A d \in Calls : pc[d] \in Owning => code[d] # code[c]
    BY <1>1 DEF EInv, CallInv
  <2>. QED BY <1>1, <1>4, <2>1 DEF EInv, OwnInv, callVars
<1>8. DeviceInv'
  <2>1. \A k \in Keys : device[k] # NoDevice => device[k].code # code[c]
    BY <1>1 DEF EInv, DeviceInv
  <2>2. \A d \in Calls : pc[d] \in HasDevice \cup Left => pc'[d] \in HasDevice \cup Left
    BY <1>1, <1>4 DEF Left
  <2>. QED BY <1>1, <1>4, <2>1, <2>2 DEF EInv, DeviceInv, callVars
<1>9. PartsInv'
  <2>1. \A d \in Calls : pc'[d] \in HasAttached => pc'[d] = pc[d]
    BY <1>4, <1>5 DEF HasAttached, HasAccess, HasRefresh
  <2>. QED BY <1>1, <2>1 DEF EInv, PartsInv, callVars, HasAttached, HasAccess
<1>10. OneDevicePerCode' /\ ProofInv' /\ ProvenInv'
  BY <1>1 DEF EInv, OneDevicePerCode, ProofInv, ProvenInv, storeVars
<1>. QED BY <1>2, <1>3, <1>6, <1>7, <1>8, <1>9, <1>10 DEF EInv

\* create(): the caller owns its code, which no device has, and the key is new.
\* If it does not hear of the row, it goes no further.
LEMMA CreateInv ==
    ASSUME EInv, NEW c \in Calls, NEW evidence \in Evidence, NEW attested \in Challenges,
           NEW k \in Keys,
           CreateDevice(c, evidence, attested, k) \/ CreateLost(c, evidence, attested, k)
    PROVE  EInv'
<1>. DEFINE row == NewDevice(c, evidence, attested)
<1>1. PICK to \in {"created", "clash"} :
          /\ pc[c] = "claimed" /\ pc' = [pc EXCEPT ![c] = to]
          /\ device[k] = NoDevice /\ device' = [device EXCEPT ![k] = row]
          /\ key' = [key EXCEPT ![c] = k]
          /\ UNCHANGED <<mode, clock, storeVars, codeVars, tokens, code, taken>>
  BY DEF CreateDevice, CreateLost, Go
<1>2. code[c] \in Codes /\ code[c] \in used
  BY <1>1 DEF EInv, CallInv, Owning
<1>3. row \in DeviceRow /\ row.code = code[c]
  BY <1>2 DEF NewDevice, DeviceRow
<1>4. row # NoDevice
  BY <1>3, NoDeviceAssumption
<1>5. \/ mode = "log_only" /\ row.status = "exempt"
      \/ /\ row.status = "verified" /\ row.proof[1] <= drawn
         /\ issuedFor[row.proof[1]] = row.code /\ Vouches(row.proof[2])
  <2>1. CASE Accepted(c, evidence, attested)
    <3>1. row = [status |-> "verified", code |-> code[c], proof |-> <<attested, evidence>>]
      BY <2>1 DEF NewDevice
    <3>2. attested = taken[c] /\ Vouches(evidence)
      BY <2>1, AcceptedVouches
    <3>3. attested <= drawn /\ issuedFor[attested] = code[c]
      BY <3>2 DEF EInv, StoreInv, NoChallenge, Challenges
    <3>. QED BY <3>1, <3>2, <3>3
  <2>2. CASE ~Accepted(c, evidence, attested)
    BY <2>2 DEF CreateDevice, CreateLost, Admitted, NewDevice
  <2>. QED BY <2>1, <2>2
<1>. HIDE DEF row
<1>6. \A l \in Keys : device'[l] = IF l = k THEN row ELSE device[l]
  BY <1>1 DEF EInv, TypeOK
<1>7. \A d \in Calls : /\ pc'[d] = IF d = c THEN to ELSE pc[d]
                       /\ key'[d] = IF d = c THEN k ELSE key[d]
  BY <1>1 DEF EInv, TypeOK
<1>8. TypeOK'
  BY <1>1, <1>3 DEF EInv, TypeOK, Phases, storeVars, codeVars
<1>9. StoreInv' /\ ChallengeSpentOnce'
  BY <1>1 DEF EInv, StoreInv, ChallengeSpentOnce, storeVars
<1>10. \A d \in Calls : pc'[d] \in Owning => pc[d] \in Owning
  BY <1>1, <1>7 DEF Owning, HasDevice
<1>11. CallInv' /\ OwnInv'
  BY <1>1, <1>2, <1>7, <1>10 DEF EInv, CallInv, OwnInv, codeVars
<1>12. \A d \in Calls : pc[d] \in HasDevice => key[d] # k /\ d # c
  BY <1>1 DEF EInv, DeviceInv, HasDevice, HasAttached, HasAccess, HasRefresh
<1>13. \A l \in Keys : device[l] # NoDevice => device[l].code # code[c]
  BY <1>1 DEF EInv, DeviceInv
<1>14. DeviceInv'
  <2>1. ASSUME NEW l \in Keys, device'[l] # NoDevice
        PROVE  /\ device'[l].code \in used'
               /\ \E d \in Calls : key'[d] = l /\ pc'[d] \in HasDevice \cup Left
    <3>1. CASE l = k
      BY <1>1, <1>2, <1>3, <1>6, <1>7, <3>1 DEF HasDevice, Left, codeVars
    <3>2. CASE l # k
      <4>1. PICK d \in Calls : key[d] = l /\ pc[d] \in HasDevice \cup Left
        BY <1>6, <2>1, <3>2 DEF EInv, DeviceInv
      <4>2. d # c
        BY <1>1, <4>1 DEF Left, HasDevice, HasAttached, HasAccess, HasRefresh
      <4>3. key'[d] = l /\ pc'[d] \in HasDevice \cup Left
        BY <1>7, <4>1, <4>2
      <4>. QED BY <1>1, <1>6, <2>1, <3>2, <4>3 DEF EInv, DeviceInv, codeVars
    <3>. QED BY <3>1, <3>2
  <2>2. ASSUME NEW d \in Calls, pc'[d] = "claimed", NEW l \in Keys, device'[l] # NoDevice
        PROVE  device'[l].code # code'[d]
    <3>1. d # c /\ pc[d] = "claimed"
      BY <1>7, <2>2
    <3>2. code[d] # code[c]
      BY <1>1, <3>1 DEF EInv, OwnInv, Owning
    <3>. QED BY <1>1, <1>3, <1>6, <2>2, <3>1, <3>2 DEF EInv, DeviceInv
  <2>3. ASSUME NEW d \in Calls, pc'[d] \in HasDevice
        PROVE  device'[key'[d]] # NoDevice /\ device'[key'[d]].code = code'[d]
    <3>1. CASE d = c
      BY <1>1, <1>3, <1>4, <1>6, <1>7, <3>1
    <3>2. CASE d # c
      <4>1. pc[d] \in HasDevice /\ key[d] # k /\ key[d] \in Keys
        BY <1>7, <1>12, <2>3, <3>2 DEF EInv, CallInv
      <4>. QED BY <1>1, <1>6, <1>7, <3>2, <4>1 DEF EInv, DeviceInv
    <3>. QED BY <3>1, <3>2
  <2>. QED BY <2>1, <2>2, <2>3 DEF DeviceInv
<1>15. OneDevicePerCode'
  BY <1>3, <1>6, <1>13 DEF EInv, OneDevicePerCode
<1>16. PartsInv'
  <2>1. \A d \in Calls : pc'[d] \in HasAttached => d # c
    BY <1>7 DEF HasAttached, HasAccess, HasRefresh
  <2>. QED BY <1>1, <1>7, <2>1 DEF EInv, PartsInv, codeVars, HasAttached, HasAccess
<1>17. ProofInv'
  BY <1>1, <1>5, <1>6 DEF EInv, ProofInv, storeVars
<1>18. ProvenInv'
  <2>1. ASSUME NEW l \in Keys, device'[l] # NoDevice
        PROVE  \/ mode' = "log_only" /\ device'[l].status = "exempt"
               \/ /\ device'[l].status = "verified"
                  /\ issuedFor'[device'[l].proof[1]] = device'[l].code
                  /\ Vouches(device'[l].proof[2])
    <3>1. CASE l = k
      BY <1>1, <1>5, <1>6, <3>1 DEF storeVars
    <3>2. CASE l # k
      BY <1>1, <1>6, <2>1, <3>2 DEF EInv, ProvenInv, storeVars
    <3>. QED BY <3>1, <3>2
  <2>. QED BY <2>1 DEF ProvenInv
<1>. QED BY <1>8, <1>9, <1>11, <1>14, <1>15, <1>16, <1>17, <1>18 DEF EInv

\* A call goes on with its device: it attaches it, or adds a token.
LEMMA CompleteInv ==
    ASSUME EInv, NEW c \in Calls, AttachDevice(c) \/ IssuePair(c)
    PROVE  EInv'
<1>1. PICK to \in {"attached", "half", "paired"} :
          /\ pc' = [pc EXCEPT ![c] = to]
          /\ to = "attached" => pc[c] = "created" /\ attached' = [attached EXCEPT ![code[c]] = key[c]]
          /\ to # "attached" => attached' = attached
          /\ to = "half" => pc[c] = "attached"
                            /\ tokens' = [tokens EXCEPT ![key[c]] = @ \cup {"access"}]
          /\ to = "paired" => pc[c] = "half"
                              /\ tokens' = [tokens EXCEPT ![key[c]] = @ \cup {"refresh"}]
          /\ to = "attached" => tokens' = tokens
          /\ UNCHANGED <<mode, clock, storeVars, expires, used, device, callVars>>
  BY DEF AttachDevice, IssuePair, Go, codeVars
<1>2. pc[c] \in HasDevice /\ to \in HasDevice
  BY <1>1 DEF HasDevice, HasAttached, HasAccess, HasRefresh
<1>3. key[c] \in Keys /\ code[c] \in Codes
  BY <1>2 DEF EInv, CallInv, HasDevice, HasAttached, HasAccess, HasRefresh
<1>4. \A d \in Calls : pc'[d] = IF d = c THEN to ELSE pc[d]
  BY <1>1 DEF EInv, TypeOK
<1>5. TypeOK'
  <2>1. attached' \in [Codes -> Keys \cup {NoKey}]
    BY <1>1, <1>3 DEF EInv, TypeOK
  <2>2. tokens' \in [Keys -> SUBSET {"access", "refresh"}]
    BY <1>1, <1>3 DEF EInv, TypeOK
  <2>. QED BY <1>1, <2>1, <2>2 DEF EInv, TypeOK, Phases, storeVars, callVars
<1>6. StoreInv' /\ ChallengeSpentOnce'
  BY <1>1 DEF EInv, StoreInv, ChallengeSpentOnce, storeVars, callVars
<1>7. \A d \in Calls : /\ pc'[d] \in HasDevice <=> pc[d] \in HasDevice
                       /\ pc'[d] \in Owning <=> pc[d] \in Owning
                       /\ pc'[d] = "idle" <=> pc[d] = "idle"
                       /\ pc'[d] = "claimed" <=> pc[d] = "claimed"
                       /\ pc'[d] \in Left <=> pc[d] \in Left
  BY <1>2, <1>4 DEF Owning, Left, HasDevice, HasAttached, HasAccess, HasRefresh
<1>8. CallInv' /\ OwnInv'
  BY <1>1, <1>7 DEF EInv, CallInv, OwnInv, callVars
<1>9. DeviceInv'
  BY <1>1, <1>7 DEF EInv, DeviceInv, callVars
<1>10. PartsInv'
  <2>1. ASSUME NEW d \in Calls, pc'[d] \in HasAttached
        PROVE  attached'[code'[d]] = key'[d]
    <3>1. d # c => pc[d] \in HasAttached /\ code[d] # code[c] /\ code[d] \in Codes
      BY <1>2, <1>4, <2>1 DEF EInv, OwnInv, CallInv, Owning, HasDevice, HasAttached,
         HasAccess, HasRefresh
    <3>2. CASE d = c
      BY <1>1, <1>3, <3>2 DEF EInv, TypeOK, PartsInv, callVars, HasAttached, HasAccess
    <3>3. CASE d # c
      BY <1>1, <1>3, <3>1, <3>3 DEF EInv, TypeOK, PartsInv, callVars
    <3>. QED BY <3>2, <3>3
  <2>2. \A k \in Keys : tokens[k] \subseteq tokens'[k]
    BY <1>1, <1>3 DEF EInv, TypeOK
  <2>3. ASSUME NEW d \in Calls, pc'[d] \in HasAccess
        PROVE  "access" \in tokens'[key'[d]]
    <3>1. key[d] \in Keys
      BY <1>7, <2>3 DEF EInv, CallInv, HasDevice, HasAttached
    <3>2. CASE d = c
      BY <1>1, <1>3, <1>4, <2>2, <2>3, <3>2
         DEF EInv, TypeOK, PartsInv, callVars, HasAccess, HasRefresh
    <3>3. CASE d # c
      BY <1>1, <1>4, <2>2, <2>3, <3>1, <3>3 DEF EInv, PartsInv, callVars
    <3>. QED BY <3>2, <3>3
  <2>4. ASSUME NEW d \in Calls, pc'[d] \in HasRefresh
        PROVE  "refresh" \in tokens'[key'[d]]
    <3>1. key[d] \in Keys
      BY <1>7, <2>4 DEF EInv, CallInv, HasDevice, HasAttached, HasAccess
    <3>2. CASE d = c
      BY <1>1, <1>3, <1>4, <2>4, <3>2 DEF EInv, TypeOK, callVars, HasRefresh
    <3>3. CASE d # c
      BY <1>1, <1>4, <2>2, <2>4, <3>1, <3>3 DEF EInv, PartsInv, callVars
    <3>. QED BY <3>2, <3>3
  <2>. QED BY <2>1, <2>3, <2>4 DEF PartsInv
<1>11. OneDevicePerCode' /\ ProofInv' /\ ProvenInv'
  BY <1>1 DEF EInv, OneDevicePerCode, ProofInv, ProvenInv, storeVars
<1>. QED BY <1>5, <1>6, <1>8, <1>9, <1>10, <1>11 DEF EInv

\* A restart fails every call that is under way and empties the store.
LEMMA RestartInv ==
    ASSUME EInv, Restart
    PROVE  EInv'
<1>1. /\ items' = [x \in Codes |-> NoChallenge]
      /\ pc' = [c \in Calls |-> IF pc[c] \in Phases \ {"idle"} THEN "failed" ELSE pc[c]]
      /\ UNCHANGED <<mode, clock, drawn, issuedFor, issuedAt, codeVars, device, tokens, callVars>>
  BY DEF Restart
<1>2. TypeOK'
  BY <1>1 DEF EInv, TypeOK, Phases, Ended, codeVars, callVars
<1>3. StoreInv' /\ ChallengeSpentOnce'
  BY <1>1 DEF EInv, StoreInv, ChallengeSpentOnce, callVars
<1>4. \A c \in Calls : pc'[c] \in {pc[c], "failed"} /\ (pc[c] = "failed" => pc'[c] = "failed")
  BY <1>1
<1>5. \A c \in Calls : pc'[c] = "failed" /\ pc[c] # "failed" => pc[c] # "idle"
  BY <1>1
<1>6. \A has \in {HasRefresh, HasAccess, HasAttached, HasDevice, Owning} : "failed" \notin has
  BY DEF Owning, HasDevice, HasAttached, HasAccess, HasRefresh
<1>7. CallInv' /\ OwnInv'
  BY <1>1, <1>4, <1>5, <1>6 DEF EInv, CallInv, OwnInv, codeVars, callVars
<1>8. DeviceInv'
  <2>1. \A c \in Calls : pc[c] \in HasDevice \cup Left => pc'[c] \in HasDevice \cup Left
    BY <1>4 DEF Left
  <2>. QED BY <1>1, <1>4, <1>6, <2>1 DEF EInv, DeviceInv, codeVars, callVars
<1>9. PartsInv'
  BY <1>1, <1>4, <1>6 DEF EInv, PartsInv, codeVars, callVars
<1>10. OneDevicePerCode' /\ ProofInv' /\ ProvenInv'
  BY <1>1 DEF EInv, OneDevicePerCode, ProofInv, ProvenInv
<1>. QED BY <1>2, <1>3, <1>7, <1>8, <1>9, <1>10 DEF EInv

LEMMA StutterInv ==
    ASSUME EInv, UNCHANGED vars
    PROVE  EInv'
<1>1. TypeOK' /\ StoreInv'
  BY DEF EInv, TypeOK, StoreInv, vars, storeVars, codeVars, callVars
<1>2. ProofInv' /\ ProvenInv'
  BY DEF EInv, ProofInv, ProvenInv, vars, storeVars
<1>. QED BY <1>1, <1>2, RowsKept DEF EInv, vars, codeVars

LEMMA StepInv == EInv /\ [Next]_vars => EInv'
<1>. SUFFICES ASSUME EInv, [Next]_vars PROVE EInv'
  OBVIOUS
<1>1. ASSUME NEW c \in Calls, Handle(c) PROVE EInv'
  <2>1. CASE Decide(c)
    BY <2>1, MovesInv, CreateInv DEF Decide
  <2>2. CASE Claim(c)
    BY <2>2, ClaimInv
  <2>3. CASE ClaimFails(c) \/ Answer(c) \/ DatabaseError(c)
    BY <2>3, MovesInv
  <2>4. CASE AttachDevice(c) \/ IssuePair(c)
    BY <2>4, CompleteInv
  <2>. QED BY <1>1, <2>1, <2>2, <2>3, <2>4 DEF Handle
<1>2. ASSUME NEW c \in Calls, Request(c) PROVE EInv'
  BY <1>2, RequestInv
<1>3. ASSUME NEW x \in Codes, IssueCode(x) \/ IssueChallenge(x) PROVE EInv'
  BY <1>3, IssueCodeInv, IssueChallengeInv
<1>4. CASE Restart \/ Tick
  BY <1>4, RestartInv, TickInv
<1>5. CASE UNCHANGED vars
  BY <1>5, StutterInv
<1>. QED BY <1>1, <1>2, <1>3, <1>4, <1>5 DEF Next

LEMMA Invariance == Spec => []EInv
BY InitEInv, StepInv, PTL DEF Spec

-----------------------------------------------------------------------------
(* The results *)

\* Rows, items and calls keep their types.
THEOREM TypeCorrect == Spec => []TypeOK
<1>1. EInv => TypeOK
  BY DEF EInv
<1>. QED BY <1>1, Invariance, PTL

\* claim() is one statement: however many calls race for a code, and wherever
\* they are cut off, it yields at most one device.
THEOREM CodeYieldsOneDevice == Spec => []OneDevicePerCode
<1>1. EInv => OneDevicePerCode
  BY DEF EInv
<1>. QED BY <1>1, Invariance, PTL

\* take() removes what it returns: no two calls get past the comparison with one
\* challenge.
THEOREM ChallengeIsSingleUse == Spec => []ChallengeSpentOnce
<1>1. EInv => ChallengeSpentOnce
  BY DEF EInv
<1>. QED BY <1>1, Invariance, PTL

\* A verified device rests on a challenge of its own code and of no other device;
\* a chain recorded in one enrolment does not verify a second one.
THEOREM VerifiedIsOverOwnChallenge == Spec => []VerifiedOverOwnChallenge
<1>1. ASSUME EInv PROVE VerifiedOverOwnChallenge
  <2>1. \A k \in Verified : issuedFor[device[k].proof[1]] = device[k].code
    BY <1>1 DEF EInv, ProvenInv, Verified
  <2>2. \A k, l \in Verified : device[k].proof[1] = device[l].proof[1] => k = l
    BY <1>1, <2>1 DEF EInv, OneDevicePerCode, Verified
  <2>3. mode = "strict" => {k \in Keys : device[k] # NoDevice} \subseteq Verified
    BY <1>1 DEF EInv, ProvenInv, Verified
  <2>. QED BY <2>1, <2>2, <2>3 DEF VerifiedOverOwnChallenge
<1>. QED BY <1>1, Invariance, PTL

\* For any evidence a phone may send, what the software list says does not make a
\* device verified when the hardware list states a root of trust.
THEOREM HardwareIsNotOverruled == Spec => []HardwareNotOverruled
<1>1. ASSUME EInv PROVE HardwareNotOverruled
  <2>1. \A k \in Verified : Vouches(device[k].proof[2])
    BY <1>1 DEF EInv, ProvenInv, Verified
  <2>. QED BY <2>1 DEF HardwareNotOverruled, Vouches
<1>. QED BY <1>1, Invariance, PTL

\* An enrolment answered with 200 is complete and stays so; an incomplete device
\* has a call at work on it, or one that was cut off or lost the answer to its
\* INSERT.
THEOREM AnsweredIsComplete == Spec => []EnrolledIsComplete
<1>1. ASSUME EInv PROVE EnrolledIsComplete
  <2>1. ASSUME NEW c \in Calls, pc[c] \in HasRefresh
        PROVE  Complete(key[c]) /\ device[key[c]].code = code[c]
    <3>1. pc[c] \in HasAccess /\ pc[c] \in HasAttached /\ pc[c] \in HasDevice /\ pc[c] \in Owning
      BY <2>1 DEF Owning, HasDevice, HasAttached, HasAccess
    <3>2. key[c] \in Keys /\ code[c] \in used
      BY <1>1, <3>1 DEF EInv, CallInv
    <3>3. device[key[c]] # NoDevice /\ device[key[c]].code = code[c] /\ attached[code[c]] = key[c]
      BY <1>1, <3>1 DEF EInv, DeviceInv, PartsInv
    <3>4. tokens[key[c]] = {"access", "refresh"}
      BY <1>1, <2>1, <3>1, <3>2 DEF EInv, TypeOK, PartsInv
    <3>. QED BY <3>2, <3>3, <3>4 DEF Complete
  <2>2. ASSUME NEW k \in Keys, device[k] # NoDevice, ~Complete(k)
        PROVE  \E c \in Calls : key[c] = k /\ pc[c] \in {"created", "attached", "half", "failed",
                                                        "clash", "conflict"}
    <3>1. PICK c \in Calls : key[c] = k /\ pc[c] \in HasDevice \cup Left
      BY <1>1, <2>2 DEF EInv, DeviceInv
    <3>2. pc[c] \notin HasRefresh
      BY <2>1, <2>2, <3>1
    <3>. QED BY <3>1, <3>2 DEF Left, HasDevice, HasAttached, HasAccess
  <2>. QED BY <2>1, <2>2 DEF EnrolledIsComplete, HasRefresh
<1>. QED BY <1>1, Invariance, PTL

\* A call gets past the comparison only with the newest challenge of its code,
\* issued at most ChallengeTtl ago.
THEOREM OnlyTheNewestCounts == Spec => NewestChallengeOnly
<1>. DEFINE A == \A c \in Calls : taken'[c] # taken[c] =>
                    /\ issuedFor[taken'[c]] = code'[c]
                    /\ clock - issuedAt[taken'[c]] <= ChallengeTtl
                    /\ \A n \in Challenges : issuedFor[n] = code'[c] => n <= taken'[c]
<1>1. ASSUME EInv, [Next]_vars PROVE A
  <2>1. ASSUME NEW c \in Calls, NEW x \in Codes, NEW presented \in Challenges \cup {NoChallenge},
               TakeMatching(c, x, presented)
        PROVE  A
    <3>1. /\ presented = items[x] /\ presented # NoChallenge
          /\ clock - issuedAt[presented] <= ChallengeTtl
      BY <1>1, <2>1, SweepKeeps DEF TakeMatching, EInv
    <3>2. taken' = [taken EXCEPT ![c] = presented] /\ code' = [code EXCEPT ![c] = x]
      BY <2>1 DEF TakeMatching, Arrives
    <3>3. \A d \in Calls : taken'[d] # taken[d] => d = c /\ taken'[d] = presented /\ code'[d] = x
      BY <1>1, <3>2 DEF EInv, TypeOK
    <3>. QED BY <1>1, <3>1, <3>3 DEF EInv, StoreInv
  <2>2. ASSUME UNCHANGED taken PROVE A
    BY <2>2
  <2>3. ASSUME NEW c \in Calls, Request(c) PROVE A
    BY <2>1, <2>2, <2>3 DEF Request, TakeOther
  <2>4. ASSUME NEW c \in Calls, Handle(c) PROVE UNCHANGED taken
    BY <2>4 DEF Handle, Claim, ClaimFails, Decide, Reject, CreateFails, CreateDevice,
       CreateLost, AttachDevice, IssuePair, Answer, DatabaseError, callVars
  <2>5. ASSUME NEW x \in Codes, IssueCode(x) \/ IssueChallenge(x) PROVE UNCHANGED taken
    BY <2>5 DEF IssueCode, IssueChallenge, callVars
  <2>6. CASE Restart \/ Tick \/ UNCHANGED vars
    BY <2>2, <2>6 DEF Restart, Tick, vars, callVars
  <2>. QED BY <1>1, <2>2, <2>3, <2>4, <2>5, <2>6 DEF Next
<1>. QED BY <1>1, Invariance, PTL DEF Spec, NewestChallengeOnly

=============================================================================
