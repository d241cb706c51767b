----------------------------- MODULE Attestation -----------------------------
(***************************************************************************)
(* The verdict on a phone's evidence, backend/app/core/attestation.py.        *)
(*                                                                            *)
(* A certificate is a record: whether it parses, the type of its key, its     *)
(* fingerprint, whether the next one up signed it, and its key attestation    *)
(* extension. An AuthorizationList is the sequence of its tagged values; the  *)
(* values the code reads are kept, the DER encoding is not: an entry is       *)
(* "malformed" when the reader raises DerError on it.                         *)
(***************************************************************************)
EXTENDS Sequences, Integers

CONSTANTS
    NoExtension,   \* the leaf carries no key attestation extension
    NoVerdict,     \* no decoded Play Integrity verdict
    Package,       \* play_integrity_package_name
    CertDigest,    \* android_cert_digest
    Unset          \* a setting that was left empty

\* What an AuthorizationList without a root of trust says of the boot state.
Unknown == "unknown"

\* Where a list states a root of trust.
Roots(list) == {i \in DOMAIN list : list[i].tag = "root"}

\* _scan_authorization_list(): a later root of trust replaces an earlier one,
\* one with fewer than three fields ("short_root") is passed over.
LastRoot(list) == list[CHOOSE i \in Roots(list) : \A j \in Roots(list) : j <= i]

ScanAuthorizationList(list) ==
    [boot_state |-> IF Roots(list) = {} THEN Unknown ELSE LastRoot(list).boot,
     device_locked |-> Roots(list) # {} /\ LastRoot(list).locked,
     no_auth_required |-> \E i \in DOMAIN list : list[i].tag = "no_auth"]

HasRoot(list) == Roots(list) # {}

\* _parse_key_description(): the hardware list, and all of the software list in
\* its place when the hardware list has no root of trust.
Enforced(description) ==
    IF HasRoot(description.tee) THEN description.tee ELSE description.software

MutantSoftwareWins(description) ==
    ScanAuthorizationList(description.tee \o description.software)

ParseKeyDescription(description) == ScanAuthorizationList(Enforced(description))

\* _parse_key_description() raises DerError: too few fields, or an entry of a list
\* it looks at.
Malformed(description) ==
    \/ ~description.complete
    \/ \E list \in {description.tee, Enforced(description)} :
          \E i \in DOMAIN list : list[i].tag = "malformed"

\* _verify_chain(): each certificate is signed by the next one up, whose key is
\* RSA or EC.
VerifyChain(chain) ==
    \A i \in 1 .. Len(chain) - 1 :
        chain[i].signedByNext /\ chain[i + 1].key \in {"rsa", "ec"}

\* verify_key_attestation(), without require_strongbox, which no caller sets.
\* attested is the challenge in the extension.
MutantAnyChallenge(chain, attested, expected, trustedRoots) ==
    /\ chain # <<>>
    /\ \A i \in DOMAIN chain : chain[i].parses
    /\ VerifyChain(chain)
    /\ trustedRoots # {} => chain[Len(chain)].fingerprint \in trustedRoots
    /\ LET description == chain[1].extension
           parsed == ParseKeyDescription(description)
       IN  /\ description # NoExtension
           /\ ~Malformed(description)
           /\ description.level # "software"
           /\ parsed.boot_state = "verified"
           /\ parsed.device_locked
           /\ ~parsed.no_auth_required

VerifyKeyAttestation(chain, attested, expected, trustedRoots) ==
    /\ chain # <<>>
    /\ \A i \in DOMAIN chain : chain[i].parses
    /\ VerifyChain(chain)
    /\ trustedRoots # {} => chain[Len(chain)].fingerprint \in trustedRoots
    /\ LET description == chain[1].extension
           parsed == ParseKeyDescription(description)
       IN  /\ description # NoExtension
           /\ ~Malformed(description)
           /\ attested = expected
           /\ description.level # "software"
           /\ parsed.boot_state = "verified"
           /\ parsed.device_locked
           /\ ~parsed.no_auth_required

\* decode_integrity_payload(): JSON, or base64 of JSON.
DecodeIntegrityPayload(token) ==
    IF token.form \in {"json", "base64"} THEN token.payload ELSE NoVerdict

\* evaluate_play_integrity(): no problem found.
EvaluatePlayIntegrity(payload) ==
    /\ payload # NoVerdict
    /\ payload.app = "PLAY_RECOGNIZED"
    /\ Package \in {Unset, payload.package}
    /\ CertDigest = Unset \/ CertDigest \in payload.digests
    /\ "MEETS_DEVICE_INTEGRITY" \in payload.device

=============================================================================
