----------------------------- MODULE MCEnrollment -----------------------------
(* Instances for TLC: phones with sound evidence, and with one defect each.    *)
EXTENDS Enrollment, TLC

Root(boot, locked) == [tag |-> "root", boot |-> boot, locked |-> locked]
NoAuth == [tag |-> "no_auth"]
Other == [tag |-> "other"]

Description(level, tee, software) ==
    [complete |-> TRUE, level |-> level, tee |-> tee, software |-> software]

\* A certificate that the next one up has signed.
Certificate(type, fingerprint, extension) ==
    [parses |-> TRUE, key |-> type, fingerprint |-> fingerprint, signedByNext |-> TRUE,
     extension |-> extension]

Chain(description, top) ==
    <<Certificate("ec", "leaf", description), Certificate("ec", "batch", NoExtension),
      Certificate("rsa", top, NoExtension)>>

Vouched == [form |-> "base64",
            payload |-> [app |-> "PLAY_RECOGNIZED", package |-> Package,
                         digests |-> {CertDigest}, device |-> {"MEETS_DEVICE_INTEGRITY"}]]

Sound == Root("verified", TRUE)

Hardware == Description("strongbox", <<Other, Sound>>, <<>>)

Phone(description, integrity) ==
    [chain |-> Chain(description, "google"), integrity |-> integrity]

\* What phones send in the small instance: sound; accepted although the hardware
\* list asks for no authentication and the chain ends in an unknown root, since
\* the root of trust is in the software list; unlocked in hardware while the
\* software list says otherwise; and no verdict of Play Integrity.
FewPhones ==
    {Phone(Hardware, Vouched),
     [chain |-> Chain(Description("trusted_environment", <<NoAuth>>, <<Sound>>), "other"),
      integrity |-> Vouched],
     Phone(Description("strongbox", <<Root("verified", FALSE)>>, <<Sound>>), Vouched),
     Phone(Hardware, [form |-> "unreadable"])}

Interchangeable == Permutations(Calls) \cup Permutations(Codes) \cup Permutations(Keys)
=============================================================================
