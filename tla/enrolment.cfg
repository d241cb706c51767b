SPECIFICATION Spec
CONSTANTS
    Calls = {c1, c2}
    Codes = {x1, x2}
    Keys = {k1, k2}
    Evidence <- FewPhones
    ChallengeTtl = 1
    CodeTtl = 2
    MaxChallenge = 2
    MaxClock = 2
    NoCode = NoCode
    NoKey = NoKey
    NoDevice = NoDevice
    NoProof = NoProof
    NoExtension = NoExtension
    NoVerdict = NoVerdict
    Package = package
    CertDigest = digest
    Unset = Unset
SYMMETRY Interchangeable
INVARIANTS
    TypeOK
    OneDevicePerCode
    ChallengeSpentOnce
    VerifiedOverOwnChallenge
    HardwareNotOverruled
    EnrolledIsComplete
PROPERTIES
    NewestChallengeOnly
