SPECIFICATION HostSpec
CONSTANTS
    Addresses = {a1, a2}
    QPorts = {q1}
    Expiry = 1
    MaxNumbers = 4
    MaxTime = 2
    MaxGameStates = 1
SYMMETRY AddressSymmetry
INVARIANTS
    OneChallengePerAddress
    ChallengesExpire
    GivenNumbersAreAccepted
