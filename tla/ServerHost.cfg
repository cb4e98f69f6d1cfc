SPECIFICATION HostSpec
CONSTANTS
    Addresses = {a1, a2, a3}
    QPorts = {q1, q2}
    Expiry = 1
    MaxNumbers = 4
    MaxTime = 2
    MaxGameStates = 1
SYMMETRY AddressSymmetry
INVARIANTS ChallengeUsedOnce
