SPECIFICATION Spec
CONSTANTS
    MaxDialogs = 2
    Keys = {k1, k2}
    FirstKey = k1
    Categories = {1, 2}
    VerdictsOf <- TheirVerdicts
    Before <- Attested
    MaxInputs = 2
    MaxFailures = 1
INVARIANTS TypeOK UntouchedUnsigned SignedAsShown StrayDialogs KeyKept NeverStuck
CHECK_DEADLOCK FALSE
