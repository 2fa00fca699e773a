SPECIFICATION Spec
CONSTANTS
    r1 = r1
    r2 = r2
    d1 = d1
    NoEntry = NoEntry
    Unsigned = Unsigned
    Requests = {r1, r2}
    Readers = {d1}
    Bodies <- ClaimAndRevoke
    Hashes = {"sha256:aa"}
    ValidHashes = {"sha256:aa"}
    SignerKeyIDs = {"alice"}
    Signatures = {"pgp"}
    MaxRetries = 0
    MaxClock = 1
    ReadFaults = FALSE
    Trusted = {"alice"}
SYMMETRY Symmetry
INVARIANTS
    LastWriteWins
    RevocationSticks
    SelectedVerifies
    AckedResolves
