SPECIFICATION Spec
CONSTANTS
    r1 = r1
    r2 = r2
    r3 = r3
    d1 = d1
    d2 = d2
    NoEntry = NoEntry
    Unsigned = Unsigned
    Requests = {r1}
    Readers = {d1}
    Bodies <- OneHash
    Hashes = {"sha256:aa", "sha256:bb", "md5:cc"}
    ValidHashes = {"sha256:aa", "sha256:bb"}
    SignerKeyIDs = {"alice"}
    Signatures = {"pgp"}
    MaxRetries = 0
    MaxClock = 0
    ReadFaults = TRUE
INVARIANTS
    ListingComplete
