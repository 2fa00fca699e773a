SPECIFICATION Spec
CONSTANTS
    r1 = r1
    r2 = r2
    r3 = r3
    d1 = d1
    d2 = d2
    NoEntry = NoEntry
    Unsigned = Unsigned
    Requests = {r1, r2}
    Readers = {}
    Bodies <- OneHash
    Hashes = {"sha256:aa", "sha256:bb", "md5:cc"}
    ValidHashes = {"sha256:aa", "sha256:bb"}
    SignerKeyIDs = {"alice"}
    Signatures = {"pgp"}
    MaxRetries = 1
    MaxClock = 1
    ReadFaults = FALSE
SYMMETRY Symmetry
INVARIANTS
    UniqueIndex
    AckedDurable
    IndInv
    RealTimeOrder
    AuditedServed
PROPERTIES
    ImplementsLog
