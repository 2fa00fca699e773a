SPECIFICATION Spec
CONSTANTS
    p1 = p1
    p2 = p2
    Pages = {p1}
    Signers = {p1}
    Urls = {"a.png"}
    UrlOf <- SameUrl
    Images = {"image"}
    ImageOf <- OneImage
    Logs = {"log", "other"}
    DefaultLog = "log"
    TtlOk = 2
    TtlNull = 1
    TtlTrust = 1
    TtlKey = 3
    CacheMax = 1
    MaxLookup = 1
    MaxAge = 6
    MaxEntries = 1
    Environment = {"log"}
INVARIANTS
    KeyOfAskedLog
