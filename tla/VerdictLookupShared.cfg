SPECIFICATION Spec
CONSTANTS
    p1 = p1
    p2 = p2
    Pages = {p1, p2}
    Signers = {p1}
    Urls = {"a.png", "b.png"}
    UrlOf <- OwnUrl
    Images = {"image"}
    ImageOf <- OneImage
    Logs = {"log"}
    DefaultLog = "log"
    TtlOk = 2
    TtlNull = 1
    TtlTrust = 1
    TtlKey = 1
    CacheMax = 1
    MaxLookup = 1
    MaxAge = 4
    MaxEntries = 1
    Environment = {"fault", "restart", "trust"}
INVARIANTS
    AnswersFresh
    CacheBounded
    NobodyForgotten
