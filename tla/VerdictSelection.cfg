SPECIFICATION Spec
CONSTANTS
    MaxEntries = 3
    FewEntries = 2
    Users = {"bob", "carol"}
    Friends = {"alice"}
    Strangers = {"mallory"}
    Times = {1, 2}
    Dates = {1, 2}
    LogKey = "log"
    KeyOrder <- Listing
INVARIANTS
    KeepsNewest
    PluralityWins
    RevokeWithdraws
    DialogAgrees
    EarlierCounts
    LaterNeverCounts
    SignersIndependent
