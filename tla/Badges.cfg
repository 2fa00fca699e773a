SPECIFICATION Spec
CONSTANTS
    i1 = i1
    Images = {i1}
    Backgrounds = {}
    Categories = {0, 1, 2}
    Iconless = {1}
    MaxAsked = 2
    MaxBadges = 4
INVARIANTS
    TypeOK
    RegistryAgrees
    OnePerCategory
    VisibleAsSeen
    DrawnOrScheduled
    LeavesNothing
