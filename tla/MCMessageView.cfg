CONSTANTS
    Old = {1, 2}
    New = {3}
    LocalDate = 2
    Limit = 1
    Capacity = 1
    w1 = w1
    w2 = w2
    Writers = {w1, w2}
    l1 = l1
    l2 = l2
    Older = Older
    Loads = {l1, l2}
    MaxWrites = 2
    MaxCopies = 1
    Newest = Newest
SPECIFICATION Spec
SYMMETRY Symmetry
CHECK_DEADLOCK FALSE
INVARIANTS
    TypeOK
    ViewMatchesStore
    NoHoles
    NoTwins
    EndIsTheEnd
