CONSTANTS
    Accounts = {1, 2}
    Chats = {c1}
    w1 = w1
    w2 = w2
    Writers = {w1, w2}
    s1 = s1
    s2 = s2
    Refreshes = {s1, s2}
    l1 = l1
    l2 = l2
    Reloads = {l1, l2}
    MaxMoves = 2
    Capacity = 1
    AccountsChanged = AccountsChanged
SPECIFICATION Spec
SYMMETRY Symmetry
CHECK_DEADLOCK FALSE
INVARIANT ListIsRereadAfterLag
