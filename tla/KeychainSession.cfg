\* Two client tasks and three changes; the sync task, sign_out, a revoked
\* authorization and shutdown against each other, with one restart.
CONSTANTS
    Mutators = {u1, u2}
    MaxVersion = 3
    MaxRestarts = 1
SPECIFICATION Spec
CHECK_DEADLOCK FALSE
INVARIANTS
    TypeOK
    NoChangeLost
    LoggedOutLeavesNoSecret
PROPERTIES
    NeverBackwards
    ChangesReachKeychain
