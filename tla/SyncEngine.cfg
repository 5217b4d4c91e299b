\* Two messages, the first incoming, some of them older than the login; two
\* updates among posts, edits and deletions, one call of the UI, and two lost
\* connections or restarts.
CONSTANTS
    Ids = {1, 2}
    Incoming = {1}
    Callers = {c1}
    FirstDelay = 2
    LastDelay = 3
    MaxEdits = 1
    MaxUpdates = 2
    MaxCalls = 1
    MaxTrouble = 2
SPECIFICATION Spec
CHECK_DEADLOCK FALSE
INVARIANTS
    TypeOK
    CountedOnce
    BadgeHidesNothing
    DeletedStaysDeleted
    RowsConverge
PROPERTY AnnouncedArrives
