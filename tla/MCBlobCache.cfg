\* Requests for a member's photo (u), a media blob (m) and a chat's photo (c),
\* three or four at a time; one permit, room for one blob, and a restart.
CONSTANTS
    u1 = u1
    u2 = u2
    m1 = m1
    m2 = m2
    m3 = m3
    c1 = c1
    face = face
    media = media
    photo = photo
    Requests = {u1, u2, m1, m2, m3, c1}
    Users = {u1, u2}
    Media = {m1, m2, m3}
    Chats = {c1}
    Keys = {face, media, photo}
    KeyOf <- MCKeyOf
    Together <- MCTogether
    Permits = 1
    Budget = 1
    None = None
    MaxCrashes = 1
SPECIFICATION Spec
SYMMETRY Symmetry
CHECK_DEADLOCK FALSE
INVARIANTS
    TypeOK
    TornOnlyIfShared
    PermitsConserved
    PhotoFetchedOnce
    EvictsOldest
