\* Two messages, a page of two, and two deletes, backfills, seeds or restarts:
\* every interleaving of two sends with them and with the sync task.
\* Liveness, so without symmetry.
CONSTANTS
    Messages = {m1, m2}
    MaxId = 2
    LocalIds <- MCLocalIds
    ServerIds <- MCServerIds
    DateOf <- MCDateOf
    NoRow = NoRow
    PageLimit = 2
    MaxDisturb = 2
SPECIFICATION Spec
INVARIANTS
    TypeOK
    SentIsAccepted
    RowTellsDelivery
    NothingLost
    PreviewNewest
PROPERTIES
    DeliveryResolves
    ImplementsOutbox
