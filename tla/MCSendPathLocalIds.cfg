\* The smallest instance in which LocalIdsNeverCollide fails:
\* a send after a restart over a row the run before left.
CONSTANTS
    Messages = {m1, m2}
    MaxId = 2
    LocalIds <- MCLocalIds
    ServerIds <- MCServerIds
    DateOf <- MCDateOf
    NoRow = NoRow
    PageLimit = 2
    MaxDisturb = 1
SPECIFICATION Spec
PROPERTY LocalIdsNeverCollide
