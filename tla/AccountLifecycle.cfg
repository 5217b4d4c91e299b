\* One account and two logins, with one logout, revocation, stream failure,
\* shutdown or restart.  Liveness, so without symmetry.
CONSTANTS
    Accounts = {a1}
    Flows = {f1, f2}
    Blank = Blank
    None = None
    MaxDisturb = 1
SPECIFICATION Spec
CHECK_DEADLOCK FALSE
INVARIANTS
    TypeOK
    AuthorizedHasSession
    EverySyncIsOwned
PROPERTY CallsReturn
