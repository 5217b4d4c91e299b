\* An account that is logged in logs in once more.
CONSTANTS
    Accounts = {a1}
    Flows = {f1}
    Blank = Blank
    None = None
    MaxDisturb = 0
SPECIFICATION Spec
CHECK_DEADLOCK FALSE
INVARIANT OneSyncPerAccount
