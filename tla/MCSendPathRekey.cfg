\* The smallest instance in which AcknowledgedIsRekeyed fails:
\* a backfill that stores the server's copy before confirm_sent.
CONSTANTS
    Messages = {m1, m2}
    MaxId = 2
    LocalIds <- MCLocalIds
    ServerIds <- MCServerIds
    DateOf <- MCDateOf
    NoRow = NoRow
    PageLimit = 2
    MaxDisturb = 1
SPECIFICATION Spec
INVARIANT AcknowledgedIsRekeyed
