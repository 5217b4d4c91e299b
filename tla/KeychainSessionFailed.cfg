\* The smallest instance in which CleanIsStored fails: a change, and the
\* write of the flush that clears its flag fails.
CONSTANTS
    Mutators = {u1}
    MaxVersion = 1
    MaxRestarts = 0
SPECIFICATION Spec
CHECK_DEADLOCK FALSE
INVARIANT CleanIsStored
