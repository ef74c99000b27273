SPECIFICATION FairSpec
CONSTANTS
    Handles = {h1, h2}
    None = None
    Gone = Gone
    Lease = 2
    WaitTimeout = 1
    Reentrant = {h1}
    AutoRenewal = {h2}
    Unreliable = {h2}
    Forced = {h2}
    MaxLag = 1
    MaxHold = 2
    MaxTasks = 2
    h1 = h1
    h2 = h2
INVARIANT LeaseMutex
PROPERTY CallsReturnUnrenewed
PROPERTY OrphanExpires
