SPECIFICATION FairLockSpec
CONSTANTS
    Handles = {h1, h2}
    None = None
    Gone = Gone
    Lease = 2
    WaitTimeout = 1
    Reentrant = {h1}
    AutoRenewal = {h1}
    Unreliable = {h2}
    Forced = {h2}
    MaxLag = 1
    MaxHold = 2
    MaxTasks = 1
    h1 = h1
    h2 = h2
    Deserters = {h2}
    MaxDead = 1
INVARIANT FairInv
 
