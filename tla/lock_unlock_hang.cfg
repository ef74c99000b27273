SPECIFICATION FairSpec
CONSTANTS
    Handles = {h1}
    None = None
    Gone = Gone
    Lease = 2
    WaitTimeout = 1
    Reentrant = {}
    AutoRenewal = {h1}
    Unreliable = {}
    Forced = {}
    MaxLag = 1
    MaxHold = 2
    MaxTasks = 2
    h1 = h1
PROPERTY CallsReturn
