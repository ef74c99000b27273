SPECIFICATION LiveFairLock
CONSTANTS
    Handles = {h1, h2}
    None = None
    Gone = Gone
    Lease = 2
    WaitTimeout = 1
    Reentrant = {}
    AutoRenewal = {}
    Unreliable = {}
    Forced = {}
    MaxLag = 1
    MaxHold = 1
    MaxTasks = 1
    h1 = h1
    h2 = h2
    Deserters = {}
    MaxDead = 1
PROPERTY FreeLockIsTaken
