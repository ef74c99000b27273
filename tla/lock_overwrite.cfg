SPECIFICATION Spec
CONSTANTS
    Handles = {h1, h2}
    None = None
    Gone = Gone
    Lease = 2
    WaitTimeout = 1
    Reentrant = {h1, h2}
    AutoRenewal = {}
    Unreliable = {h1, h2}
    Forced = {}
    MaxLag = 1
    MaxHold = 2
    MaxTasks = 2
    h1 = h1
    h2 = h2
SYMMETRY SymHandles
INVARIANT LeaseMutex
