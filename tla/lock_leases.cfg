SPECIFICATION Spec
CONSTANTS
    Handles = {h1, h2, h3}
    None = None
    Gone = Gone
    Lease = 2
    WaitTimeout = 1
    Reentrant = {h1}
    AutoRenewal = {h2}
    Unreliable = {h3}
    Forced = {h3}
    MaxLag = 1
    MaxHold = 2
    MaxTasks = 2
    h1 = h1
    h2 = h2
    h3 = h3
INVARIANT LockInv
INVARIANT LeaseMutex
INVARIANT HoldInv
INVARIANT NoPanic
INVARIANT HoldCountAgrees
INVARIANT OneRenewalTask
INVARIANT HolderIsServed
PROPERTY ImplementsLeases
