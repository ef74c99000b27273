SPECIFICATION FairSpec
CONSTANTS
    Objects = {o1, o2}
    Readers = {r1, r2, r3}
    Writers = {w1}
    On <- Shared
    None = None
    Gone = Gone
    Lease = 2
    WaitTimeout = 1
    Unreliable = {o2}
    Forced = {o2}
    MaxLag = 1
    MaxCount = 2
    o1 = o1
    o2 = o2
    r1 = r1
    r2 = r2
    r3 = r3
    w1 = w1
INVARIANT RWInv
INVARIANT WritersExclude
INVARIANT HoldsAreKept
INVARIANT CountsAgree
PROPERTY ImplementsLeases
PROPERTY RWCallsReturn
PROPERTY DeadWriterExpires
PROPERTY DeadReadersExpire
