SPECIFICATION CleanupSpec
CONSTANTS
    Messages = {m1, m2}
    None = None
    Workers = {w1, w2}
    Cleaners = {c1}
    MaxRetries = 1
    VisibilityTimeout = 1
    Delays = {0, 1}
    EnableDeadLetter = {w1, w2, c1}
    Calls = {"RequeueDeadLetter"}
    Faults = {"late"}
    MaxEntries = 6
    MaxCount = 3
    m1 = m1
    m2 = m2
    w1 = w1
    w2 = w2
    c1 = c1
INVARIANT NoMessageLost
PROPERTY EveryMessageEnds
PROPERTY ProcessingEnds
PROPERTY DelayedComesDue
