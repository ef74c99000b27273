SPECIFICATION Spec
CONSTANTS
    Messages = {m1, m2, m3}
    None = None
    Workers = {w1, w2}
    Cleaners = {c1}
    MaxRetries = 1
    VisibilityTimeout = 2
    Delays = {0, 1}
    EnableDeadLetter = {w1, c1}
    Calls = {"Nack"}
    Faults = {"crash", "error"}
    MaxEntries = 6
    MaxCount = 4
    m1 = m1
    m2 = m2
    m3 = m3
    w1 = w1
    w2 = w2
    c1 = c1
SYMMETRY SymMessages
INVARIANT TypeOK
INVARIANT PromptInv
INVARIANT OneCopy
INVARIANT ExclusiveDelivery
INVARIANT StatsExact
PROPERTY NoEarlyTimeout
PROPERTY ImplementsLife
