SPECIFICATION Spec
CONSTANTS
    Messages = {m1, m2}
    None = None
    Workers = {w1, w2}
    Cleaners = {c1, c2}
    MaxRetries = 0
    VisibilityTimeout = 1
    Delays = {0, 1}
    EnableDeadLetter = {w1, w2, c1, c2}
    Calls = {"Nack", "PurgeDeadLetters", "Clear"}
    Faults = {"crash", "late"}
    MaxEntries = 2
    MaxCount = 2
    m1 = m1
    m2 = m2
    w1 = w1
    w2 = w2
    c1 = c1
    c2 = c2
SYMMETRY SymAll
INVARIANT QueueInv
