\* Is the last attempt of a published entry always in its window?
SPECIFICATION Spec
CONSTANTS
    Identifiers = {i1}
    Candidates = {c1}
    Polls = {p1}
    MaxAttempts = 1
    MaxIdentifiers = 1
    Cooldown = 1
    CounterMax = 2
    RouteTimeout = 1
    SnapshotTtl = 1
    Second = 1
    Hour = 1
    LastPoll = 3
    MaxTime = 4
    NoEntry = NoEntry
    NoSnapshot = NoSnapshot
INVARIANTS
    LastAttemptInWindow
