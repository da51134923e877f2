\* Does a reader's copy outlive the snapshot it was made from?
SPECIFICATION Spec
CONSTANTS
    Identifiers = {}
    Candidates = {}
    Polls = {p1, p2}
    MaxAttempts = 1
    MaxIdentifiers = 1
    Cooldown = 1
    CounterMax = 1
    RouteTimeout = 1
    SnapshotTtl = 4
    Second = 2
    Hour = 10
    LastPoll = 8
    MaxTime = 8
    NoEntry = NoEntry
    NoSnapshot = NoSnapshot
PROPERTIES
    CopiesEndWithRebuild
