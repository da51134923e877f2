\* Everything ends, panics of the detached task included
SPECIFICATION FairSpec
CONSTANTS
    Identifiers = {i1}
    Candidates = {c1}
    Requests = {r1, r2}
    Routes = {"fetch"}
    MaxAttempts = 2
    MaxIdentifiers = 1
    Cooldown = 2
    RouteTimeout = 1
    MaxPermits = 1
    CounterMax = 2
    TaskMayPanic = TRUE
    LastArrival = 1
    MaxTime = 4
    NoEntry = NoEntry
    NoJob = NoJob
PROPERTIES
    RequestsEnd
    PendingEnds
    Forgotten
