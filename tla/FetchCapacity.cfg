\* More identifiers than places in the map, both routes
SPECIFICATION Spec
CONSTANTS
    Identifiers = {i1, i2}
    Candidates = {c1, c2}
    Requests = {r1, r2}
    Routes = {"fetch", "trash"}
    MaxAttempts = 1
    MaxIdentifiers = 1
    Cooldown = 2
    RouteTimeout = 1
    MaxPermits = 1
    CounterMax = 2
    TaskMayPanic = FALSE
    LastArrival = 2
    MaxTime = 3
    NoEntry = NoEntry
    NoJob = NoJob
SYMMETRY Symmetry
INVARIANTS
    CapacityHolds
PROPERTIES
    ChargeKept
    TrafficImplemented
