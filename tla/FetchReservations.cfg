\* Three requests in every stage, detached tasks that outlive their window
SPECIFICATION Spec
CONSTANTS
    Identifiers = {i1}
    Candidates = {c1, c2}
    Requests = {r1, r2, r3}
    Routes = {"fetch"}
    MaxAttempts = 2
    MaxIdentifiers = 1
    Cooldown = 1
    RouteTimeout = 0
    MaxPermits = 1
    CounterMax = 2
    TaskMayPanic = FALSE
    LastArrival = 2
    MaxTime = 2
    NoEntry = NoEntry
    NoJob = NoJob
SYMMETRY Symmetry
INVARIANTS
    TypeOK
    OwnerHoldsPending
    ReservationsDisjoint
    NoOrphan
    PermitsConserved
