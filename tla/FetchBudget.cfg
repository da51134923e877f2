\* More candidates than attempts, stamps as old as the route timeout
SPECIFICATION Spec
CONSTANTS
    Identifiers = {i1}
    Candidates = {c1, c2, c3}
    Requests = {r1, r2}
    Routes = {"fetch"}
    MaxAttempts = 2
    MaxIdentifiers = 1
    Cooldown = 2
    RouteTimeout = 1
    MaxPermits = 1
    CounterMax = 2
    TaskMayPanic = FALSE
    LastArrival = 3
    MaxTime = 3
    NoEntry = NoEntry
    NoJob = NoJob
SYMMETRY Symmetry
INVARIANTS
    BudgetHolds
    FailuresCommitted
    AnswersCharged
    OwnerHoldsPending
PROPERTIES
    ChargeKept
    OnlyNewSlides
    ResetsAtHolds
