\* Bursts of two tokens and two thirds, a refill of two thirds at a time
SPECIFICATION Spec
CONSTANTS
    Token = 3
    Capacity = 8
    Refill = 2
    MaxTime = 8
INVARIANTS
    TypeOK
    GrantsBounded
    RefusedEarly
