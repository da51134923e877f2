\* Three calls on one id, stores of two secrets, and fewer permits than calls
SPECIFICATION FairSpec
CONSTANTS
    Requests = {r1, r2, r3}
    Ids = {i1}
    Secrets = {s1, s2}
    MaxPermits = 2
    NoRow = NoRow
    NoCall = NoCall
    NoWriter = NoWriter
INVARIANTS
    TypeOK
    TrashHoldsRow
    PermitsConserved
PROPERTIES
    Linearizable
    RequestsEnd
    ShutdownEnds
