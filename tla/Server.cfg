\* Starts that are cut off on any unadopted database; two canaries and a removed
\* one that leave the dotenv file at the same length
SPECIFICATION Spec
CONSTANTS
    Values = {v1, v2}
    SameLength = {v1, v2, "removed"}
    InWorkingDir = FALSE
    MaxTime = 1
    NoFile = NoFile
    None = None
INVARIANTS
    TypeOK
    LedgerTrue
    RefusesOnlyIncompatible
    InfoFollowsFile
