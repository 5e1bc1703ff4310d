\* Two runs and a contamination contend for a corpus with one attempt, and
\* the candidate may be upgraded once: safety, the promise shared with the
\* blind lifecycle, and a lock that is always released.  No symmetry, since
\* liveness is checked.
SPECIFICATION FairSpec
CONSTANTS
    Runners = {r1, r2}
    Contaminators = {c1}
    MaxRuns = 1
    MaxBuild = 1
    Nobody = Nobody
INVARIANTS
    TypeOK
    LockExcludes
    BudgetHolds
    CompleteMeasuredFrozen
PROPERTIES
    KeepsPromise
    LockReleased
CHECK_DEADLOCK FALSE
