\* Commands may overlap: what the lock and the file operations still ensure,
\* and that a lock is always released.  No symmetry, since liveness is checked.
SPECIFICATION FairSpec
CONSTANTS
    Freezers = {f1}
    Runs = {r1, r2}
    Corpora <- MCRotation
    MaxBuild = 1
    Overlap = TRUE
    Nobody = Nobody
    NoFile = NoFile
    NoEntry = NoEntry
INVARIANTS
    TypeOK
    RunsAreExclusive
    ReleasesAreHonest
PROPERTIES
    LockReleased
CHECK_DEADLOCK FALSE
