\* Two concurrent appliers of packages prepared for the active predecessor,
\* with failures, crashes and recoveries, and a reader of the active files:
\* safety, and a lock that is always released.  No symmetry, since liveness
\* is checked.
SPECIFICATION FairSpec
CONSTANTS
    Appliers = {p1, p2}
    Readers = {rd}
    N = 4
    Adoption = 2
    Pins <- MCPins
    Releases = {r0, r1, r2}
    Anchor = r0
    MaxChain = 3
    Start <- MCStart
    Careful = TRUE
    Absent = Absent
    Nobody = Nobody
INVARIANTS
    TypeOK
    FilesAreRecoverable
    AdoptionsChain
PROPERTIES
    LockReleased
CHECK_DEADLOCK FALSE
