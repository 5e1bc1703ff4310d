\* Commands may overlap, and the comment on checkNotYetEvaluated is refuted:
\* the ledger a run writes back was read before it had the lock.
SPECIFICATION Spec
CONSTANTS
    Freezers = {f1, f2}
    Runs = {r1, r2}
    Corpora <- MCRotation
    MaxBuild = 1
    Overlap = TRUE
    Nobody = Nobody
    NoFile = NoFile
    NoEntry = NoEntry
SYMMETRY MCSymmetry
INVARIANTS
    OneAttempt
CHECK_DEADLOCK FALSE
