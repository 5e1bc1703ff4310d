\* One command at a time, as the custodian's procedure has it: two freezes
\* and two runs over three possible corpora and two builds.
\* Every command ends and may have nothing left to do: deadlock is not an error.
SPECIFICATION Spec
CONSTANTS
    Freezers = {f1, f2}
    Runs = {r1, r2}
    Corpora <- MCCorpora
    MaxBuild = 1
    Overlap = FALSE
    Nobody = Nobody
    NoFile = NoFile
    NoEntry = NoEntry
\* Every sequence KeepsPromise makes of a set has at most one element here,
\* so the order SetToSeq picks does not break the symmetry.
SYMMETRY MCSymmetry
INVARIANTS
    OneAttemptPerEpoch
PROPERTIES
    NothingIsForgotten
    KeepsPromise
CHECK_DEADLOCK FALSE
