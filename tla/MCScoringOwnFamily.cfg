\* A twin and two findings on one range, of its own family and of another.
SPECIFICATION Spec
CONSTANTS
    Bytes = 2
    Families = {own, other}
    Unknown = unknown
    MaxSpans = 0
    MaxReported = 2
INVARIANTS
    OwnFamilyFails
\* The scan ends.
CHECK_DEADLOCK FALSE
