\* One applier, and one reader of the active files.
SPECIFICATION Spec
CONSTANTS
    Appliers = {p1}
    Readers = {rd}
    N = 4
    Adoption = 2
    Pins <- MCPins
    Releases = {r0, r1, r2}
    Anchor = r0
    MaxChain = 2
    Start <- MCStart
    Careful = TRUE
    Absent = Absent
    Nobody = Nobody
INVARIANTS
    ReturnedIsChecked
CHECK_DEADLOCK FALSE
