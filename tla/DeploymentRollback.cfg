SPECIFICATION DeploySpec
CONSTANTS
    Bundles = {b1, b2}
    Parts = {p1}
    MaxFailures = 0
    NoBundle = NoBundle
INVARIANT RollbackRetained
CHECK_DEADLOCK FALSE
