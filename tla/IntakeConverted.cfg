SPECIFICATION IntakeSpec
CONSTANTS
    PackVersions = {v1, v2}
    MaxScans = 2
    NoFirstRun = NoFirstRun
PROPERTY ConvertedForGood
CHECK_DEADLOCK FALSE
