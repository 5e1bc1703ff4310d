SPECIFICATION CommitSpec
CONSTANTS
    MaxVersion = 2
    MaxEdits = 2
    Quiet = TRUE
INVARIANT StagedIsReplaced
CHECK_DEADLOCK FALSE
