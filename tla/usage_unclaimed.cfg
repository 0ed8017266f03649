SPECIFICATION FairSpec
CONSTANTS
    Jobs = {j1, j2}
    Workers = {w1, w2}
    MaxAttempts = 3
    Mortal = {}
    PromptReports = TRUE
    Usage = {j2}
    Nothing = Nothing
CHECK_DEADLOCK FALSE
PROPERTY UsageIsSent
