SPECIFICATION Spec
CONSTANTS
    Jobs = {j1}
    Workers = {w1, w2, w3}
    MaxAttempts = 3
    Mortal = {}
    PromptReports = FALSE
    Usage = {}
    Nothing = Nothing
CHECK_DEADLOCK FALSE
INVARIANT OneWorkerPerJob
