SPECIFICATION MCSpec
CONSTANTS
    Jobs = {j1, j2}
    Workers = {w1, w2}
    MaxAttempts = 3
    Mortal = {w1}
    PromptReports = TRUE
    Usage = {}
    Nothing = Nothing
    Messengers = {"w"}
    Setups <- SomeSetups
    Choices = {"approved"}
    MaxVersion = 2
    Builders = {"w1", "w2"}
    Story <- TwoWaits
    Final = {"partial", "done", "failed"}
    MaxTries = 2
    MaxFaults = 1
CHECK_DEADLOCK FALSE
INVARIANT TypesOK
INVARIANT AskingIsSound
INVARIANT ReceiptsAreTrue
INVARIANT OneWorkerPerJob
INVARIANT StartsAreBounded
INVARIANT DoneWasDone
PROPERTY DeadStaysDead
PROPERTY OutcomeIsTold
PROPERTY JobsEnd
