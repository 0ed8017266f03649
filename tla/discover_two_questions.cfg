SPECIFICATION PickSpec
CONSTANTS
    Executors = {"x", "y", "z"}
    Keys = {"A01", "A02", "A03"}
    Changes = {"repo", "other"}
    KeyOf <- MCKeyOf
    ChangeOf <- MCChangeOf
    ProcessOf <- OneProcess
    MaxAttempts = 3
    Faults = {"ok", "ack_without_apply", "transient", "timeout_before_apply", "timeout_after_apply"}
    Mortal = {"x", "z"}
    Requests = {"d1", "d2", "d3"}
    Posts = {"p"}
    Webhooks = {"w"}
    JobRuns = {"j1", "j2"}
    Raised = {"ticket"}
    TicketOf <- OneTicket
    RefOf <- OneMessage
    EventOf <- OneEvent
    BodyOf <- Bodies
    Onboarding = {"d1", "d2"}
    Echo = FALSE
    MortalCallers = {"d1", "p", "j1"}
    None = "none"
    People = {"anil", "mehta", "shah"}
    FullName <- Full
    FirstName <- First
    Texts <- SomeTexts
    Model = TRUE
    MaxChanges = 1
    Rules = {"r1", "r2"}
    Cites <- Clauses
    Governs <- Governed
    Budget <- Budgets
    Cases <- SomeCases
    Libraries <- Shelves
    Spans = {"read-only access", "any access"}
    Messages <- OneMail
    Limit = 1
    Days = {2, 3, 4}
    MaxEdits = 1
    Sessions = {"job", "pick", "door", "receipt"}
    Script <- Scripts
    PoolSize = 4
    MortalSessions = {"door"}
    Orderly = {"job", "pick", "receipt"}
CHECK_DEADLOCK FALSE
INVARIANT AsksOnce
