SPECIFICATION MCSpec
CHECK_DEADLOCK FALSE
CONSTANTS
    Subjects <- SomePeople
    Entries <- SomeThings
    Requesters = {"ann", "max", "sam", "unknown"}
    Roster <- OnCall
    RuleBooks <- RuleSets
    Procs = {"api", "worker"}
    Servers = {"api"}
    Clients = {"c"}
    Passes = {"a", "w"}
    HostOf <- Hosts
    EventsKept = 1
    MaxEvents <- EventsOf
    MaxRestarts = 1
    Calls = {"a", "b", "c"}
    RunOf <- ChargedTo
    Uncharged = "none"
    Chains <- TierChains
    Reserve = 2
    RunBudget = 3
    BedrockCap = 3
    MaxFailures = 1
    Askers = {"a", "b"}
    Persons = {"p"}
    Threads = {"t"}
    RunNumbers = {1, 2}
    OwnerOf <- Owners
    ThreadOf <- ThreadsOf
    AsksWhat <- AskedBy
    Phases = 2
    Decisions <- Decided
    EntriesKept = 2
    MaxSteps = 2
    MaxSpend = 2
    MaxCost = 2
    Texts = {"t"}
    Items = {"low", "high"}
    HighRisk = {"high"}
    Pending <- Queues
    MaxStreams = 2
    MaxUtterances = 3
    MaxRepeats = 1
    Titles <- TaskTitles
    MaxTries = 3
    MaxFaults = 3
    Callers = {"a", "b"}
    Rate = 2
    Burst = 1
    Seconds = 2
    MaxTime = 7
    NoCaller = "nobody"
INVARIANT TypesOK
INVARIANT FollowersSeeTheRun
INVARIANT BudgetsHold
INVARIANT AnswersAreGrounded
INVARIANT PhoneIsHarmless
INVARIANT HelpdeskIsSound
INVARIANT PolicyIsKept
PROPERTY ServicesAnswer
