SPECIFICATION FairSpec
CONSTANTS
    Grants <- AllowHold
    Revokes <- None
    Verdict <- MCVerdict
    Unresolved = {}
    NoEnt = NoEnt
    Listed = {"a", "h"}
    PolicyMissing = FALSE
    Discoveries = {"resolved"}
    Tampering = FALSE
    TicketJobs = {}
    RunJobs = {}
    Starts = {s}
    RestPicks = {}
    SlackPicks = {}
    Deciders = {d}
    McpCalls = {}
    Mortal = {}
    NoTask = NoTask
CHECK_DEADLOCK FALSE
PROPERTY DecisionTakesEffect
