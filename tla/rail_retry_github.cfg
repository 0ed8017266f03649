SPECIFICATION Spec
CONSTANTS
    Grants <- AllowGithub
    Revokes <- None
    Verdict <- MCVerdict
    Unresolved = {}
    NoEnt = NoEnt
    Listed = {"a"}
    PolicyMissing = FALSE
    Discoveries = {"resolved"}
    Tampering = FALSE
    TicketJobs = {j1, j2}
    RunJobs = {}
    Starts = {}
    RestPicks = {}
    SlackPicks = {}
    Deciders = {}
    McpCalls = {}
    Mortal = {j1}
    NoTask = NoTask
CHECK_DEADLOCK FALSE
INVARIANT WrittenAtMostOnce
