SPECIFICATION FairSpec
CONSTANTS
    Grants <- GithubAllowHoldHold
    Revokes <- None
    Verdict <- MCVerdict
    Unresolved = {}
    NoEnt = NoEnt
    Listed = {"a", "h", "k"}
    PolicyMissing = FALSE
    Discoveries = {"resolved"}
    Tampering = FALSE
    TicketJobs = {j1, j2}
    RunJobs = {}
    Starts = {}
    RestPicks = {}
    SlackPicks = {}
    Deciders = {d}
    McpCalls = {}
    Mortal = {j1}
    NoTask = NoTask
CHECK_DEADLOCK FALSE
INVARIANT WrittenAtMostOnce
PROPERTY KeepsPromise
PROPERTY RunSettles
