SPECIFICATION Spec
CONSTANTS
    Grants <- AllowHoldHold
    Revokes <- None
    Verdict <- MCVerdict
    Unresolved = {"k"}
    NoEnt = NoEnt
    Listed = {"a", "h", "k"}
    PolicyMissing = FALSE
    Discoveries = {"resolved", "needs_input", "query"}
    Tampering = FALSE
    TicketJobs = {}
    RunJobs = {j}
    Starts = {s}
    RestPicks = {}
    SlackPicks = {p}
    Deciders = {d}
    McpCalls = {m}
    Mortal = {}
    NoTask = NoTask
CHECK_DEADLOCK FALSE
INVARIANT BlockedRunNeverWrites
