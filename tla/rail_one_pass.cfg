SPECIFICATION Spec
CONSTANTS
    Grants <- AllowHoldRefuse
    Revokes <- TransferRevoke
    Verdict <- MCVerdict
    Unresolved = {}
    NoEnt = NoEnt
    Listed = {"a", "h", "x"}
    PolicyMissing = FALSE
    Discoveries = {"resolved", "needs_input", "query"}
    Tampering = TRUE
    TicketJobs = {}
    RunJobs = {}
    Starts = {s}
    RestPicks = {p1, p2}
    SlackPicks = {}
    Deciders = {d}
    McpCalls = {}
    Mortal = {d}
    NoTask = NoTask
CHECK_DEADLOCK FALSE
INVARIANT RecordsAgree
INVARIANT OutcomeIsBooked
INVARIANT OnePassAtATime
PROPERTY NothingIsTakenBack
