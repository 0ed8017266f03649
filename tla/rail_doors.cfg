SPECIFICATION Spec
CONSTANTS
    Grants <- AllowHoldHold
    Revokes <- None
    Verdict <- MCVerdict
    Unresolved = {}
    NoEnt = NoEnt
    Listed = {"a", "h", "k"}
    PolicyMissing = FALSE
    Discoveries = {"resolved"}
    Tampering = FALSE
    TicketJobs = {}
    RunJobs = {}
    Starts = {s}
    RestPicks = {}
    SlackPicks = {}
    Deciders = {d1, d2}
    McpCalls = {}
    Mortal = {d1}
    NoTask = NoTask
CHECK_DEADLOCK FALSE
INVARIANT TypeOK
INVARIANT WritesAreAuthorised
INVARIANT VerifiedIsInPlace
INVARIANT WaitingWasAsked
