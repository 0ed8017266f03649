-------------------------------- MODULE Rail --------------------------------
(***************************************************************************)
(* One run on the rail: every task that can move it, from the first pass   *)
(* to the passes that follow each decision (rail/runner.py, approve.py,    *)
(* execute.py, verify.py, finalize.py, store.py; the doors' decide, pick   *)
(* and start in surfaces/door.py and rest.py; the rail.run job of          *)
(* intake.py).                                                             *)
(*                                                                         *)
(* A task is one asyncio task of the API or of a worker process.  It acts  *)
(* once: a job task is one delivery of the ticket's rail.run job, a        *)
(* deciding task is one click.  Between two database transactions, or two  *)
(* calls to a connector, any other task may run, so every transaction and  *)
(* every connector call is an action.  Postgres runs transactions READ     *)
(* COMMITTED and locks no row it only reads: a transaction that reads the  *)
(* status before it writes it is split at that gap, unless it already      *)
(* holds the run's row or the audit chain's lock by then.                  *)
(*                                                                         *)
(* A connector call is summed up by its outcomes (module Target); module   *)
(* Execute has the retries and reconciling reads inside it and is shown to *)
(* come to nothing else.  The audit row each transaction appends is left   *)
(* out.                                                                    *)
(***************************************************************************)
EXTENDS CasePlan, Target

CONSTANTS
    Listed,        \* entitlements whose grant shows in subject_holdings; a GitHub grant does not
    PolicyMissing, \* TRUE: a rule cites a policy page that lacks its clause, a blocker
    Discoveries,   \* what Discover may answer: "resolved", "needs_input", "query"
    Tampering,     \* TRUE: somebody edits the stored capsule behind the engine's back
    TicketJobs,    \* deliveries of the job {ticket_id}
    RunJobs,       \* deliveries of the job {run_id}
    Starts,        \* door requests that start a run with no ticket behind it
    RestPicks, SlackPicks, \* answers to "which one?"
    Deciders,      \* decisions made in some door
    McpCalls,      \* calls of the MCP tool execute_and_verify
    Mortal,        \* the tasks whose process may die, or be timed out, halfway
    NoTask

Jobs == TicketJobs \cup RunJobs
Tasks == Jobs \cup Starts \cup RestPicks \cup SlackPicks \cup Deciders \cup McpCalls
Kinds == <<TicketJobs, RunJobs, Starts, RestPicks, SlackPicks, Deciders, McpCalls>>

ASSUME RailAssumption ==
    /\ \A i, j \in DOMAIN Kinds : i # j => Kinds[i] \cap Kinds[j] = {}
    /\ Listed \subseteq Ents
    /\ PolicyMissing \in BOOLEAN /\ Tampering \in BOOLEAN
    /\ Discoveries \subseteq {"resolved", "needs_input", "query"}
    /\ Mortal \subseteq Tasks
    /\ NoTask \notin Tasks

VARIABLES
    \* the run's row
    status, capsule, blockers, sealed,
    \* the tables actions, approvals, jobs (by kind)
    rows, approvals, asked, receipts, usage, jobDone,
    \* the target systems: keys already used, what the subject holds, writes carried out
    ledger, held, wrote,
    \* advisory locks
    ticketLock, runLock,
    \* each task: its program counter, its copy of the case, and what it has read
    pc, case, blk, touched, seen, ask

runVars == <<status, capsule, blockers, sealed>>
jobVars == <<asked, receipts, usage, jobDone>>
tableVars == <<rows, approvals, jobVars>>
systemVars == <<ledger, held, wrote>>
lockVars == <<ticketLock, runLock>>
localVars == <<case, blk, touched, seen, ask>>
taskVars == <<pc, localVars>>
vars == <<runVars, tableVars, systemVars, lockVars, taskVars>>

Decision == {"approved", "refused"}
Approval == [ent : Ents, decision : Decision]
NoApproval == [ent |-> NoEnt, decision |-> "none"]
NoAsk == [slot |-> 0, ent |-> NoEnt, decision |-> "none"]
EmptyCase == [s \in Slots |-> Absent]

PCs == {"idle", "continue", "open_run", "set_run", "discover", "compile",
        "govern", "plan", "record", "open_resume", "check_resume", "set_resume",
        "handoff", "halt",
        "approve", "execute", "verify", "finalize", "done", "crashed"}

RunTypeOK ==
    /\ status \in RunStatus \cup {"none"}
    /\ capsule \in [Slots -> Cell]
    /\ blockers \in BOOLEAN
    /\ sealed \in BOOLEAN

TableTypeOK ==
    /\ rows \in [Slots -> Cell]
    /\ approvals \in [Slots -> Approval \cup {NoApproval}]
    /\ asked \in [Slots -> Ents \cup {NoEnt}]
    /\ receipts \subseteq [status : RunStatus, verified : Nat, failed : Nat]
    /\ usage \in {"none", "partial", "done"}
    /\ jobDone \in BOOLEAN

SystemTypeOK ==
    /\ ledger \subseteq (Slots \X Ents)
    /\ held \subseteq Ents
    /\ wrote \in [Ents -> Nat]

LockTypeOK ==
    /\ ticketLock \in Tasks \cup {NoTask}
    /\ runLock \in Tasks \cup {NoTask}

TaskTypeOK ==
    /\ pc \in [Tasks -> PCs]
    /\ case \in [Tasks -> [Slots -> Cell]]
    /\ blk \in [Tasks -> BOOLEAN]
    /\ touched \in [Tasks -> SUBSET Slots]
    /\ seen \in [Tasks -> SUBSET Ents]
    /\ ask \in [Tasks -> [slot : Slots, ent : Ents, decision : Decision] \cup {NoAsk}]

TypeOK == RunTypeOK /\ TableTypeOK /\ SystemTypeOK /\ LockTypeOK /\ TaskTypeOK

Init ==
    /\ status = "none" /\ capsule = EmptyCase /\ blockers = FALSE /\ sealed = TRUE
    /\ rows = EmptyCase
    /\ approvals = [s \in Slots |-> NoApproval]
    /\ asked = [s \in Slots |-> NoEnt]
    /\ receipts = {} /\ usage = "none" /\ jobDone = FALSE
    /\ ledger = {}
    /\ held = Ents \ GrantEnts
    /\ wrote = [e \in Ents |-> 0]
    /\ ticketLock = NoTask /\ runLock = NoTask
    /\ pc = [t \in Tasks |-> "idle"]
    /\ case = [t \in Tasks |-> EmptyCase]
    /\ blk = [t \in Tasks |-> FALSE]
    /\ touched = [t \in Tasks |-> {}]
    /\ seen = [t \in Tasks |-> {}]
    /\ ask = [t \in Tasks |-> NoAsk]

-----------------------------------------------------------------------------
(* Tasks                                                                   *)

Goto(t, label) == pc' = [pc EXCEPT ![t] = label]

(* A mutant: a lock that belongs to the session outlives the task.         *)
KeptLock(lock, t) == lock

(* An advisory lock is scoped to its transaction: it goes with the task.   *)
Released(lock, t) == IF lock = t THEN NoTask ELSE lock

(* A mutant: the lock is not waited for.                                   *)
NeverTaken(lock) == TRUE

Free(lock) == lock = NoTask

(* A task that ends forgets its copy of the case.                          *)
Leave(t, label) ==
    /\ Goto(t, label)
    /\ case' = [case EXCEPT ![t] = EmptyCase]
    /\ blk' = [blk EXCEPT ![t] = FALSE]
    /\ touched' = [touched EXCEPT ![t] = {}]
    /\ seen' = [seen EXCEPT ![t] = {}]
    /\ ask' = [ask EXCEPT ![t] = NoAsk]
    /\ ticketLock' = Released(ticketLock, t)
    /\ runLock' = Released(runLock, t)

(* The handler returned: a job task completes its job.                     *)
Return(t) ==
    /\ Leave(t, "done")
    /\ jobDone' = (jobDone \/ t \in Jobs)

(* The handler raised: a job stays in the table, to be delivered again.    *)
Raise(t) ==
    /\ Leave(t, "done")
    /\ UNCHANGED jobDone

(* A process dies, or the worker's timeout cancels the handler.            *)
Crash(t) ==
    /\ t \in Mortal
    /\ pc[t] \notin {"idle", "done", "crashed"}
    /\ Leave(t, "crashed")
    /\ UNCHANGED <<runVars, tableVars, systemVars>>

-----------------------------------------------------------------------------
(* Ways in                                                                 *)

(* rail_run, payload {ticket_id}: under the ticket's lock, the first       *)
(* delivery creates the run and runs it; a later one continues a run that  *)
(* is still running and leaves any other alone.                            *)
TicketJob(t) ==
    /\ t \in TicketJobs
    /\ pc[t] = "idle" /\ ~jobDone /\ Free(ticketLock)
    /\ \/ /\ status = "none"
          /\ status' = "running"
          /\ Goto(t, "open_run")
          /\ ticketLock' = t
          /\ UNCHANGED <<jobDone, runLock, localVars>>
       \/ /\ status = "running"
          /\ Goto(t, "continue")
          /\ ticketLock' = t
          /\ UNCHANGED <<status, jobDone, runLock, localVars>>
       \/ /\ status \notin {"none", "running"}
          /\ Return(t)
          /\ UNCHANGED status
    /\ UNCHANGED <<capsule, blockers, sealed, rows, approvals, asked, receipts,
                   usage, systemVars>>

(* rail_run, payload {run_id}.                                             *)
RunJob(t) ==
    /\ t \in RunJobs
    /\ pc[t] = "idle" /\ ~jobDone /\ status # "none"
    /\ Goto(t, "continue")
    /\ UNCHANGED <<runVars, tableVars, systemVars, lockVars, localVars>>

(* continue_run: under the run's lock, take the run as far as it can go.   *)
ContinueRun(t) ==
    /\ pc[t] = "continue" /\ Free(runLock)
    /\ \/ /\ status = "running"
          /\ Goto(t, "open_run")
          /\ runLock' = t
          /\ UNCHANGED <<jobDone, ticketLock, localVars>>
       \/ /\ status = "awaiting_approval"
          /\ \E s \in Slots : rows[s].st = "awaiting" /\ approvals[s] # NoApproval
          /\ Goto(t, "open_resume")
          /\ runLock' = t
          /\ UNCHANGED <<jobDone, ticketLock, localVars>>
       \/ /\ status # "running"
          /\ ~ /\ status = "awaiting_approval"
               /\ \E s \in Slots : rows[s].st = "awaiting" /\ approvals[s] # NoApproval
          /\ Return(t)
    /\ UNCHANGED <<runVars, rows, approvals, asked, receipts, usage, systemVars>>

(* Door.start_run of a request with no ticket: no lock is needed, the id   *)
(* is new.                                                                 *)
StartRun(t) ==
    /\ t \in Starts
    /\ pc[t] = "idle" /\ status = "none"
    /\ status' = "running"
    /\ Goto(t, "open_run")
    /\ UNCHANGED <<capsule, blockers, sealed, tableVars, systemVars, lockVars,
                   localVars>>

(* POST /runs/{id}/pick holds the run's lock and checks the status first;  *)
(* the Slack button does neither and leaves the check to Runner.run.       *)
PickInRest(t) ==
    /\ t \in RestPicks
    /\ pc[t] = "idle" /\ Free(runLock) /\ status = "needs_input"
    /\ Goto(t, "open_run")
    /\ runLock' = t
    /\ UNCHANGED <<runVars, tableVars, systemVars, ticketLock, localVars>>

PickInSlack(t) ==
    /\ t \in SlackPicks
    /\ pc[t] = "idle" /\ status = "needs_input"
    /\ Goto(t, "open_run")
    /\ UNCHANGED <<runVars, tableVars, systemVars, lockVars, localVars>>

-----------------------------------------------------------------------------
(* The first pass: Runner.run, from Discover to the sealed plan            *)

(* The check at the head of Runner.run.  Before an answered question sets  *)
(* the run running again, the audit row is appended, and whoever holds the *)
(* chain's lock is waited for: the status is then read once more.          *)
OpenRun(t) ==
    /\ pc[t] = "open_run"
    /\ \/ /\ status \in {"needs_input", "running"}
          /\ Goto(t, IF status = "running" THEN "discover" ELSE "set_run")
          /\ UNCHANGED <<jobDone, lockVars, localVars>>
       \/ /\ status \notin {"needs_input", "running"}
          /\ Raise(t)
    /\ UNCHANGED <<runVars, rows, approvals, asked, receipts, usage, systemVars>>

SetRun(t) ==
    /\ pc[t] = "set_run"
    /\ \/ /\ MayBecome(status, "running")
          /\ status' = "running"
          /\ Goto(t, "discover")
          /\ UNCHANGED <<jobDone, lockVars, localVars>>
       \/ /\ ~MayBecome(status, "running")
          /\ Raise(t)
          /\ UNCHANGED status
    /\ UNCHANGED <<capsule, blockers, sealed, rows, approvals, asked, receipts,
                   usage, systemVars>>

(* Runner._status inside a transaction that has already written the run's  *)
(* row: an illegal move raises and the transaction is rolled back.         *)
SetStatus(t, to) ==
    \/ /\ MayBecome(status, to)
       /\ status' = to
       /\ Return(t)
    \/ /\ ~MayBecome(status, to)
       /\ Raise(t)
       /\ UNCHANGED status

Discover(t) ==
    /\ pc[t] = "discover"
    /\ \E found \in Discoveries :
          \/ /\ found = "resolved"
             /\ Goto(t, "compile")
             /\ UNCHANGED <<status, jobDone, lockVars, localVars>>
          \/ /\ found = "needs_input"
             /\ SetStatus(t, "needs_input")
          \/ /\ found = "query"
             /\ SetStatus(t, "done")
    /\ UNCHANGED <<capsule, blockers, sealed, rows, approvals, asked, receipts,
                   usage, systemVars>>

(* gather_inputs reads what the subject holds now; the case file is sealed *)
(* with no action in it yet.                                               *)
Compile(t) ==
    /\ pc[t] = "compile"
    /\ LET holdings == {e \in held : e \in GrantEnts => e \in Listed}
       IN  /\ case' = [case EXCEPT ![t] = Candidates(holdings)]
           /\ seen' = [seen EXCEPT ![t] = holdings]
    /\ blk' = [blk EXCEPT ![t] = PolicyMissing]
    /\ capsule' = EmptyCase /\ blockers' = PolicyMissing /\ sealed' = TRUE
    /\ Goto(t, "govern")
    /\ UNCHANGED <<status, tableVars, systemVars, lockVars, touched, ask>>

(* save_case: the whole case file replaces the stored one, and is sealed.  *)
SaveCase(c, b) ==
    /\ capsule' = c
    /\ blockers' = b
    /\ sealed' = TRUE

(* _sync_actions upserts every action of the case, its state included; a   *)
(* row the case does not speak of stays.                                   *)
SyncActions(c) ==
    rows' = [s \in Slots |-> IF c[s] = Absent THEN rows[s] ELSE c[s]]

Govern(t) ==
    /\ pc[t] = "govern"
    /\ SaveCase(case[t], blk[t])
    /\ SyncActions(case[t])
    /\ Goto(t, "plan")
    /\ UNCHANGED <<status, approvals, jobVars, systemVars, lockVars, localVars>>

Plan(t) ==
    /\ pc[t] = "plan"
    /\ LET planned == BuildPlan(case[t], seen[t])
       IN  /\ SaveCase(planned, blk[t])
           /\ SyncActions(planned)
    /\ Goto(t, "handoff")
    /\ case' = [case EXCEPT ![t] = EmptyCase]
    /\ blk' = [blk EXCEPT ![t] = FALSE]
    /\ seen' = [seen EXCEPT ![t] = {}]
    /\ UNCHANGED <<status, approvals, jobVars, systemVars, lockVars, touched, ask>>

-----------------------------------------------------------------------------
(* The stages every pass goes through: Runner._handoff and _continue       *)

(* The case is received by value from the database, its seal verified; a   *)
(* broken seal halts the run, in a transaction of its own.                 *)
Handoff(t) ==
    /\ pc[t] = "handoff"
    /\ \/ /\ sealed
          /\ case' = [case EXCEPT ![t] = capsule]
          /\ blk' = [blk EXCEPT ![t] = blockers]
          /\ Goto(t, "approve")
          /\ UNCHANGED <<touched, seen, ask>>
       \/ /\ ~sealed
          /\ Goto(t, "halt")
          /\ UNCHANGED localVars
    /\ UNCHANGED <<runVars, tableVars, systemVars, lockVars>>

Halt(t) ==
    /\ pc[t] = "halt"
    /\ SetStatus(t, "failed")
    /\ UNCHANGED <<capsule, blockers, sealed, rows, approvals, asked, receipts,
                   usage, systemVars>>

(* A mutant: a decision on the action id counts, whatever it was shown.    *)
IsDecidedById(c, s) ==
    /\ c[s].st = "awaiting"
    /\ approvals[s] # NoApproval

(* apply_decisions: a decision counts only for exactly these parameters.   *)
IsDecided(c, s) ==
    /\ c[s].st = "awaiting"
    /\ approvals[s].ent = c[s].ent

(* A mutant: any decision lets the action go on.                           *)
ApplyAsApproved(c) ==
    [s \in Slots |-> IF IsDecided(c, s) THEN [c[s] EXCEPT !.st = "approved"] ELSE c[s]]

ApplyDecisions(c) ==
    [s \in Slots |-> IF IsDecided(c, s)
                     THEN [c[s] EXCEPT !.st = approvals[s].decision]
                     ELSE c[s]]

(* A mutant: only the first held action of a case is dispatched.           *)
DispatchedFirst(c, s) ==
    /\ c[s].st = "awaiting" /\ \A u \in Slots : u < s => c[u].st # "awaiting"
    /\ c[s].ent \notin Unresolved
    /\ asked[s] = NoEnt

(* dispatch_holds: one approval.dispatch job per action id, ever.          *)
Dispatched(c, s) ==
    /\ c[s].st = "awaiting"
    /\ c[s].ent \notin Unresolved
    /\ asked[s] = NoEnt

(* A mutant: an unresolved approver blocks nothing.                        *)
BlockedByPolicyOnly(c, b) == b

(* The open blockers once the holds have been dispatched.                  *)
BlockedBy(c, b) ==
    b \/ \E s \in Slots : c[s].st = "awaiting" /\ c[s].ent \in Unresolved

(* _sync_states: the states of the actions a stage has touched.            *)
SyncStates(c, ids) ==
    rows' = [s \in Slots |-> IF s \in ids THEN [rows[s] EXCEPT !.st = c[s].st]
                                          ELSE rows[s]]

Approve(t) ==
    /\ pc[t] = "approve"
    /\ LET c == ApplyDecisions(case[t])
           b == BlockedBy(c, blk[t])
       IN  /\ SaveCase(c, b)
           /\ SyncStates(c, {s \in Slots : IsDecided(case[t], s)})
           /\ asked' = [s \in Slots |-> IF Dispatched(c, s) THEN c[s].ent ELSE asked[s]]
           /\ case' = [case EXCEPT ![t] = c]
           /\ blk' = [blk EXCEPT ![t] = b]
    /\ Goto(t, "execute")
    /\ UNCHANGED <<status, approvals, receipts, usage, jobDone, systemVars, lockVars,
                   touched, seen, ask>>

(* EXECUTABLE                                                              *)
IsExecutable(c) ==
    \/ c.st = "planned" /\ Verdict[c.ent] = "ALLOW"
    \/ c.st = "approved" /\ Verdict[c.ent] = "HOLD"

Executable(c) == {s \in Slots : IsExecutable(c[s])}

(* idempotency_key(run_id, action_id, params_hash)                         *)
WriteKey(s, e) == <<s, e>>

(* The target holds what the action intended.                              *)
InPlace(e) == IF e \in GrantEnts THEN e \in held ELSE e \notin held

(* One execute_action: the next executable action, in the plan's order.    *)
ExecuteWrite(t) ==
    /\ pc[t] = "execute" /\ ~blk[t]
    /\ \E s \in Slots :
        LET e == case[t][s].ent
            key == WriteKey(s, e)
        IN  /\ IsFirst(case[t], s, Executable(case[t]))
            /\ \E out \in WriteOutcomes(key \in ledger, InPlace(e)) :
                /\ case' = [case EXCEPT ![t][s].st = out.st]
                /\ ledger' = IF out.records THEN ledger \cup {key} ELSE ledger
                /\ IF out.applies
                   THEN /\ held' = IF e \in GrantEnts THEN held \cup {e} ELSE held \ {e}
                        /\ wrote' = [wrote EXCEPT ![e] = @ + 1]
                   ELSE UNCHANGED <<held, wrote>>
            /\ touched' = [touched EXCEPT ![t] = @ \cup {s}]
    /\ UNCHANGED <<runVars, tableVars, lockVars, pc, blk, seen, ask>>

(* The transaction that ends a stage: the case and the states it touched.  *)
SaveStage(t, next) ==
    /\ SaveCase(case[t], blk[t])
    /\ SyncStates(case[t], touched[t])
    /\ touched' = [touched EXCEPT ![t] = {}]
    /\ Goto(t, next)
    /\ UNCHANGED <<status, approvals, jobVars, systemVars, lockVars, case, blk,
                   seen, ask>>

ExecuteSave(t) ==
    /\ pc[t] = "execute"
    /\ blk[t] \/ Executable(case[t]) = {}
    /\ SaveStage(t, "verify")

(* VERIFIABLE                                                              *)
Verifiable(c) == {s \in Slots : c[s].st \in {"executed", "unknown"}}

(* A mutant: the target's answer to the write is taken for the read-back.  *)
TrustedOutcomes(e) == {"verified", "failed"}

(* verify_action: verified only on a matching read-back.                   *)
VerifyOutcomes(e) == {IF InPlace(e) THEN "verified" ELSE "failed",
                      "failed"}      \* the read-back itself failed

VerifyRead(t) ==
    /\ pc[t] = "verify"
    /\ \E s \in Slots :
        /\ IsFirst(case[t], s, Verifiable(case[t]))
        /\ \E st \in VerifyOutcomes(case[t][s].ent) :
            case' = [case EXCEPT ![t][s].st = st]
        /\ touched' = [touched EXCEPT ![t] = @ \cup {s}]
    /\ UNCHANGED <<runVars, tableVars, systemVars, lockVars, pc, blk, seen, ask>>

VerifySave(t) ==
    /\ pc[t] = "verify"
    /\ Verifiable(case[t]) = {}
    /\ SaveStage(t, "finalize")

StatesOf(c) == {c[s].st : s \in Slots}

(* A mutant: only what is still open keeps a run from being done.          *)
FinalStatusOpenOnly(c, b) ==
    IF "awaiting" \in StatesOf(c) THEN "awaiting_approval"
    ELSE IF b \/ StatesOf(c) \cap {"unknown", "planned", "approved", "executed"} # {}
    THEN "partial"
    ELSE "done"

(* final_status: computed, never chosen.                                   *)
FinalStatus(c, b) ==
    IF "awaiting" \in StatesOf(c) THEN "awaiting_approval"
    ELSE IF b \/ StatesOf(c) \cap {"refused", "failed", "unknown", "planned",
                                   "approved", "executed"} # {}
    THEN "partial"
    ELSE "done"

Tally(c, st) == Cardinality({s \in Slots : c[s].st \in st})

(* request_receipt: one receipt.build job per distinct outcome of the run. *)
Outcome(c, to) == [status |-> to,
                   verified |-> Tally(c, {"verified"}),
                   failed |-> Tally(c, {"failed", "unknown"})]

(* A mutant: one receipt per run.                                          *)
ReceiptPerRun(c, to) == IF receipts = {} THEN {Outcome(c, to)} ELSE receipts

ReceiptJobs(c, to) == receipts \cup {Outcome(c, to)}

(* A mutant: every settled pass is billed, the waiting ones too.           *)
UsageOfAnyPass(to) == IF usage = "none" THEN to ELSE usage

(* request_usage_event: one usage event per finished run, whatever follows.*)
UsageEvent(to) ==
    IF usage = "none" /\ to \in {"partial", "done"} THEN to ELSE usage

(* The last transaction: case, status, receipt job and usage event.        *)
Finalize(t) ==
    /\ pc[t] = "finalize"
    /\ LET to == FinalStatus(case[t], blk[t])
       IN  /\ SetStatus(t, to)
           /\ IF MayBecome(status, to)
              THEN /\ SaveCase(case[t], blk[t])
                   /\ receipts' = ReceiptJobs(case[t], to)
                   /\ usage' = UsageEvent(to)
              ELSE UNCHANGED <<capsule, blockers, sealed, receipts, usage>>
    /\ UNCHANGED <<rows, approvals, asked, systemVars>>

-----------------------------------------------------------------------------
(* Decisions, and the passes they set off                                  *)

(* Door.decide up to its transaction: the approver named for the action    *)
(* decides on a card or a list that shows parameters e for id s.  Anyone   *)
(* else, a stale card or a conflict of duties is rejected, and no state    *)
(* but the audit changes.                                                  *)
DecideRead(t) ==
    /\ t \in Deciders
    /\ pc[t] = "idle"
    /\ \E s \in Slots, e \in Ents, d \in Decision :
        /\ approvals[s] = NoApproval
        /\ rows[s] = [ent |-> e, st |-> "awaiting"]
        /\ e \notin Unresolved
        /\ ask' = [ask EXCEPT ![t] = [slot |-> s, ent |-> e, decision |-> d]]
    /\ Goto(t, "record")
    /\ UNCHANGED <<runVars, tableVars, systemVars, lockVars, case, blk, touched,
                   seen>>

(* record_approval: the first decision wins, whichever door it came from.  *)
RecordApproval(t) ==
    /\ pc[t] = "record"
    /\ LET s == ask[t].slot
       IN  \/ /\ approvals[s] = NoApproval
              /\ approvals' = [approvals EXCEPT ![s] =
                     [ent |-> ask[t].ent, decision |-> ask[t].decision]]
              /\ Goto(t, "open_resume")
              /\ UNCHANGED <<jobDone, lockVars, localVars>>
           \/ /\ approvals[s] # NoApproval
              /\ Return(t)
              /\ UNCHANGED approvals
    /\ UNCHANGED <<runVars, rows, asked, receipts, usage, systemVars>>

(* execute_and_verify: the handle must open (the seal holds and the rows   *)
(* do not drift from the case), held actions must have been decided for    *)
(* these parameters, and something must be left to do.                     *)
McpCall(t) ==
    /\ t \in McpCalls
    /\ pc[t] = "idle" /\ status = "awaiting_approval"
    /\ sealed /\ rows = capsule
    /\ \E s \in Slots :
        /\ rows[s].st \in {"planned", "awaiting", "approved", "executed"}
        /\ Verdict[rows[s].ent] = "HOLD" => approvals[s].ent = rows[s].ent
    /\ Goto(t, "open_resume")
    /\ UNCHANGED <<runVars, tableVars, systemVars, lockVars, localVars>>

(* A mutant: resume takes up any run.                                      *)
ResumeAnything(t) ==
    /\ pc[t] = "open_resume"
    /\ Goto(t, "set_resume")
    /\ UNCHANGED <<runVars, tableVars, systemVars, lockVars, localVars>>

(* Runner.resume reads the status, _status reads it again to check the     *)
(* move, and then writes it: three statements, and no lock.                *)
OpenResume(t) ==
    /\ pc[t] = "open_resume"
    /\ \/ /\ status = "awaiting_approval"
          /\ Goto(t, "check_resume")
          /\ UNCHANGED <<jobDone, lockVars, localVars>>
       \/ /\ status # "awaiting_approval"
          /\ Return(t)
    /\ UNCHANGED <<runVars, rows, approvals, asked, receipts, usage, systemVars>>

CheckResume(t) ==
    /\ pc[t] = "check_resume"
    /\ \/ /\ MayBecome(status, "running")
          /\ Goto(t, IF status = "running" THEN "handoff" ELSE "set_resume")
          /\ UNCHANGED <<jobDone, lockVars, localVars>>
       \/ /\ ~MayBecome(status, "running")
          /\ Raise(t)
    /\ UNCHANGED <<runVars, rows, approvals, asked, receipts, usage, systemVars>>

SetResume(t) ==
    /\ pc[t] = "set_resume"
    /\ status' = "running"
    /\ Goto(t, "handoff")
    /\ UNCHANGED <<capsule, blockers, sealed, tableVars, systemVars, lockVars,
                   localVars>>

(* Outside the engine: the stored capsule is edited in the database.       *)
Tamper ==
    /\ Tampering /\ sealed /\ capsule # EmptyCase
    /\ sealed' = FALSE
    /\ UNCHANGED <<status, capsule, blockers, tableVars, systemVars, lockVars,
                   taskVars>>

-----------------------------------------------------------------------------
RailStep(t) ==
    \/ ContinueRun(t)
    \/ OpenRun(t) \/ SetRun(t) \/ Discover(t) \/ Compile(t) \/ Govern(t) \/ Plan(t)
    \/ OpenResume(t) \/ CheckResume(t) \/ SetResume(t) \/ RecordApproval(t)
    \/ Handoff(t) \/ Halt(t) \/ Approve(t) \/ ExecuteWrite(t) \/ ExecuteSave(t)
    \/ VerifyRead(t) \/ VerifySave(t) \/ Finalize(t)

EnterRail(t) ==
    \/ TicketJob(t) \/ RunJob(t) \/ StartRun(t) \/ PickInRest(t) \/ PickInSlack(t)
    \/ DecideRead(t) \/ McpCall(t)

Next ==
    \/ \E t \in Tasks : RailStep(t) \/ EnterRail(t) \/ Crash(t)
    \/ Tamper

Spec == Init /\ [][Next]_vars

-----------------------------------------------------------------------------
(* Safety                                                                  *)

(* No target is written for an action policy did not allow, unless its     *)
(* approver approved exactly these parameters under exactly this action    *)
(* id; no refused action is ever written.  This must survive stale cards,  *)
(* concurrent passes, and a plan rebuilt with shifted ids after a crash.   *)
WritesAreAuthorised ==
    \A k \in ledger :
        \/ Verdict[k[2]] = "ALLOW"
        \/ /\ Verdict[k[2]] = "HOLD"
           /\ approvals[k[1]] = [ent |-> k[2], decision |-> "approved"]

(* "Succeeded" is not "verified": whatever the case file or the actions    *)
(* table calls verified is in place in the target, though a target may     *)
(* acknowledge a write it never made.                                      *)
VerifiedIsInPlace ==
    \A s \in Slots :
        /\ capsule[s].st = "verified" => InPlace(capsule[s].ent)
        /\ rows[s].st = "verified" => InPlace(rows[s].ent)

(* Nothing executes while a blocker is open: a rule without its policy     *)
(* text, or a held action without a named approver, stops every write of   *)
(* the run, in every pass.                                                 *)
BlockedRunNeverWrites ==
    (PolicyMissing \/ Unresolved # {}) => ledger = {}

(* Exactly once: however often a pass is repeated, resumed or doubled, the *)
(* change an entitlement stands for is carried out at most once.           *)
WrittenAtMostOnce == \A e \in Ents : wrote[e] <= 1

(* A run that waits has asked: for every action it waits for, the approver *)
(* was sent a request that shows this action's parameters.                 *)
WaitingWasAsked ==
    status = "awaiting_approval" =>
        \A s \in Slots :
            capsule[s].st = "awaiting" /\ capsule[s].ent \notin Unresolved
                => asked[s] = capsule[s].ent

Settled == {"awaiting_approval", "partial", "done"}

(* No task holds a case it may still save.                                 *)
Quiet ==
    \A t \in Tasks : pc[t] \in {"idle", "continue", "record", "open_resume",
                                "done", "crashed"}

(* The case file and the actions table are written by the same             *)
(* transactions and tell the same story once a pass has settled.           *)
RowsAgreeWithCase ==
    status \in Settled /\ Quiet =>
        \A s \in Slots : capsule[s] # Absent => rows[s] = capsule[s]

(* A run is "done" only if every action in its case file is verified and   *)
(* nothing blocks it; it does not wait unless an action waits; it is not   *)
(* finished while one does.                                                *)
StatusTellsTheTruth ==
    /\ status = "done" => /\ ~blockers
                          /\ StatesOf(capsule) \subseteq {"absent", "verified"}
    /\ status = "awaiting_approval" => "awaiting" \in StatesOf(capsule)
    /\ status = "partial" =>
          /\ "awaiting" \notin StatesOf(capsule)
          /\ blockers \/ ~(StatesOf(capsule) \subseteq {"absent", "verified"})

(* Whatever interleaves, the case file, the rows and the status agree.     *)
RecordsAgree == RowsAgreeWithCase /\ StatusTellsTheTruth

(* The outcome a settled run shows is the one a receipt was ordered for    *)
(* and, when it is final, the one that was billed.                         *)
BooksMatchOutcome ==
    status \in Settled /\ capsule # EmptyCase =>
        /\ Outcome(capsule, status) \in receipts
        /\ usage = IF status = "awaiting_approval" THEN "none" ELSE status

(* No write goes unreported: when a run is finished its case file says of  *)
(* every write that reached a target whether it was verified.              *)
EveryWriteIsReported ==
    status \in {"partial", "done"} =>
        \A k \in ledger :
            \E s \in Slots : /\ capsule[s].ent = k[2]
                             /\ capsule[s].st \in {"verified", "failed"}

(* Receipts, bill and case file account for all that was done.             *)
OutcomeIsBooked == BooksMatchOutcome /\ EveryWriteIsReported

(* At most one task takes the run through the stages that write.           *)
OnePassAtATime ==
    \A t, u \in Tasks :
        /\ pc[t] \in {"approve", "execute", "verify", "finalize"}
        /\ pc[u] \in {"approve", "execute", "verify", "finalize"}
        => t = u

(* What a step may never do: write to a target while the run waits or is   *)
(* finished, ...                                                           *)
WritesOnlyWhileRunning == [][ledger' # ledger => status = "running"]_vars

(* ... move a run that is finished, ...                                    *)
FinishedStaysFinished == [][(status \in FinishedStatus) => (status' = status)]_vars

(* ... or take back what the actions table calls verified or refused.      *)
VerdictsStayTerminal ==
    [][\A s \in Slots : rows[s].st \in {"verified", "refused"} => rows'[s] = rows[s]]_vars

(* Together: what a run has settled stays settled.                         *)
NothingIsTakenBack == WritesOnlyWhileRunning /\ FinishedStaysFinished /\ VerdictsStayTerminal

(* The detailed rail keeps the promise of module Authority: in every       *)
(* interleaving a target changes only on authority, nobody is asked or     *)
(* decides twice about an action id, and a run is billed once.             *)
Promise == INSTANCE Authority WITH decided <- approvals, billed <- usage

KeepsPromise == Promise!Spec

-----------------------------------------------------------------------------
(* Liveness                                                                *)

(* The worker polls for the job, and a task that has begun goes on until   *)
(* it ends or dies.  Nobody is obliged to click.                           *)
Fairness ==
    /\ \A t \in Tasks : WF_vars(RailStep(t))
    /\ \A t \in TicketJobs : WF_vars(TicketJob(t))
    /\ \A t \in Starts : WF_vars(StartRun(t))

FairSpec == Spec /\ Fairness

(* A run never stays "running" for ever: if the process that works on it   *)
(* dies, the next delivery of the ticket's job takes it to an outcome.     *)
RunSettles == <>[](status \notin {"none", "running"})

(* A decision that was recorded for the action a run waits for is acted    *)
(* upon: the action does not wait for ever.                                *)
DecisionTakesEffect ==
    \A s \in Slots :
        (capsule[s].st = "awaiting" /\ approvals[s].ent = capsule[s].ent)
            ~> ~(capsule[s].st = "awaiting" /\ approvals[s].ent = capsule[s].ent)
=============================================================================
