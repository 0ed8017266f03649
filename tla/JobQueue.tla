------------------------------ MODULE JobQueue ------------------------------
(***************************************************************************)
(* The jobs table and the workers that poll it (jobs.py; the job queries   *)
(* of repo.py).  A worker claims a ready job with a lease, runs its        *)
(* handler, and reports to the row what came of it; a worker that dies     *)
(* reports nothing, and the lease runs out.                                *)
(*                                                                         *)
(* Time is abstract.  A retry's delay passes at some moment (RetryIsDue).  *)
(* A handler is cancelled before its lease ends, so a lease runs out only  *)
(* once the handler of the latest claim has ended; whether it may run out  *)
(* before that worker's report reaches the row is PromptReports: the       *)
(* report is one statement with a tenth of the lease, or more, to get      *)
(* through, and nothing in it asks whose lease it is.                      *)
(***************************************************************************)
EXTENDS Naturals, FiniteSets

CONSTANTS
    Jobs,          \* by their dedupe keys
    Workers,
    MaxAttempts,
    Mortal,        \* the workers that may die
    PromptReports, \* TRUE: a report always gets through before the lease ends
    Usage,         \* the jobs of kind dodo.usage
    Nothing           \* no worker, no job, no outcome

ASSUME JobQueueAssumption ==
    /\ MaxAttempts \in Nat \ {0}
    /\ Mortal \subseteq Workers
    /\ PromptReports \in BOOLEAN
    /\ Usage \subseteq Jobs
    /\ Nothing \notin Workers \cup Jobs

VARIABLES
    queued, done, due,    \* the jobs enqueued, done, and with run_at in the past
    attempts,             \* how often a job was claimed
    lease,                \* "free", "held", "expired"
    lastError,            \* whether the row names an error
    pc, job, claimed, outcome,  \* each worker's place, job, claim number, handler's outcome
    holder, starts, succeeded, permanent  \* history: the latest claimer, handler starts,
                                \* jobs some handler finished, jobs reported to be beyond retry

rowVars == <<queued, done, due, attempts, lease, lastError>>
workerVars == <<pc, job, claimed, outcome>>
historyVars == <<holder, starts, succeeded, permanent>>
vars == <<rowVars, workerVars, historyVars>>

Outcomes == {"ok", "error", "permanent"}

TypeOK ==
    /\ queued \subseteq Jobs /\ done \subseteq Jobs /\ due \subseteq Jobs
    /\ attempts \in [Jobs -> 0 .. MaxAttempts]
    /\ lease \in [Jobs -> {"free", "held", "expired"}]
    /\ lastError \in [Jobs -> BOOLEAN]
    /\ pc \in [Workers -> {"polling", "running", "reporting", "stopped"}]
    /\ job \in [Workers -> Jobs \cup {Nothing}]
    /\ claimed \in [Workers -> 0 .. MaxAttempts]
    /\ outcome \in [Workers -> Outcomes \cup {Nothing}]
    /\ holder \in [Jobs -> Workers \cup {Nothing}]
    /\ starts \in [Jobs -> Nat]
    /\ succeeded \subseteq Jobs /\ permanent \subseteq Jobs

Init ==
    /\ queued = {} /\ done = {} /\ due = {}
    /\ attempts = [j \in Jobs |-> 0]
    /\ lease = [j \in Jobs |-> "free"]
    /\ lastError = [j \in Jobs |-> FALSE]
    /\ pc = [w \in Workers |-> "polling"]
    /\ job = [w \in Workers |-> Nothing]
    /\ claimed = [w \in Workers |-> 0]
    /\ outcome = [w \in Workers |-> Nothing]
    /\ holder = [j \in Jobs |-> Nothing]
    /\ starts = [j \in Jobs |-> 0]
    /\ succeeded = {} /\ permanent = {}

-----------------------------------------------------------------------------
(* enqueue_job: a key that was ever enqueued is enqueued no second time.   *)
Enqueue(j) ==
    /\ j \notin queued
    /\ queued' = queued \cup {j}
    /\ due' = due \cup {j}
    /\ UNCHANGED <<done, attempts, lease, lastError, workerVars, historyVars>>

(* A worker asks for the kinds that the modules of HANDLER_MODULES         *)
(* register; none of them registers dodo.usage.                            *)
HasHandler(j) == j \notin Usage

(* A mutant: a lease is for ever.                                          *)
ReadyIfFree(j) ==
    /\ j \in queued \ done /\ j \in due /\ HasHandler(j)
    /\ lease[j] = "free"
    /\ attempts[j] < MaxAttempts

(* A mutant: the lease is not looked at.                                   *)
ReadyThoughHeld(j) ==
    /\ j \in queued \ done /\ j \in due /\ HasHandler(j)
    /\ attempts[j] < MaxAttempts

(* A mutant: one claim too many.                                           *)
ReadyOnceMore(j) ==
    /\ j \in queued \ done /\ j \in due /\ HasHandler(j)
    /\ lease[j] # "held"
    /\ attempts[j] <= MaxAttempts

(* The condition of claim_job.                                             *)
Ready(j) ==
    /\ j \in queued \ done /\ j \in due /\ HasHandler(j)
    /\ lease[j] # "held"
    /\ attempts[j] < MaxAttempts

(* claim_job: one statement; a row another claim holds is skipped.         *)
Claim(w, j) ==
    /\ pc[w] = "polling" /\ Ready(j)
    /\ lease' = [lease EXCEPT ![j] = "held"]
    /\ attempts' = [attempts EXCEPT ![j] = @ + 1]
    /\ pc' = [pc EXCEPT ![w] = "running"]
    /\ job' = [job EXCEPT ![w] = j]
    /\ claimed' = [claimed EXCEPT ![w] = attempts[j] + 1]
    /\ holder' = [holder EXCEPT ![j] = w]
    /\ starts' = [starts EXCEPT ![j] = @ + 1]
    /\ UNCHANGED <<queued, done, due, lastError, outcome, succeeded, permanent>>

(* The handler returns, raises (or is cancelled at its timeout), or says   *)
(* that no retry can help.                                                 *)
HandlerEnds(w) ==
    /\ pc[w] = "running"
    /\ \E out \in Outcomes :
        /\ outcome' = [outcome EXCEPT ![w] = out]
        /\ succeeded' = IF out = "ok" THEN succeeded \cup {job[w]} ELSE succeeded
    /\ pc' = [pc EXCEPT ![w] = "reporting"]
    /\ UNCHANGED <<rowVars, job, claimed, holder, starts, permanent>>

BackToPolling(w) ==
    /\ pc' = [pc EXCEPT ![w] = "polling"]
    /\ job' = [job EXCEPT ![w] = Nothing]
    /\ claimed' = [claimed EXCEPT ![w] = 0]
    /\ outcome' = [outcome EXCEPT ![w] = Nothing]

(* A mutant: a permanent failure is retried as any other.                  *)
RetryPermanent(w) ==
    /\ lastError' = [lastError EXCEPT ![job[w]] = TRUE]
    /\ due' = due \ {job[w]}
    /\ UNCHANGED <<done, attempts>>

(* PermanentJobError: the job goes dead at once.                           *)
GoDead(w) ==
    /\ attempts' = [attempts EXCEPT ![job[w]] = MaxAttempts]
    /\ lastError' = [lastError EXCEPT ![job[w]] = TRUE]
    /\ UNCHANGED <<done, due>>

(* A mutant: a failed attempt completes the job.                           *)
CompleteFailed(w) ==
    /\ done' = done \cup {job[w]}
    /\ lastError' = [lastError EXCEPT ![job[w]] = TRUE]
    /\ UNCHANGED <<due, attempts>>

(* fail_job: to be retried after a delay; at once, and so never, if this   *)
(* was the last attempt.                                                   *)
Fail(w) ==
    /\ lastError' = [lastError EXCEPT ![job[w]] = TRUE]
    /\ due' = IF claimed[w] >= MaxAttempts THEN due \cup {job[w]} ELSE due \ {job[w]}
    /\ UNCHANGED <<done, attempts>>

(* complete_job.                                                           *)
Complete(w) ==
    /\ done' = done \cup {job[w]}
    /\ lastError' = [lastError EXCEPT ![job[w]] = FALSE]
    /\ UNCHANGED <<due, attempts>>

(* The end of Worker._run: the row is written, whoever holds it by now.    *)
Report(w) ==
    /\ pc[w] = "reporting"
    /\ \/ outcome[w] = "ok" /\ Complete(w)
       \/ outcome[w] = "error" /\ Fail(w)
       \/ outcome[w] = "permanent" /\ GoDead(w)
    /\ lease' = [lease EXCEPT ![job[w]] = "free"]
    /\ permanent' = IF outcome[w] = "permanent" THEN permanent \cup {job[w]} ELSE permanent
    /\ BackToPolling(w)
    /\ UNCHANGED <<queued, holder, starts, succeeded>>

(* The database does not answer: Worker.run backs off and polls again.     *)
ReportIsLost(w) ==
    /\ pc[w] = "reporting" /\ w \in Mortal
    /\ BackToPolling(w)
    /\ UNCHANGED <<rowVars, historyVars>>

(* The process dies, and another is started in its place.                  *)
Crash(w) ==
    /\ pc[w] = "running" /\ w \in Mortal
    /\ BackToPolling(w)
    /\ UNCHANGED <<rowVars, historyVars>>

(* stop(): the current job finishes first.                                 *)
Stop(w) ==
    /\ pc[w] = "polling" /\ w \in Mortal
    /\ pc' = [pc EXCEPT ![w] = "stopped"]
    /\ UNCHANGED <<rowVars, job, claimed, outcome, historyVars>>

Restart(w) ==
    /\ pc[w] = "stopped"
    /\ pc' = [pc EXCEPT ![w] = "polling"]
    /\ UNCHANGED <<rowVars, job, claimed, outcome, historyVars>>

(* The worker of the latest claim is still at work within its lease.       *)
InTime(j) ==
    \E w \in Workers :
        /\ w = holder[j] /\ job[w] = j
        /\ pc[w] \in (IF PromptReports THEN {"running", "reporting"} ELSE {"running"})

LeaseRunsOut(j) ==
    /\ lease[j] = "held" /\ ~InTime(j)
    /\ lease' = [lease EXCEPT ![j] = "expired"]
    /\ UNCHANGED <<queued, done, due, attempts, lastError, workerVars, historyVars>>

RetryIsDue(j) ==
    /\ j \in queued \ due
    /\ due' = due \cup {j}
    /\ UNCHANGED <<queued, done, attempts, lease, lastError, workerVars, historyVars>>

WorkerStep(w) ==
    \/ \E j \in Jobs : Claim(w, j)
    \/ HandlerEnds(w) \/ Report(w) \/ Restart(w)

Next ==
    \/ \E j \in Jobs : Enqueue(j) \/ LeaseRunsOut(j) \/ RetryIsDue(j)
    \/ \E w \in Workers : WorkerStep(w) \/ ReportIsLost(w) \/ Crash(w) \/ Stop(w)

Spec == Init /\ [][Next]_vars

(* A worker that is left alone polls and works on; time passes.            *)
FairSpec ==
    /\ Spec
    /\ \A w \in Workers : WF_vars(WorkerStep(w))
    /\ \A j \in Jobs : WF_vars(LeaseRunsOut(j)) /\ WF_vars(RetryIsDue(j))

-----------------------------------------------------------------------------
(* "Two workers never run one job": at most one worker is in a job's       *)
(* handler at a time.                                                      *)
OneWorkerPerJob ==
    \A v, w \in Workers :
        pc[v] = "running" /\ pc[w] = "running" /\ job[v] = job[w] => v = w

(* A handler is started at most max_attempts times for a job, however its  *)
(* workers die and its leases run out.                                     *)
StartsAreBounded == \A j \in Jobs : starts[j] <= MaxAttempts

(* At least once: a job is done only if a handler finished it.             *)
DoneWasDone == done \subseteq succeeded

(* Where a report said that no retry can help, no handler of the job is    *)
(* started again.                                                          *)
DeadStaysDead == [][\A j \in permanent : starts'[j] = starts[j]]_vars

(* A job out of attempts that no worker is at.                             *)
Dead(j) ==
    /\ j \in queued \ done /\ attempts[j] = MaxAttempts
    /\ \A w \in Workers : job[w] # j

(* Every job that is enqueued comes to be done or dead, and stays so: no   *)
(* crash and no lost report leaves it claimed for ever.                    *)
JobsEnd == <>[](\A j \in queued : j \in done \/ Dead(j))

(* "Every completed run is billed once: Finalize enqueues one dodo.usage   *)
(* job per run, and the job sends one Dodo usage event": a handler of the  *)
(* job is started.                                                         *)
UsageIsSent == \A j \in Usage : (j \in queued) ~> (starts[j] > 0)
=============================================================================
