--------------------------- MODULE JobQueueProofs ---------------------------
(***************************************************************************)
(* The queue's safety for any number of workers, jobs and attempts.        *)
(*                                                                         *)
(* The argument: every start of a handler costs the row an attempt, and no *)
(* report gives one back (StartsArePaid), which bounds the starts and, as  *)
(* a permanent failure uses up what attempts are left, ends them.  If      *)
(* reports are prompt, whoever works at a job is its latest claimer, and   *)
(* the lease is his (WorkIsLeased); so no second worker gets in.           *)
(***************************************************************************)
EXTENDS JobQueue, TLAPS

AtWork(w) == pc[w] \in {"running", "reporting"}

WorkHasClaim == \A w \in Workers : AtWork(w) => job[w] \in queued

StartsArePaid == \A j \in Jobs : starts[j] <= attempts[j]

OutcomeIsKnown ==
    \A w \in Workers :
        pc[w] = "reporting" =>
            outcome[w] \in Outcomes /\ (outcome[w] = "ok" => job[w] \in succeeded)

PermanentIsSpent == \A j \in permanent : attempts[j] = MaxAttempts

WorkIsLeased ==
    \A w \in Workers : AtWork(w) => lease[job[w]] = "held" /\ holder[job[w]] = w

IInv ==
    /\ TypeOK /\ WorkHasClaim /\ StartsArePaid /\ OutcomeIsKnown
    /\ PermanentIsSpent /\ DoneWasDone
    /\ PromptReports => WorkIsLeased

(* An empty table, and workers with nothing to do.                         *)
LEMMA InitInv == Init => IInv
BY JobQueueAssumption DEF Init, IInv, TypeOK, WorkHasClaim, StartsArePaid, OutcomeIsKnown,
   PermanentIsSpent, DoneWasDone, WorkIsLeased, AtWork

(* What happens to the row alone and leaves lease, attempts and workers be *)
(* (enqueue_job, the passing of a retry's delay).                          *)
LEMMA RowKeeps ==
    ASSUME IInv, NEW j \in Jobs, Enqueue(j) \/ RetryIsDue(j)
    PROVE  IInv'
<1>1. /\ queued' \in SUBSET Jobs /\ queued \subseteq queued' /\ due' \in SUBSET Jobs
      /\ UNCHANGED <<done, attempts, lease, lastError, workerVars, historyVars>>
  BY DEF Enqueue, RetryIsDue, IInv, TypeOK
<1> QED
  BY <1>1 DEF IInv, TypeOK, WorkHasClaim, StartsArePaid, OutcomeIsKnown, PermanentIsSpent,
     DoneWasDone, WorkIsLeased, AtWork, workerVars, historyVars

(* A claim of claim_job: nobody is at the job, for its lease is not held.  *)
LEMMA ClaimKeeps ==
    ASSUME IInv, NEW w \in Workers, NEW j \in Jobs, Claim(w, j)
    PROVE  IInv'
<1>1. TypeOK /\ j \in queued /\ attempts[j] + 1 \in 1 .. MaxAttempts
  BY JobQueueAssumption DEF Claim, Ready, HasHandler, IInv, TypeOK
<1>2. TypeOK'
  BY <1>1 DEF Claim, TypeOK
<1>3. WorkHasClaim' /\ OutcomeIsKnown' /\ DoneWasDone'
  BY <1>1 DEF Claim, IInv, TypeOK, WorkHasClaim, OutcomeIsKnown, DoneWasDone, AtWork
<1>4. StartsArePaid'
  BY <1>1 DEF Claim, IInv, TypeOK, StartsArePaid
<1>5. PermanentIsSpent'
  BY <1>1, JobQueueAssumption DEF Claim, Ready, HasHandler, IInv, TypeOK, PermanentIsSpent
<1>6. ASSUME PromptReports PROVE WorkIsLeased'
  <2>1. \A v \in Workers : AtWork(v) => job[v] # j
    BY <1>6 DEF Claim, Ready, HasHandler, IInv, WorkIsLeased
  <2> QED
    BY <1>1, <1>6, <2>1 DEF Claim, IInv, TypeOK, WorkIsLeased, WorkHasClaim, AtWork
<1> QED BY <1>2, <1>3, <1>4, <1>5, <1>6 DEF IInv, Claim

(* A handler's end leaves the row alone.                                   *)
LEMMA HandlerEndsKeeps ==
    ASSUME IInv, NEW w \in Workers, HandlerEnds(w)
    PROVE  IInv'
<1>1. PICK out \in Outcomes :
        /\ pc[w] = "running" /\ pc' = [pc EXCEPT ![w] = "reporting"]
        /\ outcome' = [outcome EXCEPT ![w] = out]
        /\ succeeded' = IF out = "ok" THEN succeeded \cup {job[w]} ELSE succeeded
        /\ UNCHANGED <<rowVars, job, claimed, holder, starts, permanent>>
  BY DEF HandlerEnds
<1>2. job[w] \in Jobs
  BY <1>1 DEF IInv, TypeOK, WorkHasClaim, AtWork
<1>3. TypeOK'
  BY <1>1, <1>2 DEF IInv, TypeOK, rowVars
<1>4. OutcomeIsKnown' /\ DoneWasDone'
  BY <1>1 DEF IInv, TypeOK, OutcomeIsKnown, DoneWasDone, rowVars
<1> QED
  BY <1>1, <1>3, <1>4 DEF IInv, TypeOK, WorkHasClaim, StartsArePaid, PermanentIsSpent,
     WorkIsLeased, AtWork, rowVars

(* A report never gives an attempt back, and marks done only what was.     *)
LEMMA ReportKeeps ==
    ASSUME IInv, NEW w \in Workers, Report(w)
    PROVE  IInv'
<1>1. /\ pc[w] = "reporting" /\ job[w] \in queued /\ job[w] \in Jobs
      /\ pc' = [pc EXCEPT ![w] = "polling"] /\ job' = [job EXCEPT ![w] = Nothing]
      /\ claimed' = [claimed EXCEPT ![w] = 0] /\ outcome' = [outcome EXCEPT ![w] = Nothing]
      /\ lease' = [lease EXCEPT ![job[w]] = "free"]
      /\ UNCHANGED <<queued, holder, starts, succeeded>>
  BY DEF Report, BackToPolling, IInv, TypeOK, WorkHasClaim, AtWork
<1>2. /\ \/ done' = done
         \/ done' = done \cup {job[w]} /\ job[w] \in succeeded
      /\ due' \in SUBSET Jobs /\ lastError' \in [Jobs -> BOOLEAN]
      /\ \/ attempts' = attempts /\ permanent' = permanent
         \/ /\ attempts' = [attempts EXCEPT ![job[w]] = MaxAttempts]
            /\ permanent' = permanent \cup {job[w]}
  BY <1>1 DEF Report, Complete, Fail, GoDead, IInv, TypeOK, OutcomeIsKnown
<1>3. TypeOK'
  <2>1. attempts' \in [Jobs -> 0 .. MaxAttempts] /\ done' \subseteq Jobs /\ permanent' \subseteq Jobs
    BY <1>1, <1>2, JobQueueAssumption DEF IInv, TypeOK
  <2>2. /\ pc' \in [Workers -> {"polling", "running", "reporting", "stopped"}]
        /\ claimed' \in [Workers -> 0 .. MaxAttempts]
        /\ job' \in [Workers -> Jobs \cup {Nothing}]
        /\ outcome' \in [Workers -> Outcomes \cup {Nothing}]
        /\ lease' \in [Jobs -> {"free", "held", "expired"}]
    BY <1>1, JobQueueAssumption DEF IInv, TypeOK
  <2> QED BY <1>1, <1>2, <2>1, <2>2 DEF IInv, TypeOK
<1>4. WorkHasClaim' /\ OutcomeIsKnown' /\ DoneWasDone'
  <2>1. WorkHasClaim'
    BY <1>1 DEF IInv, TypeOK, WorkHasClaim, AtWork
  <2>2. OutcomeIsKnown'
    BY <1>1 DEF IInv, TypeOK, OutcomeIsKnown
  <2>3. DoneWasDone'
    BY <1>1, <1>2 DEF IInv, DoneWasDone
  <2> QED BY <2>1, <2>2, <2>3
<1>5. StartsArePaid'
  BY <1>1, <1>2, JobQueueAssumption DEF IInv, TypeOK, StartsArePaid
<1>6. PermanentIsSpent'
  BY <1>1, <1>2 DEF IInv, TypeOK, PermanentIsSpent
<1>7. ASSUME PromptReports PROVE WorkIsLeased'
  <2>1. \A v \in Workers \ {w} : AtWork(v) => job[v] # job[w]
    BY <1>1, <1>7 DEF IInv, WorkIsLeased, AtWork
  <2> QED BY <1>1, <1>7, <2>1 DEF IInv, TypeOK, WorkIsLeased, WorkHasClaim, AtWork
<1> QED BY <1>3, <1>4, <1>5, <1>6, <1>7 DEF IInv

(* A worker that is gone, or back, holds nothing (Worker.run, stop).       *)
LEMMA AwayKeeps ==
    ASSUME IInv, NEW w \in Workers,
           ReportIsLost(w) \/ Crash(w) \/ Stop(w) \/ Restart(w)
    PROVE  IInv'
<1>1. /\ pc' \in [Workers -> {"polling", "running", "reporting", "stopped"}]
      /\ job' \in [Workers -> Jobs \cup {Nothing}]
      /\ claimed' \in [Workers -> 0 .. MaxAttempts]
      /\ outcome' \in [Workers -> Outcomes \cup {Nothing}]
      /\ ~AtWork(w)'
      /\ \A v \in Workers \ {w} : /\ pc'[v] = pc[v] /\ job'[v] = job[v]
                                  /\ outcome'[v] = outcome[v]
      /\ UNCHANGED <<rowVars, historyVars>>
  BY JobQueueAssumption DEF ReportIsLost, Crash, Stop, Restart, BackToPolling, IInv, TypeOK, AtWork
<1>2. TypeOK'
  BY <1>1 DEF IInv, TypeOK, rowVars, historyVars
<1> QED
  BY <1>1, <1>2 DEF IInv, WorkHasClaim, StartsArePaid, OutcomeIsKnown, PermanentIsSpent,
     DoneWasDone, WorkIsLeased, AtWork, rowVars, historyVars

(* A lease that runs out is nobody's who is still at work.                 *)
LEMMA LeaseRunsOutKeeps ==
    ASSUME IInv, NEW j \in Jobs, LeaseRunsOut(j)
    PROVE  IInv'
<1>1. /\ ~InTime(j) /\ lease' = [lease EXCEPT ![j] = "expired"]
      /\ UNCHANGED <<queued, done, due, attempts, lastError, workerVars, historyVars>>
  BY DEF LeaseRunsOut
<1>2. TypeOK'
  BY <1>1 DEF IInv, TypeOK, workerVars, historyVars
<1>3. ASSUME PromptReports PROVE WorkIsLeased'
  <2>1. \A w \in Workers : AtWork(w) => job[w] # j
    BY <1>1, <1>3 DEF IInv, WorkIsLeased, InTime, AtWork
  <2> QED
    BY <1>1, <1>3, <2>1 DEF IInv, TypeOK, WorkIsLeased, AtWork, workerVars, historyVars
<1> QED
  BY <1>1, <1>2, <1>3 DEF IInv, WorkHasClaim, StartsArePaid, OutcomeIsKnown, PermanentIsSpent,
     DoneWasDone, AtWork, workerVars, historyVars

(* Every step of the queue keeps the invariant.                            *)
LEMMA NextKeeps == IInv /\ [Next]_vars => IInv'
<1> SUFFICES ASSUME IInv, [Next]_vars PROVE IInv'
  OBVIOUS
<1>1. CASE UNCHANGED vars
  BY <1>1 DEF IInv, TypeOK, WorkHasClaim, StartsArePaid, OutcomeIsKnown, PermanentIsSpent,
     DoneWasDone, WorkIsLeased, AtWork, vars, rowVars, workerVars, historyVars
<1>2. CASE \E j \in Jobs : Enqueue(j) \/ LeaseRunsOut(j) \/ RetryIsDue(j)
  BY <1>2, RowKeeps, LeaseRunsOutKeeps
<1>3. CASE \E w \in Workers : WorkerStep(w) \/ ReportIsLost(w) \/ Crash(w) \/ Stop(w)
  BY <1>3, ClaimKeeps, HandlerEndsKeeps, ReportKeeps, AwayKeeps DEF WorkerStep
<1> QED BY <1>1, <1>2, <1>3 DEF Next

(* The inductive invariant of jobs.py's workers and their table.           *)
THEOREM Invariant == Spec => []IInv
BY InitInv, NextKeeps, PTL DEF Spec

(* However workers die and leases run out, claim_job starts a handler of a *)
(* job max_attempts times at most.                                         *)
THEOREM BoundedStarts == Spec => []StartsAreBounded
<1>1. IInv => StartsAreBounded
  BY JobQueueAssumption DEF IInv, TypeOK, StartsArePaid, StartsAreBounded
<1> QED BY <1>1, Invariant, PTL

(* complete_job is reached only by way of a handler that returned.         *)
THEOREM OnlyDoneIsDone == Spec => []DoneWasDone
<1>1. IInv => DoneWasDone
  BY DEF IInv
<1> QED BY <1>1, Invariant, PTL

(* If every report gets through before its lease ends, no two workers are  *)
(* in one job's handler: the promise of the head of jobs.py, with the      *)
(* assumption it needs.                                                    *)
THEOREM PromptMeansAlone == Spec => [](PromptReports => OneWorkerPerJob)
<1>1. IInv => (PromptReports => OneWorkerPerJob)
  BY DEF IInv, WorkIsLeased, OneWorkerPerJob, AtWork
<1> QED BY <1>1, Invariant, PTL

(* A job that a handler said to be beyond retry (PermanentJobError) is     *)
(* never started again, whoever reports on it later.                       *)
THEOREM DeadIsDead == Spec => DeadStaysDead
<1>1. ASSUME IInv, [Next]_vars PROVE [\A j \in permanent : starts'[j] = starts[j]]_vars
  <2>1. ASSUME NEW w \in Workers, NEW j \in Jobs, Claim(w, j)
        PROVE  \A i \in permanent : starts'[i] = starts[i]
    BY <1>1, <2>1, JobQueueAssumption DEF Claim, Ready, HasHandler, IInv, TypeOK, PermanentIsSpent
  <2>2. CASE \E w \in Workers, j \in Jobs : Claim(w, j)
    BY <2>1, <2>2
  <2>3. CASE ~\E w \in Workers, j \in Jobs : Claim(w, j)
    BY <1>1, <2>3 DEF Next, WorkerStep, Enqueue, LeaseRunsOut, RetryIsDue, HandlerEnds, Report,
       Restart, ReportIsLost, Crash, Stop, vars, historyVars
  <2> QED BY <2>2, <2>3
<1> QED BY <1>1, Invariant, PTL DEF Spec, DeadStaysDead
=============================================================================
