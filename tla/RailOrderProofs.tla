-------------------------- MODULE RailOrderProofs ---------------------------
(***************************************************************************)
(* What the passes of one run may rely on, proved for every request, any   *)
(* number of tasks and of crashes.                                         *)
(*                                                                         *)
(* Two layers.  OrderInv: where the tasks can be, what locks they hold and *)
(* what the status is meanwhile; from it, that plans follow each other.    *)
(* The invariants of the plan: what the copies of the case, the rows and   *)
(* the targets have in common while plans follow each other, though passes *)
(* may overlap.  Each layer has one lemma for the steps that touch nothing *)
(* of what it speaks of, and one for each of the others.                   *)
(***************************************************************************)
EXTENDS RailOrder, RailProofs

(* A task is of one kind: one delivery of a job, one request, one click.   *)
LEMMA KindsApart ==
    /\ TicketJobs \cap (RunJobs \cup Starts \cup RestPicks \cup SlackPicks \cup Resumers) = {}
    /\ Starts \cap (RestPicks \cup SlackPicks \cup Resumers) = {}
    /\ RestPicks \cap (SlackPicks \cup Resumers) = {}
<1>1. DOMAIN Kinds = 1 .. 7
  BY DEF Kinds
<1>2. /\ Kinds[1] = TicketJobs /\ Kinds[2] = RunJobs /\ Kinds[3] = Starts
      /\ Kinds[4] = RestPicks /\ Kinds[5] = SlackPicks /\ Kinds[6] = Deciders
      /\ Kinds[7] = McpCalls
  BY DEF Kinds
<1>3. \A i, j \in 1 .. 7 : i # j => Kinds[i] \cap Kinds[j] = {}
  BY <1>1, RailAssumption
<1>4. \A j \in 2 .. 7 : TicketJobs \cap Kinds[j] = {}
  BY <1>2, <1>3
<1>5. \A j \in 4 .. 7 : Starts \cap Kinds[j] = {}
  BY <1>2, <1>3
<1>6. \A j \in 5 .. 7 : RestPicks \cap Kinds[j] = {}
  BY <1>2, <1>3
<1> HIDE DEF Kinds
<1> QED BY <1>2, <1>4, <1>5, <1>6 DEF Resumers

-----------------------------------------------------------------------------
(* The order of the passes.  In this section the definitions of the        *)
(* control are open.                                                       *)

USE DEF TypeOK, RunTypeOK, LockTypeOK, TaskTypeOK, Tasks, Jobs, PCs, LatePCs,
       OrderlyPlans, Planners, Resumers, AskingPCs, PlanPCs, ResumePCs, PassPCs, OverPCs,
       Planning, Resuming, JobsOver, KindInv, HoldInv, OneByOne, OrderInv

(* A task that ends gives up its place, its locks and no other's.          *)
LEMMA EndKeepsOrder ==
    ASSUME TypeOK, OrderlyPlans, OrderInv, NEW t \in Tasks,
           NEW label \in {"done", "crashed"}, Leave(t, label), pc[t] \notin {"done", "crashed"},
           jobDone' = jobDone \/ jobDone' = (jobDone \/ t \in Jobs),
           t \in TicketJobs /\ pc[t] = "idle" => Free(ticketLock),
           \/ status' = status
           \/ /\ Planning(t) \/ Resuming(t)
              /\ status' \in RunStatus \ {"running"}
              /\ t \in TicketJobs => jobDone'
              /\ Resuming(t) => status' # "needs_input"
    PROVE  OrderInv'
<1> USE KindsApart, RailAssumption
<1>1. /\ pc' = [pc EXCEPT ![t] = label]
      /\ ticketLock' = Released(ticketLock, t) /\ runLock' = Released(runLock, t)
  BY DEF Leave, Goto
<1>2. JobsOver => JobsOver'
  OBVIOUS
<1>3. (status \notin {"none", "running"} => JobsOver)'
  <2>1. status' = status \/ Planning(t) \/ Resuming(t)
    OBVIOUS
  <2>2. Resuming(t) => JobsOver
    BY DEF HoldInv
  <2>3. Planning(t) => TicketJobs = {} \/ JobsOver \/ t \in TicketJobs
    OBVIOUS
  <2> QED BY <1>2, <2>1, <2>2, <2>3
<1>4. \A u \in Tasks : KindInv(u)'
  BY <1>1
<1>5. ASSUME NEW u \in Tasks, u # t PROVE HoldInv(u)'
  <2>1. pc'[u] = pc[u] /\ KindInv(u) /\ HoldInv(u)
    BY <1>1, <1>5
  <2>2. ASSUME u \in TicketJobs, pc[u] \notin OverPCs
        PROVE  ticketLock' = u /\ ~jobDone'
    <3>1. ticketLock = u /\ ~jobDone /\ u # NoTask
      BY <2>1, <2>2
    <3>2. t \notin TicketJobs
      BY <1>5, <3>1 DEF Free
    <3>3. ~jobDone'
      BY <3>1, <3>2
    <3>4. ticketLock' = u
      BY <1>1, <1>5, <3>1 DEF Released
    <3> QED BY <3>3, <3>4
  <2>3. u \in RestPicks /\ pc[u] \notin OverPCs => runLock' = u
    BY <1>1, <1>5, <2>1 DEF Released
  <2>4. Planning(u) => status' = status
    BY <1>5
  <2>5. Resuming(u) => status' \notin {"none", "needs_input"}
    BY <1>5 DEF RunStatus
  <2> QED BY <1>2, <2>1, <2>2, <2>3, <2>4, <2>5
<1>6. HoldInv(t)'
  BY <1>1
<1>7. OneByOne'
  BY <1>1
<1> QED BY <1>3, <1>4, <1>5, <1>6, <1>7

(* A task that goes on within its plan or its pass.                        *)
LEMMA StayKeepsOrder ==
    ASSUME TypeOK, OrderlyPlans, OrderInv, NEW t \in Tasks,
           pc[t] \in (PlanPCs \ AskingPCs) \cup PassPCs,
           NEW label \in (PlanPCs \ AskingPCs) \cup PassPCs,
           pc[t] \in PassPCs => label \in PassPCs,
           pc' = [pc EXCEPT ![t] = label], UNCHANGED <<status, jobDone, lockVars>>
    PROVE  OrderInv'
<1> USE KindsApart, RailAssumption
<1>1. ticketLock' = ticketLock /\ runLock' = runLock
  BY DEF lockVars
<1>2. \A u \in Tasks : KindInv(u)' /\ HoldInv(u)'
  BY <1>1
<1>3. OneByOne'
  OBVIOUS
<1> QED BY <1>2, <1>3

(* The ticket's lock: a delivery enters when no other is inside.           *)
LEMMA TicketJobOrder ==
    ASSUME TypeOK, OrderlyPlans, OrderInv, NEW t \in Tasks, TicketJob(t), ~Leave(t, "done")
    PROVE  OrderInv'
<1> USE KindsApart, RailAssumption DEF TicketJob, Return, Leave, Goto, Free, lockVars
<1>1. (status \notin {"none", "running"} => JobsOver)' /\ OneByOne'
  OBVIOUS
<1>2. \A u \in Tasks : KindInv(u)'
  OBVIOUS
<1>3. HoldInv(t)'
  OBVIOUS
<1>4. ASSUME NEW u \in Tasks, u # t PROVE HoldInv(u)'
  BY <1>4
<1> QED BY <1>1, <1>2, <1>3, <1>4

(* continue_run: a repeated delivery finds the run in nobody's hands.      *)
LEMMA ContinueRunOrder ==
    ASSUME TypeOK, OrderlyPlans, OrderInv, NEW t \in Tasks, ContinueRun(t), ~Leave(t, "done")
    PROVE  OrderInv'
<1> USE KindsApart, RailAssumption
<1>1. t \in TicketJobs /\ ticketLock = t /\ ~jobDone /\ ~JobsOver
  BY DEF ContinueRun
<1>2. status \in {"none", "running"}
  BY <1>1
<1>3. /\ status = "running" /\ pc' = [pc EXCEPT ![t] = "open_run"] /\ runLock' = t
      /\ UNCHANGED <<status, jobDone, ticketLock>>
  BY <1>2 DEF ContinueRun, Return, Goto, runVars
<1>4. (status \notin {"none", "running"} => JobsOver)' /\ OneByOne'
  BY <1>1, <1>3
<1>5. \A u \in Tasks : KindInv(u)'
  BY <1>1, <1>3
<1>6. HoldInv(t)'
  BY <1>1, <1>3
<1>7. ASSUME NEW u \in Tasks, u # t PROVE HoldInv(u)'
  BY <1>1, <1>3, <1>7
<1> QED BY <1>4, <1>5, <1>6, <1>7

(* Door.start_run begins a run that nobody works on yet.                   *)
LEMMA StartRunOrder ==
    ASSUME TypeOK, OrderlyPlans, OrderInv, NEW t \in Tasks, StartRun(t), ~Leave(t, "done")
    PROVE  OrderInv'
<1> USE KindsApart, RailAssumption DEF StartRun, Goto, lockVars, tableVars, jobVars
<1>1. (status \notin {"none", "running"} => JobsOver)' /\ OneByOne'
  OBVIOUS
<1>2. \A u \in Tasks : KindInv(u)'
  OBVIOUS
<1>3. HoldInv(t)'
  OBVIOUS
<1>4. ASSUME NEW u \in Tasks, u # t PROVE HoldInv(u)'
  BY <1>4
<1> QED BY <1>1, <1>2, <1>3, <1>4

(* POST /runs/{id}/pick enters under the run's lock.                       *)
LEMMA PickInRestOrder ==
    ASSUME TypeOK, OrderlyPlans, OrderInv, NEW t \in Tasks, PickInRest(t), ~Leave(t, "done")
    PROVE  OrderInv'
<1> USE KindsApart, RailAssumption DEF PickInRest, Goto, Free, tableVars, jobVars, runVars
<1>1. (status \notin {"none", "running"} => JobsOver)' /\ OneByOne'
  OBVIOUS
<1>2. \A u \in Tasks : KindInv(u)'
  OBVIOUS
<1>3. HoldInv(t)'
  OBVIOUS
<1>4. ASSUME NEW u \in Tasks, u # t PROVE HoldInv(u)'
  BY <1>4
<1> QED BY <1>1, <1>2, <1>3, <1>4

(* The check at the head of Runner.run.                                    *)
LEMMA OpenRunOrder ==
    ASSUME TypeOK, OrderlyPlans, OrderInv, NEW t \in Tasks, OpenRun(t), ~Leave(t, "done")
    PROVE  OrderInv'
<1> USE KindsApart, RailAssumption DEF OpenRun, Raise, Goto, lockVars, runVars
<1>1. (status \notin {"none", "running"} => JobsOver)' /\ OneByOne'
  OBVIOUS
<1>2. \A u \in Tasks : KindInv(u)'
  OBVIOUS
<1>3. HoldInv(t)'
  OBVIOUS
<1>4. ASSUME NEW u \in Tasks, u # t PROVE HoldInv(u)'
  BY <1>4
<1> QED BY <1>1, <1>2, <1>3, <1>4

(* An answered question sets the run running.                              *)
LEMMA SetRunOrder ==
    ASSUME TypeOK, OrderlyPlans, OrderInv, NEW t \in Tasks, SetRun(t), ~Leave(t, "done")
    PROVE  OrderInv'
<1> USE KindsApart, RailAssumption DEF SetRun, Raise, Goto, lockVars, MayBecome, RunTransitions
<1>1. (status \notin {"none", "running"} => JobsOver)' /\ OneByOne'
  OBVIOUS
<1>2. \A u \in Tasks : KindInv(u)'
  OBVIOUS
<1>3. HoldInv(t)'
  OBVIOUS
<1>4. ASSUME NEW u \in Tasks, u # t PROVE HoldInv(u)'
  BY <1>4
<1> QED BY <1>1, <1>2, <1>3, <1>4

(* A click changes nothing yet.                                            *)
LEMMA DecideReadOrder ==
    ASSUME TypeOK, OrderlyPlans, OrderInv, NEW t \in Tasks, DecideRead(t), ~Leave(t, "done")
    PROVE  OrderInv'
<1> USE KindsApart, RailAssumption DEF DecideRead, Goto, lockVars, tableVars, jobVars, runVars
<1>1. (status \notin {"none", "running"} => JobsOver)' /\ OneByOne'
  OBVIOUS
<1>2. \A u \in Tasks : KindInv(u)'
  OBVIOUS
<1>3. HoldInv(t)'
  OBVIOUS
<1>4. ASSUME NEW u \in Tasks, u # t PROVE HoldInv(u)'
  BY <1>4
<1> QED BY <1>1, <1>2, <1>3, <1>4

(* A decision on record changes nothing of the run yet.                    *)
LEMMA RecordApprovalOrder ==
    ASSUME TypeOK, OrderlyPlans, OrderInv, NEW t \in Tasks, RecordApproval(t), ~Leave(t, "done")
    PROVE  OrderInv'
<1> USE KindsApart, RailAssumption DEF RecordApproval, Return, Goto, lockVars, runVars
<1>1. (status \notin {"none", "running"} => JobsOver)' /\ OneByOne'
  OBVIOUS
<1>2. \A u \in Tasks : KindInv(u)'
  OBVIOUS
<1>3. HoldInv(t)'
  OBVIOUS
<1>4. ASSUME NEW u \in Tasks, u # t PROVE HoldInv(u)'
  BY <1>4
<1> QED BY <1>1, <1>2, <1>3, <1>4

(* A handle that opens changes nothing yet.                                *)
LEMMA McpCallOrder ==
    ASSUME TypeOK, OrderlyPlans, OrderInv, NEW t \in Tasks, McpCall(t), ~Leave(t, "done")
    PROVE  OrderInv'
<1> USE KindsApart, RailAssumption DEF McpCall, Goto, lockVars, tableVars, jobVars, runVars
<1>1. (status \notin {"none", "running"} => JobsOver)' /\ OneByOne'
  OBVIOUS
<1>2. \A u \in Tasks : KindInv(u)'
  OBVIOUS
<1>3. HoldInv(t)'
  OBVIOUS
<1>4. ASSUME NEW u \in Tasks, u # t PROVE HoldInv(u)'
  BY <1>4
<1> QED BY <1>1, <1>2, <1>3, <1>4

(* A run that waits is not being planned.                                  *)
LEMMA OpenResumeOrder ==
    ASSUME TypeOK, OrderlyPlans, OrderInv, NEW t \in Tasks, OpenResume(t), ~Leave(t, "done")
    PROVE  OrderInv'
<1> USE KindsApart, RailAssumption DEF OpenResume, Return, Goto, lockVars, runVars
<1>1. (status \notin {"none", "running"} => JobsOver)' /\ OneByOne'
  OBVIOUS
<1>2. \A u \in Tasks : KindInv(u)'
  OBVIOUS
<1>3. HoldInv(t)'
  OBVIOUS
<1>4. ASSUME NEW u \in Tasks, u # t PROVE HoldInv(u)'
  BY <1>4
<1> QED BY <1>1, <1>2, <1>3, <1>4

(* _status checks the move.                                                *)
LEMMA CheckResumeOrder ==
    ASSUME TypeOK, OrderlyPlans, OrderInv, NEW t \in Tasks, CheckResume(t), ~Leave(t, "done")
    PROVE  OrderInv'
<1> USE KindsApart, RailAssumption DEF CheckResume, Raise, Goto, lockVars, runVars
<1>1. /\ pc' \in {[pc EXCEPT ![t] = "handoff"], [pc EXCEPT ![t] = "set_resume"]}
      /\ status' = status /\ jobDone' = jobDone /\ pc[t] = "check_resume" /\ t \in Resumers
  OBVIOUS
<1>2. ASSUME NEW u \in Tasks
      PROVE  (Planning(u)' <=> Planning(u)) /\ (Resuming(u)' => Resuming(u))
  BY <1>1
<1>3. (status \notin {"none", "running"} => JobsOver)' /\ OneByOne'
  BY <1>1, <1>2
<1>4. \A u \in Tasks : KindInv(u)'
  <2>1. KindInv(t)'
    BY <1>1
  <2>2. ASSUME NEW u \in Tasks, u # t PROVE KindInv(u)'
    BY <1>1, <2>2
  <2> QED BY <2>1, <2>2
<1>5. HoldInv(t)'
  OBVIOUS
<1>6. ASSUME NEW u \in Tasks, u # t PROVE HoldInv(u)'
  BY <1>6
<1> QED BY <1>3, <1>4, <1>5, <1>6

(* _status writes running.                                                 *)
LEMMA SetResumeOrder ==
    ASSUME TypeOK, OrderlyPlans, OrderInv, NEW t \in Tasks, SetResume(t), ~Leave(t, "done")
    PROVE  OrderInv'
<1> USE KindsApart, RailAssumption DEF SetResume, Goto, lockVars, tableVars, jobVars
<1>1. (status \notin {"none", "running"} => JobsOver)' /\ OneByOne'
  OBVIOUS
<1>2. \A u \in Tasks : KindInv(u)'
  OBVIOUS
<1>3. HoldInv(t)'
  OBVIOUS
<1>4. ASSUME NEW u \in Tasks, u # t PROVE HoldInv(u)'
  BY <1>4
<1> QED BY <1>1, <1>2, <1>3, <1>4

(* Who is where: nobody else comes to the steps of a plan or of a pass.    *)
LEMMA PlaceTells ==
    ASSUME OrderlyPlans, OrderInv, NEW t \in Tasks
    PROVE  /\ pc[t] \in PlanPCs => Planning(t)
           /\ pc[t] \in PassPCs => Planning(t) \/ Resuming(t)
           /\ pc[t] \in ResumePCs => Resuming(t)
OBVIOUS

HIDE DEF TypeOK, RunTypeOK, LockTypeOK, TaskTypeOK, Tasks, Jobs, PCs, LatePCs,
       OrderlyPlans, Planners, Resumers, AskingPCs, PlanPCs, ResumePCs, PassPCs, OverPCs,
       Planning, Resuming, JobsOver, KindInv, HoldInv, OneByOne, OrderInv

(* A handler that returns or raises, and a process that dies.              *)
LEMMA EndOrder ==
    ASSUME TypeOK, OrderlyPlans, OrderInv, NEW t \in Tasks,
           \/ (RailStep(t) \/ EnterRail(t)) /\ Leave(t, "done")
           \/ Crash(t)
    PROVE  OrderInv'
<1>1. CASE Crash(t)
  BY <1>1, EndKeepsOrder DEF Crash, runVars, tableVars, jobVars
<1>2. CASE TicketJob(t) /\ Leave(t, "done")
  <2>1. Free(ticketLock) /\ pc[t] = "idle"
    BY <1>2 DEF TicketJob
  <2>2. status' = status /\ jobDone' = (jobDone \/ t \in Jobs)
    BY <1>2 DEF TicketJob, Return, Leave, Goto, TypeOK, TaskTypeOK
  <2> QED BY <1>2, <2>1, <2>2, EndKeepsOrder
<1>3. CASE /\ ContinueRun(t) \/ OpenRun(t) \/ OpenResume(t) \/ CheckResume(t)
              \/ SetRun(t) \/ RecordApproval(t)
           /\ Leave(t, "done")
  <2>1. pc[t] \in {"continue", "open_run", "set_run", "open_resume", "check_resume", "record"}
    BY <1>3 DEF ContinueRun, OpenRun, OpenResume, CheckResume, SetRun, RecordApproval
  <2>2. pc'[t] = "done"
    BY <1>3 DEF Leave, Goto, TypeOK, TaskTypeOK
  <2>3. status' = status
    BY <1>3, <2>2 DEF ContinueRun, OpenRun, OpenResume, CheckResume, SetRun, RecordApproval,
       Goto, runVars, TypeOK, TaskTypeOK
  <2>4. jobDone' = jobDone \/ jobDone' = (jobDone \/ t \in Jobs)
    BY <1>3 DEF ContinueRun, OpenRun, OpenResume, CheckResume, SetRun, RecordApproval,
       Return, Raise
  <2> QED BY <1>3, <2>1, <2>3, <2>4, EndKeepsOrder
<1>4. CASE (Discover(t) \/ Halt(t) \/ Finalize(t)) /\ Leave(t, "done")
  <2>1. PICK to \in {"needs_input", "awaiting_approval", "partial", "done", "failed"} :
            SetStatus(t, to) /\ (to = "needs_input" => pc[t] = "discover")
    <3>1. pc'[t] = "done"
      BY <1>4 DEF Leave, Goto, TypeOK, TaskTypeOK
    <3> QED BY <1>4, <3>1 DEF Discover, Halt, Finalize, FinalStatus, Goto, TypeOK, TaskTypeOK
  <2>2. pc[t] \in {"discover", "halt", "finalize"}
    BY <1>4 DEF Discover, Halt, Finalize
  <2>3. /\ Planning(t) \/ Resuming(t)
        /\ pc[t] = "discover" => Planning(t)
    BY <2>2, PlaceTells DEF PlanPCs, PassPCs, LatePCs
  <2>4. Planning(t) /\ Resuming(t) => FALSE
    BY KindsApart DEF Planning, Resuming, Planners
  <2>5. \/ status' = status /\ jobDone' = jobDone
        \/ status' = to /\ jobDone' = (jobDone \/ t \in Jobs)
    BY <2>1 DEF SetStatus, Return, Raise
  <2>6. t \in TicketJobs => t \in Jobs
    BY DEF Jobs
  <2> QED BY <1>4, <2>1, <2>2, <2>3, <2>4, <2>5, <2>6, EndKeepsOrder DEF RunStatus
<1>5. /\ RailStep(t) =>
             \/ pc'[t] # "done"
             \/ ContinueRun(t) \/ OpenRun(t) \/ OpenResume(t) \/ CheckResume(t)
             \/ SetRun(t) \/ RecordApproval(t) \/ Discover(t) \/ Halt(t) \/ Finalize(t)
      /\ EnterRail(t) => TicketJob(t) \/ pc'[t] # "done"
  <2> USE DEF TypeOK, TaskTypeOK, Goto
  <2>1. Compile(t) \/ Govern(t) \/ Plan(t) \/ SetResume(t) \/ Handoff(t) \/ Approve(t) => pc'[t] # "done"
    BY DEF Compile, Govern, Plan, SetResume, Handoff, Approve
  <2>2. ExecuteWrite(t) \/ ExecuteSave(t) \/ VerifyRead(t) \/ VerifySave(t) => pc'[t] # "done"
    BY DEF ExecuteWrite, ExecuteSave, VerifyRead, VerifySave, SaveStage
  <2>3. EnterRail(t) => TicketJob(t) \/ pc'[t] # "done"
    BY DEF EnterRail, RunJob, StartRun, PickInRest, PickInSlack, DecideRead, McpCall
  <2> QED BY <2>1, <2>2, <2>3 DEF RailStep
<1>6. Leave(t, "done") => pc'[t] = "done"
  BY DEF Leave, Goto, TypeOK, TaskTypeOK
<1> QED BY <1>1, <1>2, <1>3, <1>4, <1>5, <1>6

(* Every step keeps the order.                                             *)
LEMMA NextOrder == TypeOK /\ OrderlyPlans /\ OrderInv /\ [Next]_vars => OrderInv'
<1> SUFFICES ASSUME TypeOK, OrderlyPlans, OrderInv, [Next]_vars PROVE OrderInv'
  OBVIOUS
<1>1. CASE UNCHANGED vars \/ Tamper
  BY <1>1 DEF vars, runVars, tableVars, jobVars, lockVars, taskVars, Tamper, OrderInv, OneByOne,
     KindInv, HoldInv, JobsOver, Planning, Resuming
<1>2. ASSUME NEW t \in Tasks, RailStep(t), ~Leave(t, "done") PROVE OrderInv'
  <2> USE DEF PlanPCs, AskingPCs, PassPCs, LatePCs
  <2>1. CASE ContinueRun(t) \/ OpenRun(t) \/ SetRun(t)
    BY <1>2, <2>1, ContinueRunOrder, OpenRunOrder, SetRunOrder
  <2>2. CASE OpenResume(t) \/ CheckResume(t) \/ SetResume(t) \/ RecordApproval(t)
    BY <1>2, <2>2, OpenResumeOrder, CheckResumeOrder, SetResumeOrder, RecordApprovalOrder
  <2>3. CASE Discover(t) \/ Compile(t) \/ Govern(t) \/ Plan(t)
    <3>1. \/ pc[t] = "discover" /\ pc' = [pc EXCEPT ![t] = "compile"]
          \/ pc[t] = "compile" /\ pc' = [pc EXCEPT ![t] = "govern"]
          \/ pc[t] = "govern" /\ pc' = [pc EXCEPT ![t] = "plan"]
          \/ pc[t] = "plan" /\ pc' = [pc EXCEPT ![t] = "handoff"]
      BY <1>2, <2>3 DEF Discover, SetStatus, Return, Raise, Compile, Govern, Plan, Goto
    <3>2. UNCHANGED <<status, jobDone, lockVars>>
      BY <1>2, <2>3 DEF Discover, SetStatus, Return, Raise, Compile, Govern, Plan,
         tableVars, jobVars
    <3> QED BY <3>1, <3>2, StayKeepsOrder
  <2>4. CASE Handoff(t) \/ Halt(t) \/ Finalize(t)
    <3>1. Handoff(t)
      BY <1>2, <2>4 DEF Halt, Finalize, SetStatus, Return, Raise
    <3>2. /\ pc[t] = "handoff"
          /\ pc' = [pc EXCEPT ![t] = "approve"] \/ pc' = [pc EXCEPT ![t] = "halt"]
          /\ UNCHANGED <<status, jobDone, lockVars>>
      BY <3>1 DEF Handoff, Goto, runVars, tableVars, jobVars
    <3> QED BY <3>2, StayKeepsOrder
  <2>5. CASE Approve(t) \/ ExecuteSave(t) \/ VerifySave(t)
    <3>1. /\ \/ pc[t] = "approve" /\ pc' = [pc EXCEPT ![t] = "execute"]
             \/ pc[t] = "execute" /\ pc' = [pc EXCEPT ![t] = "verify"]
             \/ pc[t] = "verify" /\ pc' = [pc EXCEPT ![t] = "finalize"]
          /\ UNCHANGED <<status, jobDone, lockVars>>
      BY <2>5 DEF Approve, ExecuteSave, VerifySave, SaveStage, Goto, jobVars
    <3> QED BY <3>1, StayKeepsOrder
  <2>6. CASE ExecuteWrite(t) \/ VerifyRead(t)
    <3>1. /\ pc[t] \in {"execute", "verify"} /\ pc' = pc
          /\ UNCHANGED <<status, jobDone, lockVars>>
      BY <2>6 DEF ExecuteWrite, VerifyRead, runVars, tableVars, jobVars
    <3>2. pc' = [pc EXCEPT ![t] = pc[t]]
      BY <3>1 DEF TypeOK, TaskTypeOK
    <3> QED BY <3>1, <3>2, StayKeepsOrder
  <2> QED BY <1>2, <2>1, <2>2, <2>3, <2>4, <2>5, <2>6 DEF RailStep
<1>3. ASSUME NEW t \in Tasks, EnterRail(t), ~Leave(t, "done") PROVE OrderInv'
  <2>1. ~RunJob(t) /\ ~PickInSlack(t)
    BY DEF RunJob, PickInSlack, OrderlyPlans
  <2> QED BY <1>3, <2>1, TicketJobOrder, StartRunOrder, PickInRestOrder, DecideReadOrder,
             McpCallOrder DEF EnterRail
<1> QED BY <1>1, <1>2, <1>3, EndOrder DEF Next

-----------------------------------------------------------------------------
(* Whose steps they are.                                                   *)

(* A step of task t is seen by the other tasks in the tables only.         *)
OwnStep(t) ==
    \A u \in Tasks \ {t} : /\ pc'[u] = pc[u] /\ case'[u] = case[u] /\ blk'[u] = blk[u]
                           /\ touched'[u] = touched[u] /\ seen'[u] = seen[u]

(* Every step is some task's own.                                          *)
LEMMA StepsAreOwn ==
    ASSUME TypeOK, NEW t \in Tasks, RailStep(t) \/ EnterRail(t) \/ Crash(t)
    PROVE  OwnStep(t)
<1> USE DEF TypeOK, TaskTypeOK, OwnStep, Goto, Return, Raise, Leave, localVars, taskVars
<1>1. CASE ContinueRun(t) \/ OpenRun(t) \/ SetRun(t) \/ Discover(t) \/ Halt(t)
  BY <1>1 DEF ContinueRun, OpenRun, SetRun, Discover, Halt, SetStatus
<1>2. CASE Compile(t) \/ Govern(t) \/ Plan(t)
  BY <1>2 DEF Compile, Govern, Plan
<1>3. CASE OpenResume(t) \/ CheckResume(t) \/ SetResume(t) \/ RecordApproval(t) \/ Handoff(t)
  BY <1>3 DEF OpenResume, CheckResume, SetResume, RecordApproval, Handoff
<1>4. CASE Approve(t)
  BY <1>4 DEF Approve
<1>5. CASE ExecuteWrite(t)
  BY <1>5 DEF ExecuteWrite
<1>6. CASE VerifyRead(t)
  BY <1>6 DEF VerifyRead
<1>7. CASE ExecuteSave(t) \/ VerifySave(t) \/ Finalize(t)
  BY <1>7 DEF ExecuteSave, VerifySave, SaveStage, Finalize, SetStatus
<1>8. CASE EnterRail(t) \/ Crash(t)
  BY <1>8 DEF EnterRail, TicketJob, RunJob, StartRun, PickInRest, PickInSlack, DecideRead,
     McpCall, Crash
<1> QED BY <1>1, <1>2, <1>3, <1>4, <1>5, <1>6, <1>7, <1>8 DEF RailStep

(* A step that touches no copy of the case and no target.                  *)
CaseStays == UNCHANGED <<capsule, blockers, rows, asked, ledger, held, wrote>>

Calm(t) ==
    /\ CaseStays /\ OwnStep(t)
    /\ pc'[t] \notin LatePCs \cup {"govern", "plan"}
    /\ case'[t] \in {case[t], EmptyCase}

(* The steps of the control, before a plan and between the passes.         *)
ControlOf(t) ==
    \/ ContinueRun(t) \/ OpenRun(t) \/ SetRun(t) \/ Discover(t) \/ Halt(t)
    \/ OpenResume(t) \/ CheckResume(t) \/ SetResume(t) \/ RecordApproval(t)
    \/ EnterRail(t) \/ Crash(t)

(* The control touches no copy of the case and no target.                  *)
LEMMA ControlIsCalm == ASSUME TypeOK, NEW t \in Tasks, ControlOf(t) PROVE Calm(t)
<1>1. OwnStep(t)
  BY StepsAreOwn DEF ControlOf, RailStep
<1> USE DEF TypeOK, TaskTypeOK, Goto, Return, Raise, Leave, LatePCs, CaseStays,
        runVars, tableVars, jobVars, systemVars, localVars
<1>2. CASE ContinueRun(t) \/ OpenRun(t) \/ SetRun(t) \/ Discover(t) \/ Halt(t)
  BY <1>1, <1>2 DEF ContinueRun, OpenRun, SetRun, Discover, Halt, SetStatus, Calm
<1>3. CASE OpenResume(t) \/ CheckResume(t) \/ SetResume(t) \/ RecordApproval(t)
  BY <1>1, <1>3 DEF OpenResume, CheckResume, SetResume, RecordApproval, Calm
<1>4. CASE EnterRail(t) \/ Crash(t)
  BY <1>1, <1>4 DEF EnterRail, TicketJob, RunJob, StartRun, PickInRest, PickInSlack, DecideRead,
     McpCall, Crash, Calm
<1> QED BY <1>2, <1>3, <1>4 DEF ControlOf

(* _handoff with an intact seal: the task takes over the stored case.      *)
TakeOver(t) ==
    /\ CaseStays /\ OwnStep(t)
    /\ pc[t] = "handoff" /\ pc'[t] = "approve"
    /\ case'[t] = capsule /\ blk'[t] = blockers /\ touched' = touched
    /\ UNCHANGED <<status, receipts, usage>>

(* _handoff gives the stored case to the task, or halts the run.           *)
LEMMA HandoffTakesOver ==
    ASSUME TypeOK, NEW t \in Tasks, Handoff(t) PROVE Calm(t) \/ TakeOver(t)
<1>1. OwnStep(t)
  BY StepsAreOwn DEF RailStep
<1> QED BY <1>1 DEF Handoff, Calm, TakeOver, CaseStays, LatePCs, Goto, TypeOK, TaskTypeOK,
           runVars, tableVars, jobVars, systemVars, localVars

(* Every step is one of these.                                             *)
StepOf(t) ==
    \/ Calm(t) \/ Compile(t) \/ Govern(t) \/ Plan(t) \/ TakeOver(t) \/ Approve(t)
    \/ ExecuteWrite(t) \/ ExecuteSave(t) \/ VerifyRead(t) \/ VerifySave(t) \/ Finalize(t)

(* Nobody moves: at most the seal of the stored case is broken.            *)
Nothing == CaseStays /\ UNCHANGED <<status, receipts, usage, jobDone, taskVars>>

(* Every step of the system is one of these steps of one task.             *)
LEMMA StepKinds ==
    ASSUME TypeOK, [Next]_vars
    PROVE  Nothing \/ \E t \in Tasks : OwnStep(t) /\ StepOf(t)
<1>1. CASE UNCHANGED vars \/ Tamper
  BY <1>1 DEF vars, runVars, tableVars, jobVars, systemVars, taskVars, Tamper, Nothing, CaseStays
<1>2. ASSUME NEW t \in Tasks, RailStep(t) \/ EnterRail(t) \/ Crash(t)
      PROVE  OwnStep(t) /\ StepOf(t)
  BY <1>2, StepsAreOwn, ControlIsCalm, HandoffTakesOver DEF RailStep, ControlOf, StepOf
<1> QED BY <1>1, <1>2 DEF Next

-----------------------------------------------------------------------------
(* What follows from the order.                                            *)

(* While a plan is being made, nobody carries one out.                     *)
LEMMA PlansAreAlone ==
    ASSUME OrderlyPlans, OrderInv, NEW t \in Tasks, pc[t] \in PlanPCs
    PROVE  \A u \in Tasks \ {t} : pc[u] \notin PlanPCs \cup PassPCs \cup ResumePCs
<1>1. Planning(t)
  BY PlaceTells
<1>2. ASSUME NEW u \in Tasks, pc[u] \in PlanPCs \cup PassPCs \cup ResumePCs
      PROVE  u = t
  BY <1>1, <1>2, PlaceTells DEF OrderInv, OneByOne
<1> QED BY <1>2

(* While a plan is carried out, nobody makes another one.                  *)
LEMMA PassesArePlanned ==
    ASSUME OrderlyPlans, OrderInv, NEW t \in Tasks, pc[t] \in PassPCs \cup ResumePCs
    PROVE  /\ status \notin {"none", "needs_input"}
           /\ \A u \in Tasks : pc[u] \notin PlanPCs
<1>1. Planning(t) \/ Resuming(t)
  BY PlaceTells
<1>2. pc[t] \notin PlanPCs /\ pc[t] \notin AskingPCs
  BY DEF PlanPCs, AskingPCs, PassPCs, ResumePCs, LatePCs
<1>3. status \notin {"none", "needs_input"}
  BY <1>1, <1>2 DEF OrderInv, HoldInv
<1>4. ASSUME NEW u \in Tasks, pc[u] \in PlanPCs PROVE FALSE
  BY <1>2, <1>4, PlansAreAlone
<1> QED BY <1>3, <1>4

(* A ticket job never finds the status it must not raise at.               *)
LEMMA JobsReturn ==
    ASSUME TypeOK, OrderlyPlans, OrderInv, NEW t \in TicketJobs, Planning(t),
           RailStep(t), ~Planning(t)'
    PROVE  jobDone'
<1>1. /\ status = "running" /\ t \in Jobs /\ t \in Tasks /\ pc[t] # "set_run"
      /\ pc[t] \in PlanPCs \cup PassPCs /\ t \in Planners
  BY KindsApart DEF Jobs, Tasks, Planning, OrderInv, HoldInv, KindInv, Planners, OverPCs,
     PlanPCs, AskingPCs, PassPCs, LatePCs
<1>2. pc'[t] \notin PlanPCs \cup PassPCs
  BY <1>1 DEF Planning
<1> USE DEF TypeOK, TaskTypeOK, PlanPCs, AskingPCs, PassPCs, LatePCs, Goto
<1>3. CASE ContinueRun(t) \/ OpenRun(t) \/ SetRun(t)
  BY <1>1, <1>2, <1>3 DEF ContinueRun, OpenRun, SetRun
<1>4. CASE Compile(t) \/ Govern(t) \/ Plan(t) \/ Handoff(t) \/ Approve(t)
  BY <1>1, <1>2, <1>4 DEF Compile, Govern, Plan, Handoff, Approve
<1>5. CASE ExecuteWrite(t) \/ ExecuteSave(t) \/ VerifyRead(t) \/ VerifySave(t)
  BY <1>1, <1>2, <1>5 DEF ExecuteWrite, ExecuteSave, VerifyRead, VerifySave, SaveStage
<1>6. CASE OpenResume(t) \/ CheckResume(t) \/ SetResume(t) \/ RecordApproval(t)
  BY <1>1, <1>6 DEF OpenResume, CheckResume, SetResume, RecordApproval
<1>7. CASE Discover(t) \/ Halt(t) \/ Finalize(t)
  <2>1. \E to \in {"needs_input", "awaiting_approval", "partial", "done", "failed"} :
            SetStatus(t, to)
    BY <1>1, <1>2, <1>7 DEF Discover, Halt, Finalize, FinalStatus
  <2> QED BY <1>1, <2>1 DEF SetStatus, Return, MayBecome, RunTransitions, FinishedStatus
<1> QED BY <1>3, <1>4, <1>5, <1>6, <1>7 DEF RailStep

(* A completed job stays completed.                                        *)
LEMMA JobsStayDone == ASSUME [Next]_vars, jobDone PROVE jobDone'
<1> USE DEF tableVars, jobVars, runVars, Return, Raise, SetStatus
<1>1. CASE UNCHANGED vars \/ Tamper
  BY <1>1 DEF vars, Tamper
<1>2. ASSUME NEW t \in Tasks, RailStep(t) PROVE jobDone'
  <2>1. CASE ContinueRun(t) \/ OpenRun(t) \/ SetRun(t) \/ Discover(t)
    BY <2>1 DEF ContinueRun, OpenRun, SetRun, Discover
  <2>2. CASE Compile(t) \/ Govern(t) \/ Plan(t) \/ Handoff(t) \/ Halt(t) \/ Approve(t)
    BY <2>2 DEF Compile, Govern, Plan, Handoff, Halt, Approve
  <2>3. CASE OpenResume(t) \/ CheckResume(t) \/ SetResume(t) \/ RecordApproval(t)
    BY <2>3 DEF OpenResume, CheckResume, SetResume, RecordApproval
  <2>4. CASE ExecuteWrite(t) \/ ExecuteSave(t) \/ VerifyRead(t) \/ VerifySave(t) \/ Finalize(t)
    BY <2>4 DEF ExecuteWrite, ExecuteSave, VerifyRead, VerifySave, SaveStage, Finalize
  <2> QED BY <1>2, <2>1, <2>2, <2>3, <2>4 DEF RailStep
<1>3. ASSUME NEW t \in Tasks, EnterRail(t) \/ Crash(t) PROVE jobDone'
  BY <1>3 DEF EnterRail, TicketJob, RunJob, StartRun, PickInRest, PickInSlack, DecideRead,
     McpCall, Crash
<1> QED BY <1>1, <1>2, <1>3 DEF Next

(* A run that exists stays in existence; it is created by its first job or *)
(* by a door.                                                              *)
LEMMA RunsBegin ==
    ASSUME TypeOK, [Next]_vars, status = "none", status' # "none", OrderlyPlans, OrderInv
    PROVE  \/ \E t \in TicketJobs : Planning(t)'
           \/ TicketJobs = {}
<1>1. ~ (UNCHANGED vars \/ Tamper)
  BY DEF vars, runVars, Tamper
<1>2. ASSUME NEW t \in Tasks, RailStep(t) PROVE FALSE
  <2>1. pc[t] \notin PlanPCs \cup PassPCs \cup ResumePCs
    BY PlaceTells DEF OrderInv, HoldInv
  <2>2. ContinueRun(t) \/ OpenResume(t) \/ RecordApproval(t)
    BY <1>2, <2>1 DEF RailStep, PlanPCs, AskingPCs, PassPCs, LatePCs, ResumePCs, OpenRun, SetRun,
       Discover, Compile, Govern, Plan, CheckResume, SetResume, Handoff, Halt, Approve,
       ExecuteWrite, ExecuteSave, VerifyRead, VerifySave, Finalize
  <2> QED BY <2>2 DEF ContinueRun, OpenResume, RecordApproval, runVars
<1>3. ASSUME NEW t \in Tasks, EnterRail(t) \/ Crash(t)
      PROVE  (TicketJob(t) /\ pc'[t] = "open_run") \/ t \in Starts
  BY <1>3 DEF EnterRail, TicketJob, RunJob, StartRun, PickInRest, PickInSlack, DecideRead,
     McpCall, Crash, runVars, Goto, TypeOK, TaskTypeOK
<1>4. ASSUME NEW t \in Tasks, TicketJob(t), pc'[t] = "open_run" PROVE Planning(t)'
  BY <1>4 DEF Planning, Planners, PlanPCs, AskingPCs, TicketJob
<1> QED BY <1>1, <1>2, <1>3, <1>4 DEF Next, OrderlyPlans, TicketJob

(* A delivery that died stays dead.                                        *)
LEMMA DeadStayDead == ASSUME TypeOK, [Next]_vars, Unbroken' PROVE Unbroken
<1>1. CASE UNCHANGED vars \/ Tamper
  BY <1>1 DEF vars, taskVars, Tamper, Unbroken
<1>2. ASSUME NEW t \in Tasks, RailStep(t) \/ EnterRail(t) \/ Crash(t) PROVE Unbroken
  <2>1. pc[t] # "crashed"
    BY <1>2 DEF RailStep, ContinueRun, OpenRun, SetRun, Discover, Compile, Govern, Plan, OpenResume,
       CheckResume, SetResume, RecordApproval, Handoff, Halt, Approve, ExecuteWrite, ExecuteSave,
       VerifyRead, VerifySave, Finalize, EnterRail, TicketJob, RunJob, StartRun, PickInRest,
       PickInSlack, DecideRead, McpCall, Crash
  <2>2. \A u \in Tasks \ {t} : pc'[u] = pc[u]
    BY <1>2, StepsAreOwn DEF OwnStep
  <2> QED BY <2>1, <2>2 DEF Unbroken, Tasks, Jobs
<1> QED BY <1>1, <1>2 DEF Next

(* Until one dies, a ticket's run is in the hands of one delivery.         *)
LEMMA NextJob ==
    ASSUME TypeOK, OrderlyPlans, OrderInv, JobInv, [Next]_vars
    PROVE  JobInv'
<1> SUFFICES ASSUME Unbroken', status' # "none", ~JobsOver'
             PROVE  \E t \in TicketJobs : Planning(t)'
  BY DEF JobInv
<1>0. Unbroken
  BY DeadStayDead
<1>1. ~JobsOver
  BY JobsStayDone DEF JobsOver
<1>2. CASE status = "none"
  BY <1>1, <1>2, RunsBegin DEF JobsOver
<1>3. CASE status # "none"
  <2>1. PICK u \in TicketJobs : Planning(u)
    BY <1>0, <1>1, <1>3 DEF JobInv
  <2>2. u \in Tasks /\ pc'[u] # "crashed"
    BY DEF Tasks, Jobs, Unbroken
  <2>3. CASE UNCHANGED vars \/ Tamper
    BY <2>1, <2>3 DEF vars, taskVars, Tamper, Planning
  <2>4. ASSUME NEW t \in Tasks, t # u, RailStep(t) \/ EnterRail(t) \/ Crash(t)
        PROVE  Planning(u)'
    BY <2>1, <2>2, <2>4, StepsAreOwn DEF OwnStep, Planning
  <2>5. CASE RailStep(u)
    BY <1>1, <2>1, <2>5, JobsReturn DEF JobsOver
  <2>6. ~EnterRail(u) /\ ~Crash(u)
    BY <2>1, <2>2 DEF Crash, Leave, Goto, EnterRail, TicketJob, RunJob, StartRun, PickInRest,
       PickInSlack, DecideRead, McpCall, Planning, PlanPCs, AskingPCs, PassPCs, LatePCs,
       TypeOK, TaskTypeOK
  <2> QED BY <2>1, <2>2, <2>3, <2>4, <2>5, <2>6 DEF Next
<1> QED BY <1>2, <1>3

(* A run goes back to planning only from a question, from a crash, or from *)
(* nothing.                                                                *)
LEMMA PlansBegin ==
    ASSUME TypeOK, OrderlyPlans, OrderInv, JobInv, Unbroken, [Next]_vars,
           status \notin {"none", "needs_input"}, \A t \in Tasks : pc[t] \notin PlanPCs
    PROVE  status' \notin {"none", "needs_input"} /\ \A t \in Tasks : pc'[t] \notin PlanPCs
<1>1. CASE UNCHANGED vars \/ Tamper
  BY <1>1 DEF vars, runVars, taskVars, Tamper
<1>2. ASSUME NEW t \in Tasks, OwnStep(t),
             status' \notin {"none", "needs_input"}, pc'[t] \notin PlanPCs
      PROVE  status' \notin {"none", "needs_input"} /\ \A u \in Tasks : pc'[u] \notin PlanPCs
  BY <1>2 DEF OwnStep
<1>3. ASSUME NEW t \in Tasks, RailStep(t)
      PROVE  status' \notin {"none", "needs_input"} /\ pc'[t] \notin PlanPCs
  <2>1. ~ContinueRun(t) \/ pc'[t] \notin PlanPCs
    <3>1. SUFFICES ASSUME pc[t] = "continue" PROVE pc'[t] \notin PlanPCs \/ ~ContinueRun(t)
      BY DEF ContinueRun
    <3>2. t \in TicketJobs /\ ticketLock = t /\ ~JobsOver
      BY <3>1 DEF OrderInv, KindInv, HoldInv, OrderlyPlans, Tasks, Jobs, Resumers, PlanPCs,
         AskingPCs, PassPCs, LatePCs, OverPCs, ResumePCs, JobsOver
    <3>3. PICK u \in TicketJobs : Planning(u)
      BY <3>2 DEF JobInv
    <3>4. ticketLock = u /\ pc[u] # "continue"
      BY <3>3 DEF OrderInv, HoldInv, Planning, Tasks, Jobs, PlanPCs, AskingPCs, PassPCs,
         LatePCs, OverPCs
    <3> QED BY <3>1, <3>2, <3>4
  <2> USE DEF PlanPCs, AskingPCs, TypeOK, TaskTypeOK, Goto, Return, Raise, Leave, runVars
  <2>2. ~ (OpenRun(t) \/ SetRun(t) \/ Discover(t) \/ Compile(t) \/ Govern(t) \/ Plan(t))
    BY DEF OpenRun, SetRun, Discover, Compile, Govern, Plan
  <2>3. CASE ContinueRun(t) \/ OpenResume(t) \/ CheckResume(t) \/ SetResume(t) \/ RecordApproval(t)
    BY <2>1, <2>3 DEF ContinueRun, OpenResume, CheckResume, SetResume, RecordApproval
  <2>4. CASE Handoff(t) \/ Halt(t) \/ Approve(t) \/ Finalize(t)
    BY <2>4 DEF Handoff, Halt, Approve, Finalize, FinalStatus, SetStatus
  <2>5. CASE ExecuteWrite(t) \/ ExecuteSave(t) \/ VerifyRead(t) \/ VerifySave(t)
    BY <2>5 DEF ExecuteWrite, ExecuteSave, VerifyRead, VerifySave, SaveStage
  <2> QED BY <1>3, <2>2, <2>3, <2>4, <2>5 DEF RailStep
<1>4. ASSUME NEW t \in Tasks, EnterRail(t) \/ Crash(t)
      PROVE  status' \notin {"none", "needs_input"} /\ pc'[t] \notin PlanPCs
  <2>1. ~PickInSlack(t) /\ ~StartRun(t) /\ ~PickInRest(t)
    BY DEF PickInSlack, StartRun, PickInRest, OrderlyPlans
  <2> QED BY <1>4, <2>1 DEF EnterRail, TicketJob, RunJob, DecideRead, McpCall, Crash, Return,
             Leave, Goto, runVars, PlanPCs, AskingPCs, TypeOK, TaskTypeOK
<1> QED BY <1>1, <1>2, <1>3, <1>4, StepsAreOwn DEF Next

(* What has begun is planned: what is written or asked is of the plan.     *)
LEMMA NextFinal ==
    ASSUME TypeOK, OrderlyPlans, OrderInv, JobInv, FinalInv, [Next]_vars
    PROVE  FinalInv'
<1> SUFFICES ASSUME Unbroken', Begun'
             PROVE  status' \notin {"none", "needs_input"} /\ \A t \in Tasks : pc'[t] \notin PlanPCs
  BY DEF FinalInv
<1>0. Unbroken
  BY DeadStayDead
<1>1. CASE Begun
  BY <1>0, <1>1, PlansBegin DEF FinalInv
<1>2. CASE ~Begun
  <2>1. PICK t \in Tasks : Approve(t) \/ ExecuteWrite(t)
    <3>1. ~CaseStays
      BY <1>2 DEF CaseStays, Begun
    <3>2. PICK t \in Tasks : StepOf(t)
      BY <3>1, StepKinds DEF Nothing
    <3> QED BY <1>2, <3>2 DEF StepOf, Calm, TakeOver, CaseStays, Compile, Govern, Plan,
               ExecuteSave, VerifyRead, VerifySave, SaveStage, Finalize, Begun, tableVars,
               jobVars, systemVars
  <2>2. pc[t] \in PassPCs
    BY <2>1 DEF Approve, ExecuteWrite, PassPCs, LatePCs
  <2> QED BY <1>0, <2>2, PassesArePlanned, PlansBegin
<1> QED BY <1>1, <1>2

(* A run that does not exist is in nobody's hands.                         *)
LEMMA InitControl == Init => ControlInv
<1> SUFFICES ASSUME Init PROVE ControlInv
  OBVIOUS
<1>1. \A t \in Tasks : pc[t] = "idle"
  BY DEF Init
<1>2. status = "none" /\ ledger = {} /\ \A s \in Slots : asked[s] = NoEnt
  BY DEF Init
<1>3. \A t \in Tasks : ~Planning(t) /\ ~Resuming(t)
  BY <1>1 DEF Planning, Resuming, PlanPCs, AskingPCs, PassPCs, ResumePCs, LatePCs
<1>4. OrderInv
  BY <1>1, <1>2, <1>3 DEF OrderInv, KindInv, HoldInv, OneByOne, OverPCs
<1>5. JobInv /\ FinalInv
  BY <1>2 DEF JobInv, FinalInv, Begun
<1> QED BY <1>4, <1>5 DEF ControlInv

(* The ticket's lock, the run's lock and the status together see to it     *)
(* that the plans of a run are made one after the other, and that none is  *)
(* made while another is carried out: whatever tasks there are, as long as *)
(* no door begins a pass beside them.                                      *)
THEOREM PlansFollowEachOther == ASSUME OrderlyPlans PROVE Spec => []ControlInv
<1>1. IInv /\ ControlInv /\ [Next]_vars => ControlInv'
  BY NextOrder, NextJob, NextFinal DEF ControlInv, IInv
<1> QED BY <1>1, InitControl, InductiveInvariant, PTL DEF Spec

-----------------------------------------------------------------------------
(* One plan at a time: the tasks of a pass speak of the plan that is       *)
(* stored.                                                                 *)

(* An action changes its state and keeps its parameters.                   *)
LEMMA CellKeepsEnt ==
    ASSUME NEW cell \in Cell, NEW st
    PROVE  [cell EXCEPT !.st = st].ent = cell.ent /\ [cell EXCEPT !.st = st].st = st
BY DEF Cell

(* An action id without an action names no entitlement.                    *)
LEMMA AbsentByEnt == \A cell \in Cell : cell = Absent <=> cell.ent = NoEnt
BY PlanAssumption DEF Cell, Absent

(* No stage renames an action, and no stage's transaction renames a row.   *)
LEMMA CaseEntsStay ==
    ASSUME TypeOK, NEW t \in Tasks,
           Approve(t) \/ ExecuteWrite(t) \/ ExecuteSave(t) \/ VerifyRead(t) \/ VerifySave(t)
    PROVE  SameEnts(case'[t], case[t])
<1>0. case[t] \in [Slots -> Cell] /\ case \in [Tasks -> [Slots -> Cell]]
  BY DEF TypeOK, TaskTypeOK
<1>1. CASE Approve(t)
  <2>1. case'[t] = ApplyDecisions(case[t])
    BY <1>0, <1>1 DEF Approve
  <2> QED BY <1>0, <2>1, CellKeepsEnt DEF ApplyDecisions, SameEnts
<1>2. CASE ExecuteWrite(t)
  <2>1. PICK s \in Slots : \E st : case' = [case EXCEPT ![t][s].st = st]
    BY <1>2 DEF ExecuteWrite
  <2> QED BY <1>0, <2>1, CellKeepsEnt DEF SameEnts
<1>3. CASE VerifyRead(t)
  <2>1. PICK s \in Slots : \E st : case' = [case EXCEPT ![t][s].st = st]
    BY <1>3 DEF VerifyRead
  <2> QED BY <1>0, <2>1, CellKeepsEnt DEF SameEnts
<1>4. CASE ExecuteSave(t) \/ VerifySave(t)
  BY <1>4 DEF ExecuteSave, VerifySave, SaveStage, SameEnts
<1> QED BY <1>1, <1>2, <1>3, <1>4

(* Nor does a transaction that ends a stage rename a row.                  *)
LEMMA RowEntsStay ==
    ASSUME TypeOK, NEW t \in Tasks, Approve(t) \/ ExecuteSave(t) \/ VerifySave(t)
    PROVE  SameEnts(rows', rows)
<1>1. PICK c, ids : SyncStates(c, ids)
  BY DEF Approve, ExecuteSave, VerifySave, SaveStage
<1> QED BY <1>1, CellKeepsEnt DEF SyncStates, SameEnts, TypeOK, TableTypeOK

(* The stored case agrees with itself and with a copy of the same actions. *)
LEMMA AgreeMoves ==
    ASSUME TypeOK, TypeOK', AgreeInv, NEW t \in Tasks, OwnStep(t),
           SameEnts(capsule', capsule), SameEnts(rows', rows),
           pc'[t] \in LatePCs => SameEnts(case'[t], capsule)
    PROVE  AgreeInv'
<1>1. \A s \in Slots : capsule'[s] # Absent => capsule[s] # Absent
  BY AbsentByEnt DEF SameEnts, TypeOK, RunTypeOK
<1>2. \A s \in Slots : capsule'[s] # Absent => rows'[s].ent = capsule'[s].ent
  BY <1>1 DEF AgreeInv, SameEnts
<1>3. ASSUME NEW u \in Tasks, pc'[u] \in LatePCs PROVE SameEnts(case'[u], capsule')
  BY <1>3 DEF AgreeInv, SameEnts, OwnStep
<1> QED BY <1>2, <1>3 DEF AgreeInv

(* The tasks of a pass speak of the plan that is stored.                   *)
LEMMA AgreeNext ==
    ASSUME TypeOK, TypeOK', OrderlyPlans, OrderInv, AgreeInv, [Next]_vars
    PROVE  AgreeInv'
<1>1. CASE Nothing
  BY <1>1 DEF Nothing, CaseStays, taskVars, localVars, AgreeInv
<1>2. ASSUME NEW t \in Tasks, OwnStep(t), StepOf(t) PROVE AgreeInv'
  <2>1. SameEnts(capsule, capsule) /\ SameEnts(rows, rows)
    BY DEF SameEnts
  <2>2. CASE Calm(t)
    BY <1>2, <2>1, <2>2, AgreeMoves DEF Calm, CaseStays
  <2>3. CASE TakeOver(t)
    BY <1>2, <2>1, <2>3, AgreeMoves DEF TakeOver, CaseStays
  <2>4. CASE Compile(t) \/ Govern(t) \/ Plan(t)
    <3>1. pc[t] \in PlanPCs /\ pc'[t] \notin LatePCs
      BY <2>4 DEF Compile, Govern, Plan, PlanPCs, LatePCs, Goto, TypeOK, TaskTypeOK
    <3>2. \A u \in Tasks : pc'[u] \notin LatePCs
      BY <1>2, <3>1, PlansAreAlone DEF OwnStep, PassPCs
    <3>3. \A s \in Slots : capsule'[s] # Absent => rows'[s].ent = capsule'[s].ent
      BY <2>4 DEF Compile, Govern, Plan, SaveCase, SyncActions, EmptyCase
    <3> QED BY <3>2, <3>3 DEF AgreeInv
  <2>5. CASE Approve(t) \/ ExecuteSave(t) \/ VerifySave(t)
    <3>1. pc[t] \in LatePCs /\ capsule' = case'[t]
      BY <2>5 DEF Approve, ExecuteSave, VerifySave, SaveStage, SaveCase, LatePCs, TypeOK, TaskTypeOK
    <3>2. SameEnts(case'[t], capsule)
      BY <2>5, <3>1, CaseEntsStay DEF AgreeInv, SameEnts
    <3> QED BY <1>2, <2>5, <3>1, <3>2, RowEntsStay, AgreeMoves
  <2>6. CASE ExecuteWrite(t) \/ VerifyRead(t)
    <3>1. pc[t] \in LatePCs /\ capsule' = capsule /\ rows' = rows
      BY <2>6 DEF ExecuteWrite, VerifyRead, LatePCs, runVars, tableVars
    <3>2. SameEnts(case'[t], capsule)
      BY <2>6, <3>1, CaseEntsStay DEF AgreeInv, SameEnts
    <3> QED BY <1>2, <2>1, <3>1, <3>2, AgreeMoves
  <2>7. CASE Finalize(t)
    <3>1. pc[t] \in LatePCs /\ rows' = rows /\ capsule' \in {capsule, case[t]}
      BY <2>7 DEF Finalize, LatePCs, SaveCase
    <3>2. pc'[t] \notin LatePCs
      BY <2>7 DEF Finalize, SetStatus, Return, Raise, Leave, Goto, LatePCs, TypeOK, TaskTypeOK
    <3> QED BY <1>2, <2>1, <3>1, <3>2, AgreeMoves DEF AgreeInv
  <2> QED BY <1>2, <2>2, <2>3, <2>4, <2>5, <2>6, <2>7 DEF StepOf
<1> QED BY <1>1, <1>2, StepKinds

-----------------------------------------------------------------------------
(* What is verified is in place.                                           *)

(* A write never takes away what another action was to put in place.       *)
LEMMA PlaceStays ==
    ASSUME TypeOK, [Next]_vars
    PROVE  \A e \in Ents : InPlace(e) => InPlace(e)'
<1>1. ASSUME NEW t \in Tasks, ExecuteWrite(t) PROVE \A e \in Ents : InPlace(e) => InPlace(e)'
  BY <1>1 DEF ExecuteWrite, InPlace, TypeOK, SystemTypeOK
<1>2. ASSUME held' = held PROVE \A e \in Ents : InPlace(e) => InPlace(e)'
  BY <1>2 DEF InPlace
<1>3. ASSUME NEW t \in Tasks, StepOf(t), ~ExecuteWrite(t) PROVE held' = held
  BY <1>3 DEF StepOf, Calm, TakeOver, CaseStays, Compile, Govern, Plan, Approve, ExecuteSave,
     VerifyRead, VerifySave, SaveStage, Finalize, tableVars, systemVars
<1> QED BY <1>1, <1>2, <1>3, StepKinds DEF Nothing, CaseStays

(* A copy of the case that was right is right after any step.              *)
InPlaceNext(c) ==
    \A s \in Slots : c[s].st = "verified" =>
        IF c[s].ent \in GrantEnts THEN c[s].ent \in held' ELSE c[s].ent \notin held'

(* A write takes nothing away that some copy calls verified: an            *)
(* entitlement is either granted or taken away, never both.                *)
LEMMA CopyStaysInPlace ==
    ASSUME TypeOK, [Next]_vars, NEW c \in [Slots -> Cell], InPlaceIn(c)
    PROVE  InPlaceNext(c)
<1> SUFFICES ASSUME NEW s \in Slots, c[s].st = "verified"
             PROVE  IF c[s].ent \in GrantEnts THEN c[s].ent \in held' ELSE c[s].ent \notin held'
  BY DEF InPlaceNext
<1>1. c[s].ent \in Ents
  BY CellSplit DEF Absent
<1>2. InPlace(c[s].ent)
  BY DEF InPlaceIn
<1> QED BY <1>1, <1>2, PlaceStays DEF InPlace

(* A fresh plan calls nothing verified.                                    *)
LEMMA FreshIsInPlace ==
    ASSUME NEW c, \A s \in Slots : Fresh(c[s]) PROVE InPlaceIn(c)
BY DEF Fresh, InPlaceIn

(* A decision approves or refuses.                                         *)
LEMMA DecisionsVerifyNothing ==
    ASSUME TypeOK, NEW c \in [Slots -> Cell], InPlaceIn(c)
    PROVE  InPlaceIn(ApplyDecisions(c))
<1> SUFFICES ASSUME NEW s \in Slots, ApplyDecisions(c)[s].st = "verified"
             PROVE  InPlace(ApplyDecisions(c)[s].ent)
  BY DEF InPlaceIn
<1>1. approvals[s].decision # "verified"
  BY DEF TypeOK, TableTypeOK, Approval, Decision, NoApproval
<1>2. ApplyDecisions(c)[s] = c[s]
  BY <1>1, CellKeepsEnt DEF ApplyDecisions
<1> QED BY <1>2 DEF InPlaceIn

(* verify_action says "verified" only of what it read back.                *)
LEMMA TaskStaysInPlace ==
    ASSUME TypeOK, CopiesInPlace, NEW t \in Tasks, StepOf(t)
    PROVE  InPlaceIn(case'[t]) /\ InPlaceIn(capsule')
<1>0. /\ case[t] \in [Slots -> Cell] /\ capsule \in [Slots -> Cell]
      /\ case \in [Tasks -> [Slots -> Cell]]
  BY DEF TypeOK, RunTypeOK, TaskTypeOK
<1>1. InPlaceIn(case[t]) /\ InPlaceIn(capsule) /\ InPlaceIn(EmptyCase)
  BY DEF CopiesInPlace, InPlaceIn, EmptyCase, Absent
<1>2. CASE Calm(t) \/ TakeOver(t)
  BY <1>1, <1>2 DEF Calm, TakeOver, CaseStays
<1>3. CASE Compile(t)
  <2>1. PICK holdings : case' = [case EXCEPT ![t] = Candidates(holdings)]
    BY <1>3 DEF Compile
  <2>2. case'[t] = Candidates(holdings)
    BY <1>0, <2>1
  <2> QED BY <1>1, <1>3, <2>2, CandidatesFresh, FreshIsInPlace DEF Compile
<1>4. CASE Govern(t)
  BY <1>1, <1>4 DEF Govern, SaveCase, localVars
<1>5. CASE Plan(t)
  <2>1. capsule' = BuildPlan(case[t], seen[t]) /\ case'[t] = EmptyCase
    BY <1>0, <1>5 DEF Plan, SaveCase
  <2>2. InPlaceIn(BuildPlan(case[t], seen[t]))
    BY <1>0, <1>1, PlanKeepsOrFresh DEF InPlaceIn, Fresh
  <2> QED BY <1>1, <2>1, <2>2
<1>6. CASE Approve(t)
  BY <1>0, <1>1, <1>6, DecisionsVerifyNothing DEF Approve, SaveCase
<1>7. CASE ExecuteWrite(t) \/ VerifyRead(t)
  <2>0. PICK s \in Slots : \E st :
            /\ case' = [case EXCEPT ![t][s].st = st]
            /\ st = "verified" => InPlace(case[t][s].ent)
    BY <1>7 DEF ExecuteWrite, WriteOutcomes, VerifyRead, VerifyOutcomes
  <2>1. PICK st :
            /\ case' = [case EXCEPT ![t][s].st = st]
            /\ st = "verified" => InPlace(case[t][s].ent)
    BY <2>0
  <2>2. ASSUME NEW u \in Slots, case'[t][u].st = "verified" PROVE InPlace(case'[t][u].ent)
    <3>1. CASE u = s
      <4>1. case'[t][u] = [case[t][s] EXCEPT !.st = st]
        BY <1>0, <2>1, <3>1
      <4>2. case'[t][u].ent = case[t][s].ent /\ st = "verified"
        BY <1>0, <2>2, <4>1, CellKeepsEnt
      <4> QED BY <2>1, <4>2
    <3>2. CASE u # s
      BY <1>0, <1>1, <2>1, <2>2, <3>2 DEF InPlaceIn
    <3> QED BY <3>1, <3>2
  <2>3. capsule' = capsule
    BY <1>7 DEF ExecuteWrite, VerifyRead, runVars
  <2> QED BY <1>1, <2>2, <2>3 DEF InPlaceIn
<1>8. CASE ExecuteSave(t) \/ VerifySave(t)
  BY <1>1, <1>8 DEF ExecuteSave, VerifySave, SaveStage, SaveCase
<1>9. CASE Finalize(t)
  <2>1. case'[t] = EmptyCase
    BY <1>0, <1>9 DEF Finalize, SetStatus, Return, Raise, Leave
  <2> QED BY <1>1, <1>9, <2>1 DEF Finalize, SaveCase
<1> QED BY <1>2, <1>3, <1>4, <1>5, <1>6, <1>7, <1>8, <1>9 DEF StepOf

(* Whatever step is taken, no copy of the case calls verified what is not  *)
(* in place.                                                               *)
LEMMA CopiesNext ==
    ASSUME TypeOK, TypeOK', CopiesInPlace, [Next]_vars
    PROVE  CopiesInPlace'
<1>1. CASE Nothing
  BY <1>1 DEF Nothing, CaseStays, taskVars, localVars, CopiesInPlace, InPlaceIn, InPlace
<1>2. ASSUME NEW t \in Tasks, OwnStep(t), StepOf(t) PROVE CopiesInPlace'
  <2>1. capsule' \in [Slots -> Cell] /\ \A u \in Tasks : case'[u] \in [Slots -> Cell]
    BY DEF TypeOK, RunTypeOK, TaskTypeOK
  <2>2. InPlaceIn(capsule') /\ \A u \in Tasks : InPlaceIn(case'[u])
    BY <1>2, TaskStaysInPlace DEF OwnStep, CopiesInPlace
  <2>3. InPlaceNext(capsule') /\ \A u \in Tasks : InPlaceNext(case'[u])
    BY <2>1, <2>2, CopyStaysInPlace
  <2> QED BY <2>3 DEF CopiesInPlace, InPlaceIn, InPlaceNext, InPlace
<1> QED BY <1>1, <1>2, StepKinds

(* What a row calls verified is in place, while plans follow each other.   *)
LEMMA RowsStayInPlace ==
    ASSUME IInv, TypeOK', OrderlyPlans, OrderInv, AgreeInv, CopiesInPlace,
           VerifiedIsInPlace, [Next]_vars
    PROVE  VerifiedIsInPlace'
<1>0. CopiesInPlace'
  BY CopiesNext DEF IInv
<1>1. CASE Nothing
  BY <1>1 DEF Nothing, CaseStays, VerifiedIsInPlace, InPlace
<1>2. ASSUME NEW t \in Tasks, StepOf(t)
      PROVE  InPlaceIn(rows')
  <2>0. InPlaceIn(rows) /\ TypeOK /\ case[t] \in [Slots -> Cell] /\ rows \in [Slots -> Cell]
    BY DEF VerifiedIsInPlace, InPlaceIn, IInv, TypeOK, TableTypeOK, TaskTypeOK
  <2>1. InPlaceIn(case[t])
    BY DEF CopiesInPlace
  <2>2. CASE rows' = rows
    BY <2>0, <2>2
  <2>3. CASE Govern(t) \/ Plan(t)
    <3>1. PICK c : capsule' = c /\ SyncActions(c)
      BY <2>3 DEF Govern, Plan, SaveCase
    <3>2. InPlaceIn(c)
      BY <1>2, <2>0, <3>1, TaskStaysInPlace
    <3> QED BY <2>0, <3>1, <3>2 DEF SyncActions, InPlaceIn
  <2>4. CASE Approve(t)
    <3>1. PICK ids \in SUBSET Slots :
            /\ SyncStates(ApplyDecisions(case[t]), ids)
            /\ \A s \in ids : approvals[s].ent = case[t][s].ent /\ case[t][s].st = "awaiting"
      BY <2>4 DEF Approve, IsDecided
    <3>2. ASSUME NEW s \in ids PROVE rows'[s].st # "verified"
      <4>1. ApplyDecisions(case[t])[s].st # "verified"
        BY <2>0, <3>1, CellKeepsEnt DEF ApplyDecisions, IsDecided, TypeOK, TableTypeOK,
           Approval, Decision, NoApproval
      <4> QED BY <2>0, <3>1, <4>1, CellKeepsEnt DEF SyncStates
    <3> QED BY <2>0, <3>1, <3>2 DEF SyncStates, InPlaceIn
  <2>5. CASE ExecuteSave(t) \/ VerifySave(t)
    <3>1. SyncStates(case[t], touched[t]) /\ pc[t] \in LatePCs /\ touched[t] \subseteq Slots
      BY <2>0, <2>5 DEF ExecuteSave, VerifySave, SaveStage, LatePCs, TypeOK, TaskTypeOK
    <3>2. ASSUME NEW s \in touched[t] PROVE rows[s].ent = case[t][s].ent
      <4>1. case[t][s].st \in Moved
        BY DEF IInv, TaskInv
      <4>2. capsule[s] # Absent /\ case[t][s].ent = capsule[s].ent
        BY <2>0, <3>1, <4>1, CellSplit, AbsentByEnt
           DEF AgreeInv, SameEnts, Moved, Absent, TypeOK, RunTypeOK
      <4> QED BY <3>1, <4>2 DEF AgreeInv
    <3>3. ASSUME NEW s \in touched[t]
          PROVE  rows'[s].ent = case[t][s].ent /\ rows'[s].st = case[t][s].st
      BY <2>0, <3>1, <3>2, CellKeepsEnt DEF SyncStates
    <3> QED BY <2>0, <2>1, <3>1, <3>3 DEF SyncStates, InPlaceIn
  <2> QED BY <1>2, <2>2, <2>3, <2>4, <2>5 DEF StepOf, Calm, TakeOver, CaseStays, Compile,
             ExecuteWrite, VerifyRead, Finalize, tableVars
<1>3. ASSUME InPlaceIn(rows') PROVE InPlaceIn(rows)'
  <2>1. rows' \in [Slots -> Cell]
    BY DEF TypeOK, TableTypeOK
  <2>2. InPlaceNext(rows')
    BY <1>3, <2>1, CopyStaysInPlace DEF IInv
  <2> QED BY <2>2 DEF InPlaceIn, InPlaceNext, InPlace
<1> QED BY <1>0, <1>1, <1>2, <1>3, StepKinds DEF VerifiedIsInPlace, CopiesInPlace, InPlaceIn, IInv

(* Nothing has been planned or verified at first.                          *)
LEMMA InitPlan == Init => AgreeInv /\ CopiesInPlace /\ VerifiedIsInPlace
<1> SUFFICES ASSUME Init PROVE AgreeInv /\ CopiesInPlace /\ VerifiedIsInPlace
  OBVIOUS
<1>1. \A s \in Slots : EmptyCase[s] = Absent /\ Absent.st # "verified"
  BY DEF EmptyCase, Absent
<1>2. /\ capsule = EmptyCase /\ rows = EmptyCase
      /\ \A t \in Tasks : pc[t] = "idle" /\ case[t] = EmptyCase
  BY DEF Init
<1> QED BY <1>1, <1>2 DEF AgreeInv, CopiesInPlace, VerifiedIsInPlace, InPlaceIn, LatePCs

(* Whatever any copy of the case calls verified is in place in the target, *)
(* the stored one included: however passes overlap.                        *)
THEOREM CopiesHold == Spec => []CopiesInPlace
<1>1. IInv /\ IInv' /\ CopiesInPlace /\ [Next]_vars => CopiesInPlace'
  BY CopiesNext DEF IInv
<1>2. Init => CopiesInPlace
  BY InitPlan
<1> QED BY <1>1, <1>2, InductiveInvariant, PTL DEF Spec

(* "Succeeded" is not "verified": what the stored case file and the        *)
(* actions table call verified is in place in its target, because the rows *)
(* and every copy speak of one plan (AgreeInv).                            *)
THEOREM VerifiedHolds == ASSUME OrderlyPlans PROVE Spec => [](AgreeInv /\ VerifiedIsInPlace)
<1>1. /\ IInv /\ IInv' /\ ControlInv /\ CopiesInPlace /\ AgreeInv /\ VerifiedIsInPlace
      /\ [Next]_vars
      => AgreeInv' /\ VerifiedIsInPlace'
  BY AgreeNext, RowsStayInPlace DEF IInv, ControlInv
<1>2. Init => AgreeInv /\ VerifiedIsInPlace
  BY InitPlan
<1> QED BY <1>1, <1>2, InductiveInvariant, PlansFollowEachOther, CopiesHold, PTL DEF Spec

-----------------------------------------------------------------------------
(* Blockers.  Until something is written, every plan shows what blocks the *)
(* run, and what shows in a copy of the case stays in it.                  *)

(* An unresolved grant shows among the candidates of a run that wrote      *)
(* nothing, and every unresolved action in its plan.                       *)
LEMMA GrantsShow ==
    ASSUME NEW i \in DOMAIN Grants
    PROVE  i \in Slots /\ Candidates(Ents \ GrantEnts)[i] = Governed(Grants[i])
<1>1. \A j \in DOMAIN Grants : Grants[j] \in Ents \ (Ents \ GrantEnts)
  BY ListTypes
<1>2. Numbered(Grants, Ents \ (Ents \ GrantEnts), i) = Governed(Grants[i])
  BY <1>1, NumberedAll, PlanAssumption
<1>3. i \in Slots /\ i <= Len(Grants)
  BY ListTypes
<1> QED BY <1>2, <1>3 DEF Candidates

(* What a transfer takes away is held until something is written.          *)
LEMMA RevocationsShow ==
    ASSUME NEW c, NEW i \in DOMAIN Revokes
    PROVE  /\ Len(Grants) + i \in Slots
           /\ BuildPlan(c, Ents \ GrantEnts)[Len(Grants) + i] = Governed(Revokes[i])
<1>1. \A j \in DOMAIN Revokes : Revokes[j] \in Ents \ GrantEnts
  BY ListTypes, RevocationsApart
<1>2. Numbered(Revokes, Ents \ GrantEnts, i) = Governed(Revokes[i])
  BY <1>1, NumberedAll, PlanAssumption
<1>3. /\ Len(Grants) + i \in Slots /\ ~ (Len(Grants) + i <= Len(Grants))
      /\ (Len(Grants) + i) - Len(Grants) = i
  BY ListTypes
<1> QED BY <1>2, <1>3 DEF BuildPlan

(* An unresolved grant blocks the candidates.                              *)
LEMMA CandidatesBlocked ==
    ASSUME BlockerShows
    PROVE  Blocked(Candidates(Ents \ GrantEnts), PolicyMissing)
<1>1. CASE PolicyMissing
  BY <1>1 DEF Blocked
<1>2. CASE ~PolicyMissing
  <2>1. PICK e \in Unresolved : e \in GrantEnts
    BY <1>2 DEF BlockerShows
  <2>2. PICK i \in DOMAIN Grants : e = Grants[i]
    BY <2>1 DEF GrantEnts
  <2>3. Verdict[e] = "HOLD"
    BY PlanAssumption
  <2>4. Governed(e).ent = e /\ Governed(e).st = "awaiting"
    BY <2>3 DEF Governed, StateAfterVerdict
  <2> QED BY <2>2, <2>4, GrantsShow DEF Blocked
<1> QED BY <1>1, <1>2

(* An unresolved action blocks the plan.                                   *)
LEMMA PlanBlocked ==
    ASSUME BlockerKnown
    PROVE  Blocked(BuildPlan(Candidates(Ents \ GrantEnts), Ents \ GrantEnts), PolicyMissing)
<1>1. CASE PolicyMissing
  BY <1>1 DEF Blocked
<1>2. CASE ~PolicyMissing
  <2>1. PICK e \in Unresolved : Verdict[e] = "HOLD" /\ e \in Ents
    BY <1>2, PlanAssumption DEF BlockerKnown
  <2>2. Governed(e).ent = e /\ Governed(e).st = "awaiting"
    BY <2>1 DEF Governed, StateAfterVerdict
  <2>3. CASE e \in GrantEnts
    <3>1. PICK i \in DOMAIN Grants : e = Grants[i]
      BY <2>3 DEF GrantEnts
    <3>2. i <= Len(Grants)
      BY ListTypes
    <3>3. /\ i \in Slots
          /\ BuildPlan(Candidates(Ents \ GrantEnts), Ents \ GrantEnts)[i] = Governed(e)
      BY <3>1, <3>2, GrantsShow DEF BuildPlan
    <3> QED BY <2>2, <3>3 DEF Blocked
  <2>4. CASE e \notin GrantEnts
    <3>1. PICK i \in DOMAIN Revokes : e = Revokes[i]
      BY <2>1, <2>4 DEF Ents, GrantEnts
    <3> QED BY <2>2, <3>1, RevocationsShow DEF Blocked
  <2> QED BY <2>3, <2>4
<1> QED BY <1>1, <1>2

(* Nobody decides on an action that has no approver: the click that would  *)
(* is turned down, and a decision on record is one of those clicks.        *)
LEMMA ResolvedNext ==
    ASSUME TypeOK, ResolvedInv, [Next]_vars
    PROVE  ResolvedInv'
<1>0. NoEnt \notin Unresolved
  BY PlanAssumption
<1>1. ASSUME NEW t \in Tasks, DecideRead(t) PROVE ResolvedInv'
  <2>1. PICK s \in Slots, e \in Ents \ Unresolved, d \in Decision :
            ask' = [ask EXCEPT ![t] = [slot |-> s, ent |-> e, decision |-> d]]
    BY <1>1 DEF DecideRead
  <2> QED BY <1>1, <2>1 DEF DecideRead, ResolvedInv, TypeOK, TaskTypeOK, tableVars
<1>2. ASSUME NEW t \in Tasks, approvals' = approvals, ask' \in {ask, [ask EXCEPT ![t] = NoAsk]}
      PROVE  ResolvedInv'
  <2>1. ASSUME NEW u \in Tasks PROVE ask'[u] \in {ask[u], NoAsk}
    BY <1>2 DEF TypeOK, TaskTypeOK
  <2>2. ASSUME NEW u \in Tasks PROVE ask'[u].ent \notin Unresolved
    BY <1>0, <2>1 DEF ResolvedInv, NoAsk
  <2> QED BY <1>2, <2>2 DEF ResolvedInv
<1>3. ASSUME NEW t \in Tasks, RecordApproval(t) PROVE ResolvedInv'
  <2>1. CASE approvals' = approvals
    <3>1. ask' \in {ask, [ask EXCEPT ![t] = NoAsk]}
      BY <1>3 DEF RecordApproval, Return, Leave, localVars
    <3> QED BY <1>2, <2>1, <3>1
  <2>2. CASE approvals' # approvals
    <3>1. /\ approvals' = [approvals EXCEPT ![ask[t].slot] =
                             [ent |-> ask[t].ent, decision |-> ask[t].decision]]
          /\ ask' = ask
      BY <1>3, <2>2 DEF RecordApproval, localVars
    <3> QED BY <3>1 DEF ResolvedInv, TypeOK, TableTypeOK
  <2> QED BY <2>1, <2>2
<1> USE DEF Return, Raise, Leave, localVars, runVars, tableVars, jobVars, taskVars
<1>4. CASE UNCHANGED vars \/ Tamper
  BY <1>4 DEF vars, Tamper, ResolvedInv
<1>5. ASSUME NEW t \in Tasks, RailStep(t), ~RecordApproval(t) PROVE ResolvedInv'
  <2>1. CASE ContinueRun(t) \/ OpenRun(t) \/ SetRun(t) \/ Discover(t) \/ Halt(t) \/ Finalize(t)
    BY <1>2, <2>1 DEF ContinueRun, OpenRun, SetRun, Discover, Halt, Finalize, SetStatus
  <2>2. CASE Compile(t) \/ Govern(t) \/ Plan(t) \/ Handoff(t) \/ Approve(t)
    BY <1>2, <2>2 DEF Compile, Govern, Plan, Handoff, Approve
  <2>3. CASE OpenResume(t) \/ CheckResume(t) \/ SetResume(t)
    BY <1>2, <2>3 DEF OpenResume, CheckResume, SetResume
  <2>4. CASE ExecuteWrite(t) \/ ExecuteSave(t) \/ VerifyRead(t) \/ VerifySave(t)
    BY <1>2, <2>4 DEF ExecuteWrite, ExecuteSave, VerifyRead, VerifySave, SaveStage
  <2> QED BY <1>5, <2>1, <2>2, <2>3, <2>4 DEF RailStep
<1>6. ASSUME NEW t \in Tasks, EnterRail(t) \/ Crash(t), ~DecideRead(t) PROVE ResolvedInv'
  BY <1>2, <1>6 DEF EnterRail, TicketJob, RunJob, StartRun, PickInRest, PickInSlack, McpCall, Crash
<1> QED BY <1>1, <1>3, <1>4, <1>5, <1>6 DEF Next

(* A pass begins with a plan that was stored, or with a run that waits.    *)
LEMMA PassesBegin ==
    ASSUME TypeOK, [Next]_vars, status # "awaiting_approval",
           \A t \in Tasks : pc[t] \notin ResumePCs \cup PassPCs /\ ~Plan(t)
    PROVE  /\ status' # "awaiting_approval"
           /\ \A t \in Tasks : pc'[t] \notin ResumePCs \cup PassPCs
<1> USE DEF Return, Raise, Leave, Goto, runVars, ResumePCs, PassPCs, LatePCs, TypeOK, TaskTypeOK
<1>1. CASE UNCHANGED vars \/ Tamper
  BY <1>1 DEF vars, taskVars, Tamper
<1>2. ASSUME NEW t \in Tasks, OwnStep(t), status' # "awaiting_approval",
             pc'[t] \notin ResumePCs \cup PassPCs
      PROVE  /\ status' # "awaiting_approval"
             /\ \A u \in Tasks : pc'[u] \notin ResumePCs \cup PassPCs
  BY <1>2 DEF OwnStep
<1>3. ASSUME NEW t \in Tasks, RailStep(t)
      PROVE  status' # "awaiting_approval" /\ pc'[t] \notin ResumePCs \cup PassPCs
  <2>1. CASE ContinueRun(t) \/ OpenRun(t) \/ SetRun(t) \/ RecordApproval(t)
    BY <2>1 DEF ContinueRun, OpenRun, SetRun, RecordApproval
  <2>2. CASE Discover(t)
    BY <2>2 DEF Discover, SetStatus
  <2>3. CASE Compile(t) \/ Govern(t) \/ OpenResume(t)
    BY <2>3 DEF Compile, Govern, OpenResume
  <2>4. ~ (CheckResume(t) \/ SetResume(t) \/ Handoff(t) \/ Halt(t) \/ Approve(t) \/ ExecuteWrite(t)
           \/ ExecuteSave(t) \/ VerifyRead(t) \/ VerifySave(t) \/ Finalize(t))
    BY DEF CheckResume, SetResume, Handoff, Halt, Approve, ExecuteWrite, ExecuteSave, VerifyRead,
       VerifySave, Finalize
  <2> QED BY <1>3, <2>1, <2>2, <2>3, <2>4 DEF RailStep
<1>4. ASSUME NEW t \in Tasks, EnterRail(t) \/ Crash(t)
      PROVE  status' # "awaiting_approval" /\ pc'[t] \notin ResumePCs \cup PassPCs
  BY <1>4 DEF EnterRail, TicketJob, RunJob, StartRun, PickInRest, PickInSlack, DecideRead,
     McpCall, Crash
<1> QED BY <1>1, <1>2, <1>3, <1>4, StepsAreOwn DEF Next

(* Nobody writes in a blocked run.                                         *)
LEMMA BlockedWritesNothing ==
    ASSUME TypeOK, BlockInv, NEW t \in Tasks PROVE ~ExecuteWrite(t)
<1> SUFFICES ASSUME ExecuteWrite(t) PROVE FALSE
  OBVIOUS
<1>1. pc[t] = "execute" /\ ~blk[t]
  BY DEF ExecuteWrite
<1>2. case[t] = EmptyCase
  BY <1>1 DEF BlockInv, LatePCs
<1>3. PICK s \in Slots : s \in Executable(case[t])
  BY DEF ExecuteWrite, IsFirst
<1> QED BY <1>2, <1>3 DEF Executable, IsExecutable, EmptyCase, Absent

(* A blocked case is blocked still when decisions have been applied, and   *)
(* then it says so.                                                        *)
LEMMA ApprovedBlocked ==
    ASSUME TypeOK, ResolvedInv, NEW c \in [Slots -> Cell], NEW b \in BOOLEAN, Blocked(c, b)
    PROVE  BlockedBy(ApplyDecisions(c), b) \/ ApplyDecisions(c) = EmptyCase
<1>1. CASE b
  BY <1>1 DEF BlockedBy
<1>2. CASE c = EmptyCase
  BY <1>2 DEF ApplyDecisions, IsDecided, EmptyCase, Absent
<1>3. CASE \E s \in Slots : c[s].st = "awaiting" /\ c[s].ent \in Unresolved
  <2>1. PICK s \in Slots : c[s].st = "awaiting" /\ c[s].ent \in Unresolved
    BY <1>3
  <2>2. ApplyDecisions(c)[s] = c[s]
    BY <2>1 DEF ApplyDecisions, IsDecided, ResolvedInv
  <2> QED BY <2>1, <2>2 DEF BlockedBy
<1> QED BY <1>1, <1>2, <1>3 DEF Blocked

(* What a task carries that is in the middle of a pass or of a plan.       *)
CarriesBlock(t) ==
    /\ pc[t] = "approve" => Blocked(case[t], blk[t])
    /\ pc[t] \in LatePCs \ {"approve"} => blk[t] \/ case[t] = EmptyCase
    /\ pc[t] \in {"govern", "plan"} =>
           /\ case[t] = Candidates(seen[t]) /\ seen[t] = Ents \ GrantEnts
           /\ blk[t] = PolicyMissing

(* No pass can have begun before the plan that shows the blocker.          *)
NotBegun ==
    /\ ~BlockerShows /\ status # "awaiting_approval"
    /\ \A t \in Tasks : pc[t] \notin ResumePCs \cup PassPCs

(* A step of one task that stores no case without the blocker and lets no  *)
(* other task take one over.                                               *)
LEMMA BlockStays ==
    ASSUME TypeOK, BlockInv, BlockerKnown, NEW t \in Tasks, OwnStep(t),
           ledger' = ledger, held' = held, CarriesBlock(t)',
           Blocked(capsule', blockers') \/ NotBegun'
    PROVE  BlockInv'
<1>1. \A u \in Tasks : CarriesBlock(u)'
  BY DEF BlockInv, CarriesBlock, OwnStep
<1> QED BY <1>1 DEF BlockInv, CarriesBlock, NotBegun

(* No step loses the blocker.                                              *)
LEMMA BlockNext ==
    ASSUME TypeOK, BlockerKnown, BlockerShows \/ (OrderlyPlans /\ OrderInv),
           ResolvedInv, BlockInv, [Next]_vars
    PROVE  BlockInv'
<1> USE DEF TypeOK, RunTypeOK, TaskTypeOK, LatePCs, Goto
<1>1. CASE Nothing
  BY <1>1 DEF Nothing, CaseStays, taskVars, localVars, BlockInv
<1>2. ASSUME NEW t \in Tasks, OwnStep(t), StepOf(t) PROVE BlockInv'
  <2>0. /\ ledger = {} /\ held = Ents \ GrantEnts
        /\ Blocked(capsule, blockers) \/ NotBegun
        /\ CarriesBlock(t)
    BY DEF BlockInv, CarriesBlock, NotBegun
  <2>1. ASSUME capsule' = capsule, blockers' = blockers, ~Plan(t)
        PROVE  Blocked(capsule', blockers') \/ NotBegun'
    <3>1. ASSUME NEW u \in Tasks, Plan(u) PROVE FALSE
      <4>1. pc[u] = "plan" /\ pc'[u] = "handoff"
        BY <3>1 DEF Plan
      <4> QED BY <1>2, <2>1, <3>1, <4>1 DEF OwnStep
    <3>2. NotBegun => NotBegun'
      BY <3>1, PassesBegin DEF NotBegun, BlockerShows
    <3> QED BY <2>0, <2>1, <3>2
  <2>2. CASE Compile(t)
    <3>1. {e \in held : e \in GrantEnts => e \in Listed} = Ents \ GrantEnts
      BY <2>0
    <3>2. CarriesBlock(t)' /\ capsule' = EmptyCase /\ ledger' = ledger /\ held' = held
      BY <2>2, <3>1 DEF Compile, CarriesBlock, systemVars
    <3> QED BY <1>2, <3>2, BlockStays DEF Blocked
  <2>3. CASE Govern(t)
    <3>1. /\ capsule' = Candidates(Ents \ GrantEnts) /\ blockers' = PolicyMissing
          /\ CarriesBlock(t)' /\ ledger' = ledger /\ held' = held /\ status' = status
          /\ pc[t] = "govern" /\ pc'[t] = "plan"
      BY <2>0, <2>3 DEF Govern, SaveCase, CarriesBlock, systemVars, localVars
    <3>2. CASE BlockerShows
      BY <1>2, <3>1, <3>2, CandidatesBlocked, BlockStays
    <3>3. CASE ~BlockerShows
      <4>1. pc[t] \in PlanPCs
        BY <3>1 DEF PlanPCs
      <4>2. status = "running"
        BY <3>1, <3>3, <4>1, PlaceTells DEF OrderInv, HoldInv, AskingPCs
      <4>3. \A u \in Tasks \ {t} : pc[u] \notin ResumePCs \cup PassPCs
        BY <3>3, <4>1, PlansAreAlone
      <4>4. NotBegun'
        BY <1>2, <3>1, <3>3, <4>2, <4>3 DEF NotBegun, OwnStep, ResumePCs, PassPCs, BlockerShows
      <4> QED BY <1>2, <3>1, <4>4, BlockStays
    <3> QED BY <3>2, <3>3
  <2>4. CASE Plan(t)
    <3>1. /\ capsule' = BuildPlan(Candidates(Ents \ GrantEnts), Ents \ GrantEnts)
          /\ blockers' = PolicyMissing /\ CarriesBlock(t)' /\ ledger' = ledger /\ held' = held
      BY <2>0, <2>4 DEF Plan, SaveCase, CarriesBlock, systemVars
    <3> QED BY <1>2, <3>1, PlanBlocked, BlockStays
  <2>5. CASE Calm(t) /\ ~Plan(t)
    BY <1>2, <2>1, <2>5, BlockStays DEF Calm, CaseStays, CarriesBlock
  <2>6. CASE TakeOver(t) /\ ~Plan(t)
    <3>1. Blocked(capsule, blockers)
      BY <2>0, <2>6 DEF TakeOver, NotBegun, PassPCs
    <3> QED BY <1>2, <2>6, <3>1, BlockStays DEF TakeOver, CaseStays, CarriesBlock
  <2>7. CASE Approve(t)
    <3>1. Blocked(case[t], blk[t])
      BY <2>0, <2>7 DEF Approve, CarriesBlock
    <3>2. BlockedBy(ApplyDecisions(case[t]), blk[t]) \/ ApplyDecisions(case[t]) = EmptyCase
      BY <1>2, <3>1, ApprovedBlocked
    <3>3. /\ capsule' = ApplyDecisions(case[t]) /\ blockers' = BlockedBy(ApplyDecisions(case[t]), blk[t])
          /\ case'[t] = capsule' /\ blk'[t] = blockers' /\ pc'[t] = "execute"
          /\ ledger' = ledger /\ held' = held
      BY <2>7 DEF Approve, SaveCase, systemVars
    <3> QED BY <1>2, <3>2, <3>3, BlockStays DEF Blocked, CarriesBlock
  <2>8. CASE ExecuteSave(t) \/ VerifySave(t)
    <3>1. /\ blk[t] \/ case[t] = EmptyCase
          /\ capsule' = case[t] /\ blockers' = blk[t] /\ case' = case /\ blk' = blk
          /\ pc'[t] \in {"verify", "finalize"} /\ ledger' = ledger /\ held' = held
      BY <2>0, <2>8 DEF ExecuteSave, VerifySave, SaveStage, SaveCase, CarriesBlock, systemVars
    <3> QED BY <1>2, <3>1, BlockStays DEF Blocked, CarriesBlock
  <2>9. CASE VerifyRead(t)
    <3>1. pc[t] = "verify" /\ \E s \in Slots : s \in Verifiable(case[t])
      BY <2>9 DEF VerifyRead, IsFirst
    <3>2. case[t] # EmptyCase
      BY <3>1 DEF Verifiable, EmptyCase, Absent
    <3>3. /\ blk'[t] = blk[t] /\ blk[t] /\ pc' = pc /\ capsule' = capsule /\ blockers' = blockers
          /\ ledger' = ledger /\ held' = held
      BY <2>0, <2>9, <3>1, <3>2 DEF VerifyRead, CarriesBlock, runVars, systemVars
    <3>4. ~Plan(t)
      BY <3>1 DEF Plan
    <3> QED BY <1>2, <2>1, <3>1, <3>3, <3>4, BlockStays DEF CarriesBlock
  <2>10. CASE Finalize(t)
    <3>1. /\ blk[t] \/ case[t] = EmptyCase
          /\ pc'[t] = "done" /\ ledger' = ledger /\ held' = held
          /\ \/ capsule' = case[t] /\ blockers' = blk[t]
             \/ capsule' = capsule /\ blockers' = blockers
      BY <2>0, <2>10
         DEF Finalize, SetStatus, Return, Raise, Leave, SaveCase, CarriesBlock, systemVars
    <3>2. ~Plan(t)
      BY <2>10 DEF Plan, Finalize
    <3> QED BY <1>2, <2>1, <3>1, <3>2, BlockStays DEF Blocked, CarriesBlock
  <2>11. ~ExecuteWrite(t)
    BY <1>2, BlockedWritesNothing
  <2> QED BY <1>2, <2>2, <2>3, <2>4, <2>5, <2>6, <2>7, <2>8, <2>9, <2>10, <2>11 DEF StepOf
<1> QED BY <1>1, <1>2, StepKinds

(* Nothing executes while a blocker is open, for any tasks and crashes: a  *)
(* run that policy or an approver nobody can be found for holds up writes  *)
(* to no target in any pass. Where the blocker shows in the candidates no  *)
(* order of the passes is needed; a blocker that joins them with the       *)
(* revocations only needs plans that follow each other.                    *)
THEOREM BlockedNeverWrites ==
    ASSUME BlockerKnown => BlockerShows \/ OrderlyPlans
    PROVE  Spec => []BlockedRunNeverWrites
<1> DEFINE Inv == ResolvedInv /\ (BlockerKnown => BlockInv)
           Order == OrderlyPlans => ControlInv
<1>1. Init => Inv
  <2> SUFFICES ASSUME Init PROVE Inv
    OBVIOUS
  <2>1. NoEnt \notin Unresolved
    BY PlanAssumption
  <2>2. /\ ledger = {} /\ held = Ents \ GrantEnts /\ capsule = EmptyCase
        /\ \A t \in Tasks : pc[t] = "idle" /\ ask[t] = NoAsk
        /\ \A s \in Slots : approvals[s] = NoApproval
    BY DEF Init
  <2> QED BY <2>1, <2>2 DEF ResolvedInv, BlockInv, Blocked, NoApproval, NoAsk, LatePCs
<1>2. IInv /\ Order /\ Inv /\ [Next]_vars => Inv'
  BY ResolvedNext, BlockNext DEF IInv, ControlInv, BlockerKnown
<1>3. Inv => BlockedRunNeverWrites
  BY DEF BlockedRunNeverWrites, BlockerKnown, BlockInv
<1>4. Spec => []Order
  <2>1. CASE OrderlyPlans
    BY <2>1, PlansFollowEachOther, PTL
  <2>2. CASE ~OrderlyPlans
    <3>1. Order
      BY <2>2
    <3> QED BY <3>1, PTL
  <2> QED BY <2>1, <2>2
<1> HIDE DEF Inv, Order
<1> QED BY <1>1, <1>2, <1>3, <1>4, InductiveInvariant, PTL DEF Spec

-----------------------------------------------------------------------------
(* Exactly once.                                                           *)

NotHeld(h) == Ents \ h

(* What has a number among the candidates is wanted and not held; ...      *)
LEMMA CandidateIsWanted ==
    ASSUME NEW h, NEW s \in Slots, Candidates(h)[s] # Absent
    PROVE  \E k \in DOMAIN Grants :
               /\ Candidates(h)[s].ent = Grants[k] /\ Grants[k] \notin h
               /\ NumberOf(Grants, NotHeld(h), k) = s
<1>1. Candidates(h)[s] = Numbered(Grants, NotHeld(h), s)
  BY DEF Candidates, NotHeld
<1>2. Grants \in Seq(Ents)
  BY PlanAssumption
<1>3. \A e \in NotHeld(h) : e \notin h
  BY DEF NotHeld
<1> QED BY <1>1, <1>2, <1>3, NumberedIsKept

(* ... what joins them is held, and to be taken away.                      *)
LEMMA JoinedIsHeld ==
    ASSUME NEW c, NEW h, NEW s \in Slots, s > Len(Grants), BuildPlan(c, h)[s] # Absent
    PROVE  \E k \in DOMAIN Revokes :
               /\ BuildPlan(c, h)[s].ent = Revokes[k] /\ Revokes[k] \in h
               /\ NumberOf(Revokes, h, k) = s - Len(Grants)
<1>1. ~ (s <= Len(Grants))
  BY ListTypes DEF Slots
<1>2. BuildPlan(c, h)[s] = Numbered(Revokes, h, s - Len(Grants))
  BY <1>1 DEF BuildPlan
<1>3. Revokes \in Seq(Ents)
  BY PlanAssumption
<1> QED BY <1>2, <1>3, NumberedIsKept

(* A case that lists what was wanted and not held, or held and to be taken *)
(* away, and nothing twice.                                                *)
Lists(c, h) ==
    /\ Distinct(c)
    /\ \A s \in Slots : c[s] # Absent =>
           IF c[s].ent \in GrantEnts THEN c[s].ent \notin h ELSE c[s].ent \in h

(* The candidates list what is wanted and not held, each once.             *)
LEMMA CandidatesList ==
    ASSUME NEW h PROVE Lists(Candidates(h), h)
<1>1. ASSUME NEW s \in Slots, NEW u \in Slots, Candidates(h)[s] # Absent,
             Candidates(h)[s].ent = Candidates(h)[u].ent
      PROVE  s = u
  <2>1. PICK k \in DOMAIN Grants :
            /\ Candidates(h)[s].ent = Grants[k]
            /\ NumberOf(Grants, NotHeld(h), k) = s
    BY <1>1, CandidateIsWanted
  <2>2. Candidates(h)[u] # Absent
    <3>1. Grants[k] # NoEnt
      BY ListTypes, PlanAssumption
    <3>2. Absent.ent = NoEnt
      BY DEF Absent
    <3>3. Candidates(h)[u].ent # Absent.ent
      BY <1>1, <2>1, <3>1, <3>2
    <3> QED BY <3>3
  <2>3. PICK l \in DOMAIN Grants :
            /\ Candidates(h)[u].ent = Grants[l]
            /\ NumberOf(Grants, NotHeld(h), l) = u
    BY <2>2, CandidateIsWanted
  <2>4. k = l
    BY <1>1, <2>1, <2>3, RevocationsApart
  <2> QED BY <2>1, <2>3, <2>4
<1>2. ASSUME NEW s \in Slots, Candidates(h)[s] # Absent
      PROVE  Candidates(h)[s].ent \in GrantEnts /\ Candidates(h)[s].ent \notin h
  BY <1>2, CandidateIsWanted, ListTypes
<1> QED BY <1>1, <1>2 DEF Lists, Distinct

(* With the revocations nothing is listed twice, either.                   *)
LEMMA PlanLists ==
    ASSUME NEW h PROVE Lists(BuildPlan(Candidates(h), h), h)
<1> DEFINE c == BuildPlan(Candidates(h), h)
<1>1. \A s \in Slots : s <= Len(Grants) => c[s] = Candidates(h)[s]
  BY DEF BuildPlan
<1>2. ASSUME NEW s \in Slots, c[s] # Absent, s <= Len(Grants)
      PROVE  c[s].ent \in GrantEnts /\ c[s].ent \notin h
  BY <1>1, <1>2, CandidateIsWanted, ListTypes
<1>3. ASSUME NEW s \in Slots, c[s] # Absent, ~ (s <= Len(Grants))
      PROVE  c[s].ent \notin GrantEnts /\ c[s].ent \in h
  <2>1. s > Len(Grants)
    BY <1>3, ListTypes DEF Slots
  <2> QED BY <1>3, <2>1, JoinedIsHeld, RevocationsApart
<1>4. \A s \in Slots : c[s] # Absent => c[s].ent # NoEnt
  <2> SUFFICES ASSUME NEW s \in Slots, c[s] # Absent PROVE c[s].ent # NoEnt
    OBVIOUS
  <2>1. CASE s <= Len(Grants)
    BY <1>2, <2>1, PlanAssumption DEF Ents, GrantEnts
  <2>2. CASE ~ (s <= Len(Grants))
    <3>1. s > Len(Grants)
      BY <2>2, ListTypes DEF Slots
    <3>2. PICK k \in DOMAIN Revokes : c[s].ent = Revokes[k]
      BY <3>1, JoinedIsHeld
    <3> QED BY <3>2, ListTypes, PlanAssumption
  <2> QED BY <2>1, <2>2
<1>5. ASSUME NEW s \in Slots, NEW u \in Slots, c[s] # Absent, c[s].ent = c[u].ent
      PROVE  s = u
  <2>0. c[u] # Absent
    BY <1>4, <1>5 DEF Absent
  <2>1. CASE s <= Len(Grants)
    <3>1. u <= Len(Grants)
      BY <1>2, <1>3, <1>5, <2>0, <2>1
    <3> QED BY <1>1, <1>5, <2>1, <3>1, CandidatesList DEF Lists, Distinct
  <2>2. CASE ~ (s <= Len(Grants))
    <3>1. ~ (u <= Len(Grants))
      BY <1>2, <1>3, <1>5, <2>0, <2>2
    <3>2. s > Len(Grants) /\ u > Len(Grants) /\ s \in Int /\ u \in Int
      BY <2>2, <3>1, ListTypes DEF Slots
    <3>3. PICK k \in DOMAIN Revokes :
              /\ c[s].ent = Revokes[k]
              /\ NumberOf(Revokes, h, k) = s - Len(Grants)
      BY <1>5, <3>2, JoinedIsHeld
    <3>4. PICK l \in DOMAIN Revokes :
              /\ c[u].ent = Revokes[l]
              /\ NumberOf(Revokes, h, l) = u - Len(Grants)
      BY <2>0, <3>2, JoinedIsHeld
    <3>5. k = l
      BY <1>5, <3>3, <3>4, RevocationsApart
    <3>6. s - Len(Grants) = u - Len(Grants)
      BY <3>3, <3>4, <3>5
    <3> QED BY <3>2, <3>6, ListTypes
  <2> QED BY <2>1, <2>2
<1> HIDE DEF c
<1>6. Lists(c, h)
  BY <1>2, <1>3, <1>5 DEF Lists, Distinct
<1> QED BY <1>6 DEF c

(* A grant that never shows in the holdings keeps its id, if it is listed  *)
(* before all that do.                                                     *)
LEMMA HiddenKeepIds ==
    ASSUME NEW h, \A e \in GrantEnts : e \in h => e \in Listed, StableIds,
           NEW s \in Slots, Candidates(h)[s] # Absent, Candidates(h)[s].ent \notin Listed
    PROVE  s \in DOMAIN Grants /\ Grants[s] = Candidates(h)[s].ent
<1>1. PICK k \in DOMAIN Grants :
          /\ Candidates(h)[s].ent = Grants[k]
          /\ NumberOf(Grants, NotHeld(h), k) = s
  BY CandidateIsWanted
<1>2. \A j \in 1 .. k : j \in DOMAIN Grants /\ (j < k \/ j = k)
  BY ListTypes
<1>3. \A j \in 1 .. k : Grants[j] \notin Listed
  BY <1>1, <1>2 DEF StableIds
<1>4. \A j \in 1 .. k : Grants[j] \in NotHeld(h)
  BY <1>2, <1>3, ListTypes DEF NotHeld
<1>5. Grants \in Seq(Ents)
  BY PlanAssumption
<1>6. s = k
  BY <1>1, <1>4, <1>5, NumberedInPlace
<1> QED BY <1>1, <1>6

(* While a plan is being made no target changes, so what Compile read of   *)
(* the holdings is still true when the plan is stored.                     *)
LEMMA DraftNext ==
    ASSUME TypeOK, OrderlyPlans, OrderInv, DraftInv, [Next]_vars
    PROVE  DraftInv'
<1> USE DEF TypeOK, TaskTypeOK, Goto
<1>1. CASE Nothing
  BY <1>1 DEF Nothing, CaseStays, taskVars, localVars, DraftInv, Holdings
<1>2. ASSUME NEW t \in Tasks, OwnStep(t), StepOf(t) PROVE DraftInv'
  <2>1. ASSUME held' = held, pc'[t] \notin {"govern", "plan"} PROVE DraftInv'
    BY <1>2, <2>1 DEF DraftInv, Holdings, OwnStep
  <2>2. CASE Calm(t) \/ TakeOver(t)
    BY <2>1, <2>2 DEF Calm, TakeOver, CaseStays
  <2>3. CASE Compile(t)
    <3>1. held' = held /\ case'[t] = Candidates(Holdings) /\ seen'[t] = Holdings
      BY <2>3 DEF Compile, systemVars, Holdings
    <3> QED BY <1>2, <3>1 DEF DraftInv, Holdings, OwnStep
  <2>4. CASE Govern(t)
    BY <1>2, <2>4 DEF Govern, systemVars, localVars, DraftInv, Holdings, OwnStep
  <2>5. CASE Plan(t)
    BY <2>1, <2>5 DEF Plan, systemVars
  <2>6. CASE Approve(t) \/ VerifyRead(t) \/ ExecuteSave(t) \/ VerifySave(t)
    BY <2>1, <2>6 DEF Approve, VerifyRead, ExecuteSave, VerifySave, SaveStage, systemVars
  <2>7. CASE Finalize(t)
    BY <2>1, <2>7 DEF Finalize, SetStatus, Return, Raise, Leave, systemVars
  <2>8. CASE ExecuteWrite(t)
    <3>1. pc[t] \in PassPCs /\ pc' = pc
      BY <2>8 DEF ExecuteWrite, PassPCs, LatePCs
    <3>2. \A u \in Tasks : pc'[u] \notin {"govern", "plan"}
      BY <3>1, PassesArePlanned DEF PlanPCs
    <3> QED BY <3>2 DEF DraftInv
  <2> QED BY <1>2, <2>2, <2>3, <2>4, <2>5, <2>6, <2>7, <2>8 DEF StepOf
<1> QED BY <1>1, <1>2, StepKinds

(* So a plan is always made of what the subject holds.                     *)
LEMMA DraftsHold == ASSUME OrderlyPlans PROVE Spec => []DraftInv
<1>1. Init => DraftInv
  BY DEF Init, DraftInv
<1>2. IInv /\ ControlInv /\ DraftInv /\ [Next]_vars => DraftInv'
  BY DraftNext DEF IInv, ControlInv
<1> QED BY <1>1, <1>2, InductiveInvariant, PlansFollowEachOther, PTL DEF Spec

(* What a plan lists that was written has kept its id: ids are stable, or  *)
(* nothing has been written when a plan is stored.                         *)
IdsKept(c) ==
    /\ Distinct(c)
    /\ \A e \in Ents, s \in Slots : wrote[e] # 0 /\ c[s].ent = e => <<s, e>> \in ledger
    /\ StableIds =>
           \A e \in GrantEnts \ Listed, s \in Slots :
               c[s].ent = e => s \in DOMAIN Grants /\ Grants[s] = e

(* A plan that is stored keeps the ids of what was written.                *)
LEMMA PlanKeepsIds ==
    ASSUME TypeOK, WriteInv, OrderlyPlans, OrderInv, FinalInv, Unbroken \/ StableIds,
           NEW t \in Tasks, pc[t] \in PlanPCs,
           NEW c \in {Candidates(Holdings), BuildPlan(Candidates(Holdings), Holdings)}
    PROVE  IdsKept(c)
<1> DEFINE h == Holdings
<1>1. Lists(c, h)
  BY CandidatesList, PlanLists
<1>2. c \in [Slots -> Cell]
  BY CandidatesFresh, PlanKeepsOrFresh
<1>3. ASSUME StableIds, NEW e \in GrantEnts \ Listed, NEW s \in Slots, c[s].ent = e
      PROVE  s \in DOMAIN Grants /\ Grants[s] = e
  <2>1. e \in Ents
    BY DEF Ents, GrantEnts
  <2>2. c[s] # Absent
    BY <1>3, <2>1, PlanAssumption DEF Absent
  <2>3. c[s] = Candidates(h)[s]
    <3>1. CASE s <= Len(Grants)
      BY <3>1 DEF BuildPlan
    <3>2. CASE ~ (s <= Len(Grants)) /\ c = BuildPlan(Candidates(h), h)
      <4>1. s > Len(Grants)
        BY <3>2, ListTypes DEF Slots
      <4>2. PICK k \in DOMAIN Revokes : c[s].ent = Revokes[k]
        BY <2>2, <3>2, <4>1, JoinedIsHeld
      <4> QED BY <1>3, <4>2, RevocationsApart
    <3> QED BY <3>1, <3>2
  <2>4. \A x \in GrantEnts : x \in h => x \in Listed
    BY DEF Holdings
  <2> HIDE DEF h
  <2> QED BY <1>3, <2>2, <2>3, <2>4, HiddenKeepIds
<1>4. ASSUME NEW e \in Ents, NEW s \in Slots, wrote[e] # 0, c[s].ent = e
      PROVE  <<s, e>> \in ledger
  <2>1. InPlace(e) /\ \E u \in Slots : <<u, e>> \in ledger
    BY <1>4 DEF WriteInv
  <2>2. StableIds
    BY <2>1 DEF FinalInv, Begun
  <2>3. c[s] # Absent
    BY <1>4, PlanAssumption DEF Absent
  <2>4. e \in GrantEnts /\ e \notin h
    BY <1>1, <1>4, <2>1, <2>3 DEF Lists, InPlace, Holdings
  <2>5. e \notin Listed
    BY <2>1, <2>4 DEF InPlace, Holdings
  <2>6. PICK u \in Slots : <<u, e>> \in ledger
    BY <2>1
  <2>7. u \in DOMAIN Grants /\ Grants[u] = e
    BY <2>2, <2>4, <2>5, <2>6 DEF WriteInv
  <2>8. s \in DOMAIN Grants /\ Grants[s] = e
    BY <1>3, <1>4, <2>2, <2>4, <2>5
  <2> QED BY <2>6, <2>7, <2>8, RevocationsApart
<1> QED BY <1>1, <1>3, <1>4 DEF IdsKept, Lists

(* A step that writes nothing and stores such a plan.                      *)
LEMMA WriteStays ==
    ASSUME WriteInv, UNCHANGED <<ledger, held, wrote>>, IdsKept(capsule')
    PROVE  WriteInv'
BY DEF WriteInv, IdsKept, Distinct, InPlace

(* A case of the same actions keeps their ids.                             *)
LEMMA SameIdsKept ==
    ASSUME TypeOK, TypeOK', WriteInv, SameEnts(capsule', capsule) PROVE IdsKept(capsule')
<1>1. \A s \in Slots : capsule'[s] # Absent => capsule[s] # Absent
  BY AbsentByEnt DEF SameEnts, TypeOK, RunTypeOK
<1> QED BY <1>1 DEF WriteInv, IdsKept, Distinct, SameEnts

(* A target that carries out a write did not know its key, and does now.   *)
LEMMA AppliesOnce ==
    ASSUME NEW known \in BOOLEAN, NEW inPlace \in BOOLEAN,
           NEW out \in WriteOutcomes(known, inPlace), out.applies
    PROVE  ~known /\ out.records
<1>1. \/ out = [st |-> "executed", applies |-> ~known, records |-> TRUE]
      \/ out = [st |-> "unknown",  applies |-> ~known, records |-> TRUE]
      \/ out.applies = FALSE
  BY DEF WriteOutcomes
<1>2. CASE out = [st |-> "executed", applies |-> ~known, records |-> TRUE]
  BY <1>2
<1>3. CASE out = [st |-> "unknown",  applies |-> ~known, records |-> TRUE]
  BY <1>3
<1> QED BY <1>1, <1>2, <1>3

(* A write is carried out only for an action whose key is new, and that    *)
(* key stands for all there is of the change it makes.                     *)
LEMMA ExecuteKeepsOnce ==
    ASSUME TypeOK, WriteInv, AgreeInv, NEW t \in Tasks, ExecuteWrite(t)
    PROVE  WriteInv'
<1>1. PICK s \in Slots :
          /\ s \in Executable(case[t])
          /\ \E out \in WriteOutcomes(<<s, case[t][s].ent>> \in ledger, InPlace(case[t][s].ent)) :
                /\ ledger' = IF out.records THEN ledger \cup {<<s, case[t][s].ent>>} ELSE ledger
                /\ IF out.applies
                   THEN /\ held' = IF case[t][s].ent \in GrantEnts THEN held \cup {case[t][s].ent}
                                   ELSE held \ {case[t][s].ent}
                        /\ wrote' = [wrote EXCEPT ![case[t][s].ent] = @ + 1]
                   ELSE UNCHANGED <<held, wrote>>
  BY DEF ExecuteWrite, IsFirst, WriteKey
<1> DEFINE e == case[t][s].ent
<1>2. e \in Ents /\ capsule[s].ent = e
  <2>1. pc[t] \in LatePCs
    BY DEF ExecuteWrite, LatePCs
  <2>2. case[t][s] \in Cell /\ case[t][s].st # "absent"
    BY <1>1 DEF Executable, IsExecutable, TypeOK, TaskTypeOK
  <2>3. e \in Ents
    BY <2>2, CellSplit DEF Absent
  <2> QED BY <2>1, <2>3 DEF AgreeInv, SameEnts
<1>3. capsule' = capsule
  BY DEF ExecuteWrite, runVars
<1>4. PICK out \in WriteOutcomes(<<s, e>> \in ledger, InPlace(e)) :
          /\ out.applies => <<s, e>> \notin ledger /\ out.records
          /\ ledger' = IF out.records THEN ledger \cup {<<s, e>>} ELSE ledger
          /\ IF out.applies
             THEN /\ held' = IF e \in GrantEnts THEN held \cup {e} ELSE held \ {e}
                  /\ wrote' = [wrote EXCEPT ![e] = @ + 1]
             ELSE UNCHANGED <<held, wrote>>
  <2>1. PICK out \in WriteOutcomes(<<s, e>> \in ledger, InPlace(e)) :
            /\ ledger' = IF out.records THEN ledger \cup {<<s, e>>} ELSE ledger
            /\ IF out.applies
               THEN /\ held' = IF e \in GrantEnts THEN held \cup {e} ELSE held \ {e}
                    /\ wrote' = [wrote EXCEPT ![e] = @ + 1]
               ELSE UNCHANGED <<held, wrote>>
    BY <1>1
  <2>2. (<<s, e>> \in ledger) \in BOOLEAN /\ InPlace(e) \in BOOLEAN
    <3>1. (<<s, e>> \in ledger) \in BOOLEAN
      OBVIOUS
    <3>2. InPlace(e) \in BOOLEAN
      <4>1. (e \in held) \in BOOLEAN /\ (e \notin held) \in BOOLEAN
        OBVIOUS
      <4> QED BY <4>1 DEF InPlace
    <3> QED BY <3>1, <3>2
  <2>3. out.applies => <<s, e>> \notin ledger /\ out.records
    BY <2>2, AppliesOnce
  <2> QED BY <2>1, <2>3
<1> HIDE DEF e
<1>5. ledger \subseteq ledger' /\ ledger' \subseteq ledger \cup {<<s, e>>}
  BY <1>4
<1>6. \A u \in Slots : capsule[u].ent = e => u = s
  <2>1. capsule[s] # Absent
    BY <1>2, PlanAssumption DEF Absent
  <2> QED BY <1>2, <2>1 DEF WriteInv, Distinct
<1>7. CASE out.applies
  <2>1. wrote[e] = 0
    BY <1>2, <1>4, <1>7 DEF WriteInv
  <2>2. /\ wrote'[e] = 1 /\ <<s, e>> \in ledger'
        /\ e \in GrantEnts => e \in held'
        /\ e \notin GrantEnts => e \notin held'
    BY <1>2, <1>4, <1>7, <2>1 DEF TypeOK, SystemTypeOK
  <2>3. \A f \in Ents \ {e} : wrote'[f] = wrote[f] /\ (f \in held' <=> f \in held)
    BY <1>4, <1>7 DEF TypeOK, SystemTypeOK
  <2>4. \A f \in Ents : wrote'[f] <= 1
    BY <2>2, <2>3 DEF WriteInv
  <2>5. ASSUME NEW f \in Ents, wrote'[f] # 0
        PROVE  /\ InPlace(f)'
               /\ \E u \in Slots : <<u, f>> \in ledger'
               /\ \A u \in Slots : capsule'[u].ent = f => <<u, f>> \in ledger'
    BY <1>3, <1>5, <1>6, <2>2, <2>3, <2>5 DEF WriteInv, InPlace
  <2>6. StableIds =>
           \A f \in GrantEnts \ Listed, u \in Slots :
               <<u, f>> \in ledger' \/ capsule'[u].ent = f => u \in DOMAIN Grants /\ Grants[u] = f
    BY <1>2, <1>3, <1>5 DEF WriteInv
  <2> QED BY <1>3, <2>4, <2>5, <2>6 DEF WriteInv, Distinct
<1>8. CASE ~out.applies
  <2>1. held' = held /\ wrote' = wrote
    BY <1>4, <1>8
  <2> QED BY <1>2, <1>3, <1>5, <2>1 DEF WriteInv, Distinct, InPlace
<1> QED BY <1>7, <1>8

(* No step makes a change twice.                                           *)
LEMMA WriteNext ==
    ASSUME TypeOK, TypeOK', OrderlyPlans, OrderInv, FinalInv, Unbroken \/ StableIds,
           AgreeInv, DraftInv, WriteInv, [Next]_vars
    PROVE  WriteInv'
<1>1. CASE Nothing
  BY <1>1 DEF Nothing, CaseStays, WriteInv, Distinct, InPlace
<1>2. ASSUME NEW t \in Tasks, StepOf(t) PROVE WriteInv'
  <2>0. case[t] \in [Slots -> Cell] /\ pc[t] \in LatePCs => SameEnts(case[t], capsule)
    BY DEF AgreeInv
  <2>1. ASSUME SameEnts(capsule', capsule), UNCHANGED <<ledger, held, wrote>> PROVE WriteInv'
    BY <2>1, SameIdsKept, WriteStays
  <2>2. CASE Calm(t) \/ TakeOver(t)
    BY <2>1, <2>2 DEF Calm, TakeOver, CaseStays, SameEnts
  <2>3. CASE Compile(t)
    <3>1. \A s \in Slots : capsule'[s] = Absent /\ Absent.ent \notin Ents
      BY <2>3, PlanAssumption DEF Compile, EmptyCase, Absent
    <3>2. IdsKept(capsule')
      BY <3>1 DEF IdsKept, Distinct, Ents, GrantEnts
    <3> QED BY <2>3, <3>2, WriteStays DEF Compile, systemVars
  <2>4. CASE Govern(t) \/ Plan(t)
    <3>1. /\ pc[t] \in PlanPCs
          /\ capsule' \in {Candidates(Holdings), BuildPlan(Candidates(Holdings), Holdings)}
      BY <2>4 DEF Govern, Plan, SaveCase, DraftInv, PlanPCs
    <3> QED BY <2>4, <3>1, PlanKeepsIds, WriteStays DEF Govern, Plan, systemVars
  <2>5. CASE Approve(t) \/ ExecuteSave(t) \/ VerifySave(t)
    <3>1. capsule' = case'[t] /\ pc[t] \in LatePCs
      BY <2>5 DEF Approve, ExecuteSave, VerifySave, SaveStage, SaveCase, LatePCs, TypeOK, TaskTypeOK
    <3>2. SameEnts(capsule', capsule)
      BY <2>5, <3>1, CaseEntsStay DEF SameEnts, AgreeInv
    <3> QED BY <2>1, <2>5, <3>2 DEF Approve, ExecuteSave, VerifySave, SaveStage, systemVars
  <2>6. CASE VerifyRead(t)
    BY <2>1, <2>6 DEF VerifyRead, runVars, systemVars, SameEnts
  <2>7. CASE Finalize(t)
    <3>1. pc[t] \in LatePCs /\ capsule' \in {capsule, case[t]}
      BY <2>7 DEF Finalize, SaveCase, LatePCs
    <3> QED BY <2>1, <2>7, <3>1 DEF Finalize, systemVars, SameEnts, AgreeInv
  <2>8. CASE ExecuteWrite(t)
    BY <2>8, ExecuteKeepsOnce
  <2> QED BY <1>2, <2>2, <2>3, <2>4, <2>5, <2>6, <2>7, <2>8 DEF StepOf
<1> QED BY <1>1, <1>2, StepKinds

(* A change is made at most once, for any deliveries, clicks and requests, *)
(* and for passes that overlap: by another pass or a repeated write it is  *)
(* found in the holdings or under its idempotency key.  After a crash this *)
(* needs action ids that stay the same from plan to plan; until then it    *)
(* needs nothing.                                                          *)
THEOREM WrittenOnce ==
    ASSUME OrderlyPlans
    PROVE  Spec => [](Unbroken \/ StableIds => WrittenAtMostOnce)
<1> DEFINE Once == Unbroken \/ StableIds => WriteInv
<1>1. Init => Once
  <2> SUFFICES ASSUME Init PROVE WriteInv
    OBVIOUS
  <2>1. /\ \A s \in Slots : capsule[s] = Absent /\ Absent.ent \notin Ents
        /\ ledger = {} /\ \A e \in Ents : wrote[e] = 0
    BY PlanAssumption DEF Init, EmptyCase, Absent
  <2> QED BY <2>1 DEF WriteInv, Distinct, Ents, GrantEnts
<1>2. IInv /\ IInv' /\ ControlInv /\ AgreeInv /\ DraftInv /\ Once /\ [Next]_vars => Once'
  <2> SUFFICES ASSUME IInv, IInv', ControlInv, AgreeInv, DraftInv, Once, [Next]_vars,
                      Unbroken' \/ StableIds
               PROVE  WriteInv'
    OBVIOUS
  <2>1. Unbroken \/ StableIds
    BY DeadStayDead DEF IInv
  <2> QED BY <2>1, WriteNext DEF IInv, ControlInv
<1>3. Once => (Unbroken \/ StableIds => WrittenAtMostOnce)
  BY DEF WriteInv, WrittenAtMostOnce
<1> QED BY <1>1, <1>2, <1>3, InductiveInvariant, PlansFollowEachOther, VerifiedHolds, DraftsHold, PTL
           DEF Spec

-----------------------------------------------------------------------------
(* Asking.                                                                 *)

(* A run waits again, or is taken up, only after it has waited or settled. *)
LEMMA ResumesBegin ==
    ASSUME TypeOK, OrderlyPlans, OrderInv, [Next]_vars,
           status' = "awaiting_approval" \/ \E t \in Tasks : Resuming(t)'
    PROVE  \/ status = "awaiting_approval" \/ \E t \in Tasks : Resuming(t)
           \/ \E t \in Tasks : Finalize(t)
<1> SUFFICES ASSUME status # "awaiting_approval", \A t \in Tasks : ~Resuming(t) /\ ~Finalize(t)
             PROVE  status' # "awaiting_approval" /\ \A t \in Tasks : ~Resuming(t)'
  OBVIOUS
<1>1. CASE UNCHANGED vars \/ Tamper
  BY <1>1 DEF vars, runVars, taskVars, Tamper, Resuming
<1>2. ASSUME NEW t \in Tasks, OwnStep(t), status' # "awaiting_approval", ~Resuming(t)'
      PROVE  status' # "awaiting_approval" /\ \A u \in Tasks : ~Resuming(u)'
  BY <1>2 DEF OwnStep, Resuming
<1> USE DEF Return, Raise, Leave, Goto, runVars, ResumePCs, PassPCs, LatePCs, TypeOK, TaskTypeOK
<1>3. ASSUME NEW t \in Tasks, RailStep(t)
      PROVE  status' # "awaiting_approval" /\ ~Resuming(t)'
  <2>1. CASE ContinueRun(t) \/ RecordApproval(t) \/ OpenResume(t)
    <3>1. status' = status /\ pc'[t] \notin ResumePCs \cup PassPCs
      BY <2>1 DEF ContinueRun, RecordApproval, OpenResume
    <3> QED BY <3>1 DEF Resuming
  <2>2. CASE pc[t] \in ResumePCs \cup PassPCs \cup PlanPCs
    <3>1. t \notin Resumers
      BY <2>2, PlaceTells, KindsApart DEF Planning, Resuming, Planners
    <3>2. CASE OpenRun(t) \/ SetRun(t) \/ Compile(t) \/ Govern(t) \/ Plan(t) \/ CheckResume(t)
               \/ SetResume(t) \/ Handoff(t) \/ Approve(t)
      BY <3>1, <3>2 DEF OpenRun, SetRun, Compile, Govern, Plan, CheckResume, SetResume, Handoff,
         Approve, Resuming
    <3>3. CASE Discover(t) \/ Halt(t)
      BY <3>1, <3>3 DEF Discover, Halt, SetStatus, Resuming
    <3>4. CASE ExecuteWrite(t) \/ ExecuteSave(t) \/ VerifyRead(t) \/ VerifySave(t)
      BY <3>1, <3>4 DEF ExecuteWrite, ExecuteSave, VerifyRead, VerifySave, SaveStage, Resuming
    <3> QED BY <1>3, <2>1, <3>2, <3>3, <3>4 DEF RailStep
  <2>3. CASE ~ (ContinueRun(t) \/ RecordApproval(t) \/ OpenResume(t))
    <3>1. pc[t] \in ResumePCs \cup PassPCs \cup PlanPCs
      BY <1>3, <2>3 DEF RailStep, PlanPCs, AskingPCs, OpenRun, SetRun, Discover, Compile, Govern,
         Plan, CheckResume, SetResume, Handoff, Halt, Approve, ExecuteWrite, ExecuteSave,
         VerifyRead, VerifySave, Finalize
    <3> QED BY <2>2, <3>1
  <2> QED BY <2>1, <2>3
<1>4. ASSUME NEW t \in Tasks, EnterRail(t) \/ Crash(t)
      PROVE  status' # "awaiting_approval" /\ ~Resuming(t)'
  BY <1>4 DEF EnterRail, TicketJob, RunJob, StartRun, PickInRest, PickInSlack, DecideRead,
     McpCall, Crash, Resuming
<1> QED BY <1>1, <1>2, <1>3, <1>4, StepsAreOwn DEF Next

(* An action id stands for what its approver was asked about.              *)
AskedAbout(c) == Unbroken => \A s \in Slots : asked[s] \in {NoEnt, c[s].ent}

Waits == status = "awaiting_approval" \/ \E t \in Tasks : Resuming(t)

AskedLate(t) == pc[t] \in LatePCs \ {"approve"} => AskedIn(case[t])

(* A step that asks nobody and moves one copy of the case.                 *)
LEMMA AskStays ==
    ASSUME AskInv, NEW t \in Tasks, OwnStep(t), asked' = asked, Unbroken' => Unbroken,
           AskedAbout(capsule)', AskedLate(t)', Waits' => AskedIn(capsule)'
    PROVE  AskInv'
<1>1. \A u \in Tasks \ {t} : AskedLate(u)'
  BY DEF AskInv, AskedLate, AskedIn, OwnStep
<1> QED BY <1>1 DEF AskInv, AskedAbout, AskedLate, Waits

(* The Approve stage asks for all that waits and was not asked for yet;    *)
(* what another task's copy shows as asked stays so.                       *)
LEMMA ApproveAsks ==
    ASSUME TypeOK, TypeOK', AgreeInv, AskInv, NEW t \in Tasks, OwnStep(t), Approve(t),
           Unbroken' => Unbroken
    PROVE  AskInv'
<1> DEFINE c == ApplyDecisions(case[t])
<1>1. /\ pc[t] = "approve" /\ capsule' = c /\ case'[t] = c
      /\ asked' = [s \in Slots |-> IF Dispatched(c, s) THEN c[s].ent ELSE asked[s]]
  BY DEF Approve, SaveCase, TypeOK, TaskTypeOK
<1>2. SameEnts(c, capsule)
  BY <1>1, CaseEntsStay DEF AgreeInv, SameEnts, LatePCs
<1>3. c \in [Slots -> Cell]
  BY <1>1 DEF TypeOK, TaskTypeOK
<1> HIDE DEF c
<1>4. AskedAbout(capsule)'
  BY <1>1, <1>2 DEF AskInv, AskedAbout, SameEnts
<1>5. ASSUME NEW s \in Slots, c[s].st = "awaiting", c[s].ent \notin Unresolved
      PROVE  asked'[s] # NoEnt /\ (Unbroken' => asked'[s] = c[s].ent)
  <2>1. c[s].ent # NoEnt
    BY <1>3, <1>5, CellSplit, AbsentByEnt DEF Absent
  <2> QED BY <1>1, <1>2, <1>5, <2>1 DEF Dispatched, AskInv, SameEnts
<1>6. ASSUME NEW u \in Tasks \ {t} PROVE AskedLate(u)'
  <2> SUFFICES ASSUME pc[u] \in LatePCs \ {"approve"}, NEW s \in Slots,
                      case[u][s].st = "awaiting", case[u][s].ent \notin Unresolved
               PROVE  asked'[s] # NoEnt /\ (Unbroken' => asked'[s] = case[u][s].ent)
    BY DEF AskedLate, AskedIn, OwnStep
  <2>1. asked[s] # NoEnt /\ (Unbroken => asked[s] = case[u][s].ent)
    BY DEF AskInv, AskedIn
  <2> QED BY <1>1, <2>1 DEF Dispatched
<1> QED BY <1>1, <1>4, <1>5, <1>6 DEF AskInv, AskedIn, AskedAbout, AskedLate

(* Who is waited for was asked: the Approve stage asks before a pass can   *)
(* end waiting.                                                            *)
LEMMA AskNext ==
    ASSUME TypeOK, TypeOK', OrderlyPlans, OrderInv, FinalInv,
           AgreeInv, AskInv, [Next]_vars
    PROVE  AskInv'
<1>0. Unbroken' => Unbroken
  BY DeadStayDead
<1>1. CASE Nothing
  BY <1>1 DEF Nothing, CaseStays, taskVars, localVars, AskInv, AskedIn, Resuming, Unbroken
<1>2. ASSUME NEW t \in Tasks, OwnStep(t), StepOf(t) PROVE AskInv'
  <2> USE DEF LatePCs, Goto
  <2>1. AskedAbout(capsule) /\ AskedLate(t) /\ (Waits => AskedIn(capsule))
    BY DEF AskInv, AskedAbout, AskedLate, Waits
  <2>2. CASE Finalize(t)
    <3>1. /\ capsule' \in {capsule, case[t]} /\ asked' = asked /\ pc[t] = "finalize"
          /\ pc'[t] = "done"
      BY <2>2 DEF Finalize, SaveCase, SetStatus, Return, Raise, Leave, TypeOK, TaskTypeOK
    <3>2. SameEnts(case[t], capsule) /\ AskedIn(case[t])
      BY <2>1, <3>1 DEF AgreeInv, AskedLate
    <3>3. AskedAbout(capsule)'
      BY <1>0, <2>1, <3>1, <3>2 DEF AskedAbout, SameEnts
    <3>4. Waits' => AskedIn(capsule)'
      <4>1. CASE capsule' = case[t]
        BY <1>0, <3>1, <3>2, <4>1 DEF AskedIn
      <4>2. CASE capsule' # case[t]
        <5>1. status' = status
          BY <2>2, <4>2 DEF Finalize, SaveCase, SetStatus
        <5>2. Waits' => Waits
          BY <1>2, <3>1, <5>1 DEF Waits, Resuming, OwnStep, ResumePCs, PassPCs
        <5> QED BY <1>0, <2>1, <3>1, <4>2, <5>2 DEF AskedIn
      <4> QED BY <4>1, <4>2
    <3> QED BY <1>0, <1>2, <3>1, <3>3, <3>4, AskStays DEF AskedLate
  <2>3. ASSUME ~Finalize(t) PROVE Waits' => Waits
    <3>1. \A u \in Tasks : Finalize(u) => u = t
      <4> SUFFICES ASSUME NEW u \in Tasks, Finalize(u), u # t PROVE FALSE
        OBVIOUS
      <4>1. pc[u] = "finalize" /\ pc'[u] = "done"
        BY DEF Finalize, SetStatus, Return, Raise, Leave, TypeOK, TaskTypeOK
      <4> QED BY <1>2, <4>1 DEF OwnStep
    <3> QED BY <2>3, <3>1, ResumesBegin DEF Waits
  <2>4. CASE ~Finalize(t) /\ (Calm(t) \/ TakeOver(t))
    <3>1. asked' = asked /\ capsule' = capsule /\ AskedLate(t)'
      BY <2>4 DEF Calm, TakeOver, CaseStays, AskedLate
    <3> QED BY <1>0, <1>2, <2>1, <2>3, <2>4, <3>1, AskStays DEF AskedAbout, AskedIn
  <2>5. CASE Compile(t) \/ Govern(t) \/ Plan(t)
    <3>1. pc[t] \in PlanPCs /\ pc[t] \notin AskingPCs
      BY <2>5 DEF Compile, Govern, Plan, PlanPCs, AskingPCs
    <3>2. status = "running" /\ \A u \in Tasks : ~Resuming(u)
      <4>1. Planning(t)
        BY <3>1, PlaceTells
      <4>2. ~Resuming(t)
        BY <3>1 DEF Resuming, PlanPCs, AskingPCs, ResumePCs, PassPCs
      <4> QED BY <3>1, <4>1, <4>2 DEF OrderInv, HoldInv, OneByOne
    <3>3. ~Finalize(t)
      BY <3>1 DEF Finalize, PlanPCs, AskingPCs
    <3>4. ~Waits'
      BY <2>3, <3>2, <3>3 DEF Waits
    <3>5. Unbroken => \A s \in Slots : asked[s] = NoEnt
      BY <3>1 DEF FinalInv, Begun
    <3>6. asked' = asked /\ AskedLate(t)'
      BY <2>5 DEF Compile, Govern, Plan, tableVars, jobVars, AskedLate, TypeOK, TaskTypeOK
    <3> QED BY <1>0, <1>2, <3>4, <3>5, <3>6, AskStays DEF AskedAbout
  <2>6. CASE Approve(t)
    BY <1>0, <1>2, <2>6, ApproveAsks
  <2>7. CASE ExecuteSave(t) \/ VerifySave(t)
    <3>1. /\ capsule' = case[t] /\ case' = case /\ asked' = asked /\ pc[t] \in {"execute", "verify"}
      BY <2>7 DEF ExecuteSave, VerifySave, SaveStage, SaveCase, jobVars
    <3>2. SameEnts(case[t], capsule) /\ AskedIn(case[t])
      BY <2>1, <3>1 DEF AgreeInv, AskedLate
    <3>3. AskedAbout(capsule') /\ AskedIn(capsule')
      BY <2>1, <3>1, <3>2 DEF AskedAbout, AskedIn, SameEnts
    <3>4. AskedLate(t)'
      BY <1>0, <3>1, <3>2 DEF AskedLate, AskedIn
    <3>5. AskedAbout(capsule)' /\ AskedIn(capsule)'
      BY <1>0, <3>1, <3>3 DEF AskedAbout, AskedIn
    <3> QED BY <1>0, <1>2, <3>1, <3>4, <3>5, AskStays
  <2>8. CASE ExecuteWrite(t) \/ VerifyRead(t)
    <3>1. PICK s \in Slots, st \in ActionState \ {"awaiting"} : case' = [case EXCEPT ![t][s].st = st]
      BY <2>8 DEF ExecuteWrite, WriteOutcomes, VerifyRead, VerifyOutcomes, ActionState
    <3>2. AskedIn(case[t]) /\ case[t] \in [Slots -> Cell] /\ case \in [Tasks -> [Slots -> Cell]]
      BY <2>1, <2>8 DEF ExecuteWrite, VerifyRead, AskedLate, TypeOK, TaskTypeOK
    <3>3. \A u \in Slots : case'[t][u].st = "awaiting" => case'[t][u] = case[t][u]
      BY <3>1, <3>2, CellKeepsEnt
    <3>4. asked' = asked /\ capsule' = capsule
      BY <2>8 DEF ExecuteWrite, VerifyRead, tableVars, jobVars, runVars
    <3>5. AskedLate(t)'
      BY <1>0, <3>2, <3>3, <3>4 DEF AskedLate, AskedIn
    <3>6. ~Finalize(t)
      BY <2>8 DEF ExecuteWrite, VerifyRead, Finalize
    <3> QED BY <1>0, <1>2, <2>1, <2>3, <3>4, <3>5, <3>6, AskStays DEF AskedAbout, AskedIn
  <2> QED BY <1>2, <2>2, <2>4, <2>5, <2>6, <2>7, <2>8 DEF StepOf
<1> QED BY <1>1, <1>2, StepKinds

(* A run that waits has asked: for every action that waits and has an      *)
(* approver a request was dispatched under its present id, though workers  *)
(* die and plans are made again.  The request shows the action's present   *)
(* parameters, unless a delivery of the ticket's job has died: the id may  *)
(* have been given to another action since (approve.py, hold_key).         *)
THEOREM WaitingAsked ==
    ASSUME OrderlyPlans
    PROVE  Spec => []( /\ status = "awaiting_approval" => AskedIn(capsule)
                       /\ Unbroken => WaitingWasAsked )
<1>1. Init => AskInv
  <2> SUFFICES ASSUME Init PROVE AskInv
    OBVIOUS
  <2>1. /\ \A s \in Slots : asked[s] = NoEnt
        /\ status = "none" /\ \A t \in Tasks : pc[t] = "idle"
    BY DEF Init
  <2> QED BY <2>1 DEF AskInv, LatePCs, Resuming, ResumePCs, PassPCs
<1>2. IInv /\ IInv' /\ ControlInv /\ AgreeInv /\ AskInv /\ [Next]_vars => AskInv'
  BY AskNext DEF IInv, ControlInv
<1>3. AskInv => (status = "awaiting_approval" => AskedIn(capsule)) /\ (Unbroken => WaitingWasAsked)
  BY DEF AskInv, AskedIn, WaitingWasAsked
<1> QED BY <1>1, <1>2, <1>3, InductiveInvariant, PlansFollowEachOther, VerifiedHolds, PTL DEF Spec

-----------------------------------------------------------------------------
(* Passes that overlap.                                                    *)

(* Two tasks move the run at once, in its plan or in a pass, only if both  *)
(* act on a decision or are calls of the MCP tool: nothing in the code     *)
(* keeps those apart, while a first pass is alone (runner.py, intake.py,   *)
(* rest.py).                                                               *)
THEOREM OnlyDecisionsOverlap ==
    ASSUME OrderlyPlans
    PROVE  Spec => [](\A t, u \in Tasks :
                         pc[t] \in PlanPCs \cup PassPCs /\ pc[u] \in PlanPCs \cup PassPCs =>
                             t = u \/ {t, u} \subseteq Resumers)
<1>1. ControlInv => \A t, u \in Tasks :
                       pc[t] \in PlanPCs \cup PassPCs /\ pc[u] \in PlanPCs \cup PassPCs =>
                           t = u \/ {t, u} \subseteq Resumers
  <2> SUFFICES ASSUME OrderInv, NEW t \in Tasks, NEW u \in Tasks, t # u,
                      pc[t] \in PlanPCs \cup PassPCs, pc[u] \in PlanPCs \cup PassPCs
               PROVE  t \in Resumers /\ u \in Resumers
    BY DEF ControlInv
  <2>1. ~Planning(t) /\ ~Planning(u)
    BY PlaceTells DEF OrderInv, OneByOne
  <2> QED BY <2>1, PlaceTells DEF Resuming
<1> QED BY <1>1, PlansFollowEachOther, PTL
=============================================================================
