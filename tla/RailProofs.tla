----------------------------- MODULE RailProofs -----------------------------
(***************************************************************************)
(* The proofs about Rail: its types, the authority behind every write, and *)
(* that it implements module Authority, for every request, every verdict,  *)
(* any number of tasks and of crashes.                                     *)
(*                                                                         *)
(* The argument: WritesAreAuthorised is not inductive, since a task writes *)
(* from its own copy of the case.  IInv (module RailInv) therefore says of *)
(* each copy, the stored one and every task's, that an action is approved  *)
(* there only by a decision on record for its id and its parameters, and a *)
(* decision on record is never replaced (ApprovalsStay).  The lemmas about *)
(* the planner come first: what policy has just governed, and what a plan  *)
(* lists.  Then one lemma shows for each action that IInv survives it;     *)
(* first those of the control alone.                                       *)
(***************************************************************************)
EXTENDS RailInv, FiniteSetTheorems, TLAPS

-----------------------------------------------------------------------------
(* What the planner makes of the policy's verdicts.                        *)

(* A cell of a case that policy has just governed: nothing is approved,    *)
(* and only held actions wait.                                             *)
Fresh(cell) ==
    /\ cell \in Cell
    /\ cell.st \in {"absent", "planned", "awaiting", "refused"}
    /\ cell.st = "awaiting" => Verdict[cell.ent] = "HOLD"

(* The action ids are finitely many (A01.., R01..), so they can be         *)
(* counted.                                                                *)
LEMMA SlotsFinite == IsFiniteSet(Slots)
<1>1. Len(Grants) \in Nat /\ Len(Revokes) \in Nat
  BY PlanAssumption
<1>2. Len(Grants) + Len(Revokes) \in Nat
  BY <1>1
<1> QED BY <1>2, FS_Interval DEF Slots

(* No action and a governed action are the two kinds of cell.              *)
LEMMA AbsentFresh == Fresh(Absent)
BY DEF Fresh, Absent, Cell

(* apply_verdict starts an action planned, waiting or refused: never       *)
(* approved, and waiting only if policy held it.                           *)
LEMMA GovernedFresh == ASSUME NEW e \in Ents PROVE Fresh(Governed(e))
<1>1. Verdict[e] \in {"ALLOW", "HOLD", "REFUSE"}
  BY PlanAssumption DEF VerdictKind
<1> QED BY <1>1 DEF Fresh, Governed, StateAfterVerdict, Cell, ActionState

(* build_candidates and build_plan number actions in this way.             *)
LEMMA NumberedFresh ==
    ASSUME NEW list \in Seq(Ents), NEW keep, NEW i
    PROVE  Fresh(Numbered(list, keep, i))
<1> DEFINE IsIth(k) == /\ list[k] \in keep
                       /\ Cardinality({j \in 1 .. k : list[j] \in keep}) = i
<1>1. CASE \E k \in DOMAIN list : IsIth(k)
  <2> DEFINE chosen == CHOOSE k \in DOMAIN list : IsIth(k)
  <2>1. chosen \in DOMAIN list
    BY <1>1
  <2>2. list[chosen] \in Ents
    BY <2>1
  <2>3. Numbered(list, keep, i) = Governed(list[chosen])
    BY <1>1 DEF Numbered
  <2> QED BY <2>2, <2>3, GovernedFresh
<1>2. CASE ~ \E k \in DOMAIN list : IsIth(k)
  BY <1>2, AbsentFresh DEF Numbered
<1> QED BY <1>1, <1>2

(* Govern hands Plan a fresh case, whatever the subject holds.             *)
LEMMA CandidatesFresh ==
    ASSUME NEW holdings
    PROVE  /\ Candidates(holdings) \in [Slots -> Cell]
           /\ \A s \in Slots : Fresh(Candidates(holdings)[s])
<1>1. \A s \in Slots : Fresh(Candidates(holdings)[s])
  BY PlanAssumption, NumberedFresh, AbsentFresh DEF Candidates
<1> QED BY <1>1 DEF Candidates, Fresh

(* Plan keeps what Govern found and adds the revocations of a transfer.    *)
LEMMA PlanKeepsOrFresh ==
    ASSUME NEW candidates \in [Slots -> Cell], NEW holdings
    PROVE  /\ BuildPlan(candidates, holdings) \in [Slots -> Cell]
           /\ \A s \in Slots : \/ BuildPlan(candidates, holdings)[s] = candidates[s]
                               \/ Fresh(BuildPlan(candidates, holdings)[s])
<1>1. \A s \in Slots : \/ BuildPlan(candidates, holdings)[s] = candidates[s]
                      \/ Fresh(BuildPlan(candidates, holdings)[s])
  BY PlanAssumption, NumberedFresh DEF BuildPlan
<1> QED BY <1>1 DEF BuildPlan, Fresh

(* An action id either has no action, or has one with a state of its own   *)
(* that may be replaced.                                                   *)
LEMMA CellSplit ==
    ASSUME NEW cell \in Cell
    PROVE  \/ cell = Absent
           \/ /\ cell # Absent /\ cell.st # "absent"
              /\ cell.ent \in Ents /\ cell.st \in ActionState
BY PlanAssumption DEF Cell, Absent, ActionState

(* Action.transition changes an action's state and nothing else of it.     *)
LEMMA CellUpdate ==
    ASSUME NEW cell \in Cell, cell # Absent, NEW st \in ActionState
    PROVE  LET moved == [cell EXCEPT !.st = st]
           IN  /\ moved \in Cell /\ moved # Absent
               /\ moved.st = st /\ moved.ent = cell.ent
<1>1. cell \in [ent : Ents, st : ActionState]
  BY PlanAssumption DEF Cell, Absent
<1> QED BY <1>1, PlanAssumption DEF Cell, Absent, ActionState

-----------------------------------------------------------------------------
(* What a plan lists.                                                      *)

(* The entitlement a slot would be for, if nothing were held yet.          *)
Wanted(i) == IF i <= Len(Grants) THEN Grants[i] ELSE Revokes[i - Len(Grants)]

(* The slots are the places of the two lists, one after the other.         *)
LEMMA ListTypes ==
    /\ Len(Grants) \in Nat /\ DOMAIN Grants = 1 .. Len(Grants)
    /\ Len(Revokes) \in Nat /\ DOMAIN Revokes = 1 .. Len(Revokes)
    /\ \A i \in DOMAIN Grants : Grants[i] \in Ents /\ Grants[i] \in GrantEnts
    /\ \A i \in DOMAIN Revokes : Revokes[i] \in Ents
    /\ \A i \in DOMAIN Grants : i \in Slots /\ Wanted(i) = Grants[i]
    /\ \A i \in DOMAIN Revokes : /\ Len(Grants) + i \in Slots
                                 /\ Wanted(Len(Grants) + i) = Revokes[i]
    /\ \A s \in Slots : s \in DOMAIN Grants \/ s - Len(Grants) \in DOMAIN Revokes
BY PlanAssumption DEF Slots, Ents, GrantEnts, Wanted

(* No entitlement is listed twice, in one list or in both.                 *)
LEMMA ListedOnce ==
    \A s, u \in Slots : Wanted(s) = Wanted(u) => s = u
<1> DEFINE w == [s \in Slots |-> Wanted(s)]
<1>1. w \in [Slots -> Ents]
  BY ListTypes DEF Wanted, Slots
<1>2. \A e \in Ents : \E s \in Slots : w[s] = e
  <2> SUFFICES ASSUME NEW e \in Ents PROVE \E s \in Slots : w[s] = e
    OBVIOUS
  <2>1. CASE \E i \in DOMAIN Grants : e = Grants[i]
    BY <2>1, ListTypes
  <2>2. CASE \E i \in DOMAIN Revokes : e = Revokes[i]
    BY <2>2, ListTypes
  <2> QED BY <2>1, <2>2 DEF Ents
<1>3. w \in Surjection(Slots, Ents)
  BY <1>1, <1>2 DEF Surjection
<1>4. Cardinality(Slots) = Len(Grants) + Len(Revokes)
  <2>1. Len(Grants) + Len(Revokes) \in Nat
    BY ListTypes
  <2> QED BY <2>1, FS_Interval DEF Slots
<1>5. w \in Injection(Slots, Ents)
  BY <1>3, <1>4, SlotsFinite, PlanAssumption, FS_Surjection
<1> QED BY <1>5 DEF Injection, IsInjective

(* A transfer takes away nothing it gives.                                 *)
LEMMA RevocationsApart ==
    /\ \A i, j \in DOMAIN Grants : Grants[i] = Grants[j] => i = j
    /\ \A i, j \in DOMAIN Revokes : Revokes[i] = Revokes[j] => i = j
    /\ \A i \in DOMAIN Revokes : Revokes[i] \notin GrantEnts
<1>1. \A i, j \in DOMAIN Grants : Grants[i] = Grants[j] => i = j
  BY ListTypes, ListedOnce
<1>2. \A i, j \in DOMAIN Revokes : Revokes[i] = Revokes[j] => i = j
  <2> SUFFICES ASSUME NEW i \in DOMAIN Revokes, NEW j \in DOMAIN Revokes,
                      Revokes[i] = Revokes[j]
               PROVE  i = j
    OBVIOUS
  <2>1. Len(Grants) + i = Len(Grants) + j
    BY ListTypes, ListedOnce
  <2> QED BY <2>1, ListTypes
<1>3. ASSUME NEW i \in DOMAIN Revokes, Revokes[i] \in GrantEnts PROVE FALSE
  <2>1. PICK j \in DOMAIN Grants : Revokes[i] = Grants[j]
    BY <1>3 DEF GrantEnts
  <2>2. Len(Grants) + i = j
    BY <2>1, ListTypes, ListedOnce
  <2> QED BY <2>2, ListTypes
<1> QED BY <1>1, <1>2, <1>3

(* The number an entitlement of the list gets.                             *)
NumberOf(list, keep, k) == Cardinality({j \in 1 .. k : list[j] \in keep})

(* The number of a wanted entitlement that comes after none but wanted     *)
(* ones is its place in the list.                                          *)
LEMMA NumberedInPlace ==
    ASSUME NEW list \in Seq(Ents), NEW keep, NEW i \in DOMAIN list,
           \A j \in 1 .. i : list[j] \in keep
    PROVE  NumberOf(list, keep, i) = i
<1>1. {j \in 1 .. i : list[j] \in keep} = 1 .. i
  OBVIOUS
<1>2. i \in Nat /\ i >= 1
  OBVIOUS
<1>3. Cardinality(1 .. i) = i
  BY <1>2, FS_Interval
<1> QED BY <1>1, <1>3 DEF NumberOf

(* If all of the list is wanted, its numbers are its places.               *)
LEMMA NumberedAll ==
    ASSUME NEW list \in Seq(Ents), NEW keep, \A j \in DOMAIN list : list[j] \in keep,
           NEW i \in DOMAIN list
    PROVE  Numbered(list, keep, i) = Governed(list[i])
<1> DEFINE IsIth(k) == /\ list[k] \in keep
                       /\ Cardinality({j \in 1 .. k : list[j] \in keep}) = i
<1>1. \A k \in DOMAIN list : NumberOf(list, keep, k) = k
  <2> TAKE k \in DOMAIN list
  <2>1. \A j \in 1 .. k : list[j] \in keep
    OBVIOUS
  <2> HIDE DEF IsIth
  <2> QED BY <2>1, NumberedInPlace
<1>2. \A k \in DOMAIN list : IsIth(k) <=> k = i
  BY <1>1 DEF NumberOf
<1>3. (CHOOSE k \in DOMAIN list : IsIth(k)) = i
  BY <1>2
<1> QED BY <1>2, <1>3 DEF Numbered

(* What has a number is wanted; and it has one number only.                *)
LEMMA NumberedIsKept ==
    ASSUME NEW list \in Seq(Ents), NEW keep, NEW i, Numbered(list, keep, i) # Absent
    PROVE  \E k \in DOMAIN list :
               /\ list[k] \in keep
               /\ NumberOf(list, keep, k) = i
               /\ Numbered(list, keep, i) = Governed(list[k])
               /\ Numbered(list, keep, i).ent = list[k]
<1> DEFINE IsIth(k) == /\ list[k] \in keep
                       /\ Cardinality({j \in 1 .. k : list[j] \in keep}) = i
<1>1. \E k \in DOMAIN list : IsIth(k)
  BY DEF Numbered
<1>2. PICK k \in DOMAIN list : k = CHOOSE x \in DOMAIN list : IsIth(x)
  BY <1>1
<1>3. IsIth(k) /\ Numbered(list, keep, i) = Governed(list[k])
  BY <1>1, <1>2 DEF Numbered
<1>4. Numbered(list, keep, i).ent = list[k]
  BY <1>3 DEF Governed
<1>5. list[k] \in keep /\ NumberOf(list, keep, k) = i
  BY <1>3 DEF NumberOf
<1> QED BY <1>3, <1>4, <1>5

-----------------------------------------------------------------------------
(* What a task carries.                                                    *)

(* The case file Compile seals, with no action in it yet, is a case.       *)
LEMMA EmptyCaseType == EmptyCase \in [Slots -> Cell] /\ Absent \in Cell
BY DEF Absent, Cell, EmptyCase

(* What no step may undo: a decision on record, and the presence of a row. *)
ApprovalsStay == \A s \in Slots : approvals[s] # NoApproval => approvals'[s] = approvals[s]
RowsStay == \A s \in Slots : rows[s] # Absent => rows'[s] # Absent

(* A step of task t leaves the other tasks alone.                          *)
Others(t) ==
    \A u \in Tasks \ {t} : /\ pc'[u] = pc[u] /\ case'[u] = case[u]
                           /\ touched'[u] = touched[u] /\ ask'[u] = ask[u]

(* A case whose approved actions have their decision on record keeps them: *)
(* record_approval never overwrites a decision.                            *)
LEMMA SoundStays ==
    ASSUME ApprovalsStay, TableTypeOK, NEW c \in [Slots -> Cell], Sound(c, approvals)
    PROVE  Sound(c, approvals')
<1> SUFFICES ASSUME NEW s \in Slots, c[s].st = "approved"
             PROVE  approvals'[s] = [ent |-> c[s].ent, decision |-> "approved"]
  BY DEF Sound
<1>1. approvals[s] = [ent |-> c[s].ent, decision |-> "approved"]
  BY DEF Sound
<1>2. approvals[s] # NoApproval
  BY <1>1 DEF NoApproval
<1> QED BY <1>1, <1>2 DEF ApprovalsStay

(* A step that sends no write takes no authority away from the writes      *)
(* already made.                                                           *)
LEMMA AuthorityStays ==
    ASSUME IInv, ApprovalsStay, ledger' = ledger
    PROVE  WritesAreAuthorised'
<1> SUFFICES ASSUME NEW k \in ledger, Verdict[k[2]] # "ALLOW"
             PROVE  /\ Verdict[k[2]] = "HOLD"
                    /\ approvals'[k[1]] = [ent |-> k[2], decision |-> "approved"]
  BY DEF WritesAreAuthorised
<1>1. Verdict[k[2]] = "HOLD" /\ approvals[k[1]] = [ent |-> k[2], decision |-> "approved"]
  BY DEF IInv, WritesAreAuthorised
<1>2. approvals[k[1]] # NoApproval
  BY <1>1 DEF NoApproval
<1>3. k[1] \in Slots
  BY DEF IInv, TypeOK, SystemTypeOK
<1> QED BY <1>1, <1>2, <1>3 DEF ApprovalsStay

(* What the other tasks hold stays sound through a step of task t: they    *)
(* share only the tables with it, and it takes back no decision and no     *)
(* row.                                                                    *)
LEMMA OthersKeep ==
    ASSUME IInv, ApprovalsStay, RowsStay, NEW t \in Tasks, Others(t), TaskInv(t)'
    PROVE  \A u \in Tasks : TaskInv(u)'
<1> SUFFICES ASSUME NEW u \in Tasks \ {t} PROVE TaskInv(u)'
  OBVIOUS
<1>1. /\ pc'[u] = pc[u] /\ case'[u] = case[u]
      /\ touched'[u] = touched[u] /\ ask'[u] = ask[u]
  BY DEF Others
<1>2. TaskInv(u)
  BY DEF IInv
<1>3. case[u] \in [Slots -> Cell]
  BY DEF IInv, TypeOK, TaskTypeOK
<1>4. Sound(case'[u], approvals')
  BY <1>1, <1>2, <1>3, SoundStays DEF TaskInv, IInv, TypeOK
<1>5. pc[u] \in LatePCs => Known(case'[u], rows')
  BY <1>1, <1>2 DEF TaskInv, Known, RowsStay
<1> QED BY <1>1, <1>2, <1>4, <1>5 DEF TaskInv

(* A task that ends carries nothing.                                       *)
LEMMA LeaveKeeps ==
    ASSUME IInv, NEW t \in Tasks, NEW label \in {"done", "crashed"}, Leave(t, label)
    PROVE  TaskTypeOK' /\ LockTypeOK' /\ Others(t) /\ TaskInv(t)'
<1> USE DEF IInv, TypeOK, TaskTypeOK
<1>1. pc' = [pc EXCEPT ![t] = label] /\ pc' \in [Tasks -> PCs]
  BY DEF Leave, Goto, PCs
<1>2. case' = [case EXCEPT ![t] = EmptyCase] /\ case' \in [Tasks -> [Slots -> Cell]]
  BY EmptyCaseType DEF Leave
<1>3. blk' \in [Tasks -> BOOLEAN] /\ seen' \in [Tasks -> SUBSET Ents]
  BY DEF Leave
<1>4. touched' = [touched EXCEPT ![t] = {}] /\ touched' \in [Tasks -> SUBSET Slots]
  BY DEF Leave
<1>5. /\ ask' = [ask EXCEPT ![t] = NoAsk]
      /\ ask' \in [Tasks -> [slot : Slots, ent : Ents, decision : Decision] \cup {NoAsk}]
  BY DEF Leave
<1>6. LockTypeOK'
  BY DEF Leave, Released, LockTypeOK
<1>7. Others(t)
  BY <1>1, <1>2, <1>4, <1>5 DEF Others
<1>8. Sound(case'[t], approvals')
  BY <1>2 DEF Sound, EmptyCase, Absent
<1>9. TaskInv(t)'
  BY <1>1, <1>4, <1>8 DEF TaskInv, LatePCs, Touching
<1> QED BY <1>1, <1>2, <1>3, <1>4, <1>5, <1>6, <1>7, <1>9

(* A task that only moves on, to a place where nothing is assumed of its   *)
(* copy of the case.                                                       *)
LEMMA GotoKeeps ==
    ASSUME IInv, ApprovalsStay, NEW t \in Tasks, pc[t] \notin Touching,
           NEW label \in PCs \ (LatePCs \cup {"record"}), Goto(t, label),
           UNCHANGED localVars
    PROVE  TaskTypeOK' /\ Others(t) /\ TaskInv(t)'
<1>1. pc' = [pc EXCEPT ![t] = label] /\ pc' \in [Tasks -> PCs]
  BY DEF Goto, IInv, TypeOK, TaskTypeOK
<1>2. /\ case' = case /\ blk' = blk /\ touched' = touched /\ seen' = seen
      /\ ask' = ask
  BY DEF localVars
<1>3. TaskTypeOK' /\ Others(t)
  BY <1>1, <1>2 DEF IInv, TypeOK, TaskTypeOK, Others
<1>4. Sound(case'[t], approvals') /\ touched[t] = {}
  BY <1>2, SoundStays DEF IInv, TypeOK, TaskTypeOK, TaskInv
<1>5. pc'[t] \notin LatePCs /\ pc'[t] # "record" /\ pc'[t] \notin Touching
  BY <1>1 DEF LatePCs, Touching, IInv, TypeOK, TaskTypeOK
<1> QED BY <1>2, <1>3, <1>4, <1>5 DEF TaskInv

(* A step that changes nothing anyone could act upon but the status.       *)
LEMMA ControlKeeps ==
    ASSUME IInv, NEW t \in Tasks,
           status' \in RunStatus \cup {"none"}, sealed' \in BOOLEAN, jobDone' \in BOOLEAN,
           UNCHANGED <<capsule, blockers, rows, approvals, asked, receipts, usage,
                       systemVars>>,
           TaskTypeOK', LockTypeOK', Others(t), TaskInv(t)'
    PROVE  IInv'
<1>1. ApprovalsStay /\ RowsStay
  BY DEF ApprovalsStay, RowsStay
<1>2. TypeOK'
  BY DEF IInv, TypeOK, RunTypeOK, TableTypeOK, SystemTypeOK, systemVars
<1>3. TableInv'
  BY DEF IInv, TableInv
<1>4. \A u \in Tasks : TaskInv(u)'
  BY <1>1, OthersKeep
<1>5. WritesAreAuthorised'
  BY <1>1, AuthorityStays DEF systemVars
<1> QED BY <1>2, <1>3, <1>4, <1>5 DEF IInv

(* A step that touches no advisory lock keeps the holders' types.          *)
LEMMA UnchangedLocks == ASSUME IInv, UNCHANGED lockVars PROVE LockTypeOK'
BY DEF IInv, TypeOK, LockTypeOK, lockVars

(* Together: the task ends, or moves on to such a place.                   *)
EndsOrMovesOn(t) ==
    \/ \E label \in {"done", "crashed"} : Leave(t, label)
    \/ /\ pc[t] \notin Touching
       /\ \E label \in PCs \ (LatePCs \cup {"record"}) : Goto(t, label)
       /\ UNCHANGED localVars
       /\ LockTypeOK'

(* A step of the run's control (a guard, a status, a lock) that ends the   *)
(* task or moves it on keeps the invariant.                                *)
LEMMA ControlStep ==
    ASSUME IInv, NEW t \in Tasks,
           status' \in RunStatus \cup {"none"}, sealed' \in BOOLEAN, jobDone' \in BOOLEAN,
           UNCHANGED <<capsule, blockers, rows, approvals, asked, receipts, usage,
                       systemVars>>,
           EndsOrMovesOn(t)
    PROVE  IInv'
<1>1. ApprovalsStay
  BY DEF ApprovalsStay
<1>2. TaskTypeOK' /\ LockTypeOK' /\ Others(t) /\ TaskInv(t)'
  BY <1>1, LeaveKeeps, GotoKeeps DEF EndsOrMovesOn
<1> QED BY <1>2, ControlKeeps

(* A process may die between any two transactions: its copy of the case is *)
(* lost, the tables stay.                                                  *)
LEMMA CrashKeeps == ASSUME IInv, NEW t \in Tasks, Crash(t) PROVE IInv'
<1>1. /\ status' \in RunStatus \cup {"none"} /\ sealed' \in BOOLEAN /\ jobDone' \in BOOLEAN
      /\ UNCHANGED <<capsule, blockers, rows, approvals, asked, receipts, usage,
                     systemVars>>
  BY DEF Crash, runVars, tableVars, jobVars, RunStatus,
         IInv, TypeOK, RunTypeOK, TableTypeOK
<1>2. EndsOrMovesOn(t)
  BY UnchangedLocks DEF Crash, EndsOrMovesOn, Touching, LatePCs, PCs
<1> QED BY <1>1, <1>2, ControlStep

(* rail_run with a ticket_id: a first or a repeated delivery.              *)
LEMMA TicketJobKeeps == ASSUME IInv, NEW t \in Tasks, TicketJob(t) PROVE IInv'
<1>1. /\ status' \in RunStatus \cup {"none"} /\ sealed' \in BOOLEAN /\ jobDone' \in BOOLEAN
      /\ UNCHANGED <<capsule, blockers, rows, approvals, asked, receipts, usage,
                     systemVars>>
  BY DEF TicketJob, Return, RunStatus, IInv, TypeOK, RunTypeOK, TableTypeOK
<1>2. EndsOrMovesOn(t)
  BY DEF TicketJob, Return, EndsOrMovesOn, Touching, LatePCs, PCs,
         IInv, TypeOK, LockTypeOK
<1> QED BY <1>1, <1>2, ControlStep

(* rail_run with a run_id.                                                 *)
LEMMA RunJobKeeps == ASSUME IInv, NEW t \in Tasks, RunJob(t) PROVE IInv'
<1>1. /\ status' \in RunStatus \cup {"none"} /\ sealed' \in BOOLEAN /\ jobDone' \in BOOLEAN
      /\ UNCHANGED <<capsule, blockers, rows, approvals, asked, receipts, usage,
                     systemVars>>
  BY DEF RunJob, runVars, tableVars, jobVars, RunStatus,
         IInv, TypeOK, RunTypeOK, TableTypeOK
<1>2. EndsOrMovesOn(t)
  BY UnchangedLocks DEF RunJob, EndsOrMovesOn, Touching, LatePCs, PCs
<1> QED BY <1>1, <1>2, ControlStep

(* continue_run under the run's lock.                                      *)
LEMMA ContinueRunKeeps == ASSUME IInv, NEW t \in Tasks, ContinueRun(t) PROVE IInv'
<1>1. /\ status' \in RunStatus \cup {"none"} /\ sealed' \in BOOLEAN /\ jobDone' \in BOOLEAN
      /\ UNCHANGED <<capsule, blockers, rows, approvals, asked, receipts, usage,
                     systemVars>>
  BY DEF ContinueRun, Return, runVars, RunStatus, IInv, TypeOK, RunTypeOK, TableTypeOK
<1>2. EndsOrMovesOn(t)
  BY DEF ContinueRun, Return, EndsOrMovesOn, Touching, LatePCs, PCs,
         IInv, TypeOK, LockTypeOK
<1> QED BY <1>1, <1>2, ControlStep

(* Door.start_run.                                                         *)
LEMMA StartRunKeeps == ASSUME IInv, NEW t \in Tasks, StartRun(t) PROVE IInv'
<1>1. /\ status' \in RunStatus \cup {"none"} /\ sealed' \in BOOLEAN /\ jobDone' \in BOOLEAN
      /\ UNCHANGED <<capsule, blockers, rows, approvals, asked, receipts, usage,
                     systemVars>>
  BY DEF StartRun, runVars, tableVars, jobVars, RunStatus,
         IInv, TypeOK, RunTypeOK, TableTypeOK
<1>2. EndsOrMovesOn(t)
  BY UnchangedLocks DEF StartRun, EndsOrMovesOn, Touching, LatePCs, PCs
<1> QED BY <1>1, <1>2, ControlStep

(* POST /runs/{id}/pick, which holds the run's lock.                       *)
LEMMA PickInRestKeeps == ASSUME IInv, NEW t \in Tasks, PickInRest(t) PROVE IInv'
<1>1. /\ status' \in RunStatus \cup {"none"} /\ sealed' \in BOOLEAN /\ jobDone' \in BOOLEAN
      /\ UNCHANGED <<capsule, blockers, rows, approvals, asked, receipts, usage,
                     systemVars>>
  BY DEF PickInRest, runVars, tableVars, jobVars, IInv, TypeOK, RunTypeOK, TableTypeOK
<1>2. EndsOrMovesOn(t)
  BY DEF PickInRest, EndsOrMovesOn, Touching, LatePCs, PCs, IInv, TypeOK, LockTypeOK
<1> QED BY <1>1, <1>2, ControlStep

(* The Slack pick button, which holds no lock.                             *)
LEMMA PickInSlackKeeps == ASSUME IInv, NEW t \in Tasks, PickInSlack(t) PROVE IInv'
<1>1. /\ status' \in RunStatus \cup {"none"} /\ sealed' \in BOOLEAN /\ jobDone' \in BOOLEAN
      /\ UNCHANGED <<capsule, blockers, rows, approvals, asked, receipts, usage,
                     systemVars>>
  BY DEF PickInSlack, runVars, tableVars, jobVars, RunStatus,
         IInv, TypeOK, RunTypeOK, TableTypeOK
<1>2. EndsOrMovesOn(t)
  BY UnchangedLocks DEF PickInSlack, EndsOrMovesOn, Touching, LatePCs, PCs
<1> QED BY <1>1, <1>2, ControlStep

(* The status check at the head of Runner.run.                             *)
LEMMA OpenRunKeeps == ASSUME IInv, NEW t \in Tasks, OpenRun(t) PROVE IInv'
<1>1. /\ status' \in RunStatus \cup {"none"} /\ sealed' \in BOOLEAN /\ jobDone' \in BOOLEAN
      /\ UNCHANGED <<capsule, blockers, rows, approvals, asked, receipts, usage,
                     systemVars>>
  BY DEF OpenRun, Raise, runVars, tableVars, jobVars, RunStatus,
         IInv, TypeOK, RunTypeOK, TableTypeOK
<1>2. EndsOrMovesOn(t)
  BY UnchangedLocks DEF OpenRun, Raise, EndsOrMovesOn, Touching, LatePCs, PCs
<1> QED BY <1>1, <1>2, ControlStep

(* Runner.run sets an answered run running.                                *)
LEMMA SetRunKeeps == ASSUME IInv, NEW t \in Tasks, SetRun(t) PROVE IInv'
<1>1. /\ status' \in RunStatus \cup {"none"} /\ sealed' \in BOOLEAN /\ jobDone' \in BOOLEAN
      /\ UNCHANGED <<capsule, blockers, rows, approvals, asked, receipts, usage,
                     systemVars>>
  BY DEF SetRun, Raise, runVars, tableVars, jobVars, RunStatus,
         IInv, TypeOK, RunTypeOK, TableTypeOK
<1>2. EndsOrMovesOn(t)
  BY UnchangedLocks DEF SetRun, Raise, EndsOrMovesOn, Touching, LatePCs, PCs
<1> QED BY <1>1, <1>2, ControlStep

(* The DISCOVER stage: on to Compile, a question, or an answered query.    *)
LEMMA DiscoverKeeps == ASSUME IInv, NEW t \in Tasks, Discover(t) PROVE IInv'
<1>1. /\ status' \in RunStatus \cup {"none"} /\ sealed' \in BOOLEAN /\ jobDone' \in BOOLEAN
      /\ UNCHANGED <<capsule, blockers, rows, approvals, asked, receipts, usage,
                     systemVars>>
  BY DEF Discover, SetStatus, Return, Raise, runVars, tableVars, jobVars, RunStatus,
         IInv, TypeOK, RunTypeOK, TableTypeOK
<1>2. EndsOrMovesOn(t)
  BY UnchangedLocks DEF Discover, SetStatus, Return, Raise, EndsOrMovesOn, Touching, LatePCs, PCs
<1> QED BY <1>1, <1>2, ControlStep

(* execute_and_verify opens a handle and resumes the run.                  *)
LEMMA McpCallKeeps == ASSUME IInv, NEW t \in Tasks, McpCall(t) PROVE IInv'
<1>1. /\ status' \in RunStatus \cup {"none"} /\ sealed' \in BOOLEAN /\ jobDone' \in BOOLEAN
      /\ UNCHANGED <<capsule, blockers, rows, approvals, asked, receipts, usage,
                     systemVars>>
  BY DEF McpCall, runVars, tableVars, jobVars, RunStatus,
         IInv, TypeOK, RunTypeOK, TableTypeOK
<1>2. EndsOrMovesOn(t)
  BY UnchangedLocks DEF McpCall, EndsOrMovesOn, Touching, LatePCs, PCs
<1> QED BY <1>1, <1>2, ControlStep

(* Runner.resume reads the status.                                         *)
LEMMA OpenResumeKeeps == ASSUME IInv, NEW t \in Tasks, OpenResume(t) PROVE IInv'
<1>1. /\ status' \in RunStatus \cup {"none"} /\ sealed' \in BOOLEAN /\ jobDone' \in BOOLEAN
      /\ UNCHANGED <<capsule, blockers, rows, approvals, asked, receipts, usage,
                     systemVars>>
  BY DEF OpenResume, Return, runVars, tableVars, jobVars, RunStatus,
         IInv, TypeOK, RunTypeOK, TableTypeOK
<1>2. EndsOrMovesOn(t)
  BY UnchangedLocks DEF OpenResume, Return, EndsOrMovesOn, Touching, LatePCs, PCs
<1> QED BY <1>1, <1>2, ControlStep

(* _status checks the move to running.                                     *)
LEMMA CheckResumeKeeps == ASSUME IInv, NEW t \in Tasks, CheckResume(t) PROVE IInv'
<1>1. /\ status' \in RunStatus \cup {"none"} /\ sealed' \in BOOLEAN /\ jobDone' \in BOOLEAN
      /\ UNCHANGED <<capsule, blockers, rows, approvals, asked, receipts, usage,
                     systemVars>>
  BY DEF CheckResume, Raise, runVars, tableVars, jobVars, RunStatus,
         IInv, TypeOK, RunTypeOK, TableTypeOK
<1>2. EndsOrMovesOn(t)
  BY UnchangedLocks DEF CheckResume, Raise, EndsOrMovesOn, Touching, LatePCs, PCs
<1> QED BY <1>1, <1>2, ControlStep

(* _status writes running.                                                 *)
LEMMA SetResumeKeeps == ASSUME IInv, NEW t \in Tasks, SetResume(t) PROVE IInv'
<1>1. /\ status' \in RunStatus \cup {"none"} /\ sealed' \in BOOLEAN /\ jobDone' \in BOOLEAN
      /\ UNCHANGED <<capsule, blockers, rows, approvals, asked, receipts, usage,
                     systemVars>>
  BY DEF SetResume, runVars, tableVars, jobVars, RunStatus,
         IInv, TypeOK, RunTypeOK, TableTypeOK
<1>2. EndsOrMovesOn(t)
  BY UnchangedLocks DEF SetResume, EndsOrMovesOn, Touching, LatePCs, PCs
<1> QED BY <1>1, <1>2, ControlStep

(* _halt fails the run, if it may still fail.                              *)
LEMMA HaltKeeps == ASSUME IInv, NEW t \in Tasks, Halt(t) PROVE IInv'
<1>1. /\ status' \in RunStatus \cup {"none"} /\ sealed' \in BOOLEAN /\ jobDone' \in BOOLEAN
      /\ UNCHANGED <<capsule, blockers, rows, approvals, asked, receipts, usage,
                     systemVars>>
  BY DEF Halt, SetStatus, Return, Raise, RunStatus, IInv, TypeOK, RunTypeOK, TableTypeOK
<1>2. EndsOrMovesOn(t)
  BY DEF Halt, SetStatus, Return, Raise, EndsOrMovesOn, Touching
<1> QED BY <1>1, <1>2, ControlStep

(* Somebody edits the stored capsule: the seal breaks.                     *)
LEMMA TamperKeeps == ASSUME IInv, Tamper PROVE IInv'
<1>1. TypeOK' /\ TableInv' /\ WritesAreAuthorised'
  BY DEF Tamper, tableVars, jobVars, systemVars, lockVars, taskVars, localVars, IInv,
         TypeOK, RunTypeOK, TableTypeOK, SystemTypeOK, LockTypeOK, TaskTypeOK, TableInv,
         WritesAreAuthorised
<1>2. \A t \in Tasks : TaskInv(t)'
  BY DEF Tamper, tableVars, taskVars, localVars, IInv, TaskInv
<1> QED BY <1>1, <1>2 DEF IInv

-----------------------------------------------------------------------------
(* The steps that change what the tables, the targets or a case say.       *)

(* A step keeps the invariant if it keeps the types, the tables, what its  *)
(* own task holds, and the authority of the writes; the rest follows for   *)
(* every other task.                                                       *)
LEMMA StepKeeps ==
    ASSUME IInv, NEW t \in Tasks, ApprovalsStay, RowsStay,
           RunTypeOK', TableTypeOK', SystemTypeOK', LockTypeOK', TaskTypeOK',
           TableInv', Others(t), TaskInv(t)', WritesAreAuthorised'
    PROVE  IInv'
BY OthersKeep DEF IInv, TypeOK

(* The approver's click remembers what was on the card.                    *)
LEMMA DecideReadKeeps == ASSUME IInv, NEW t \in Tasks, DecideRead(t) PROVE IInv'
<1>1. PICK s \in Slots, e \in Ents, d \in Decision :
        /\ rows[s] = [ent |-> e, st |-> "awaiting"]
        /\ ask' = [ask EXCEPT ![t] = [slot |-> s, ent |-> e, decision |-> d]]
  BY DEF DecideRead
<1>2. /\ pc' = [pc EXCEPT ![t] = "record"] /\ pc[t] = "idle"
      /\ UNCHANGED <<runVars, tableVars, systemVars, lockVars, case, blk, touched, seen>>
  BY DEF DecideRead, Goto
<1>3. TaskTypeOK'
  BY <1>1, <1>2 DEF IInv, TypeOK, TaskTypeOK, PCs
<1>4. Others(t)
  BY <1>1, <1>2 DEF Others, IInv, TypeOK, TaskTypeOK
<1>5. pc'[t] = "record" /\ ask'[t] = [slot |-> s, ent |-> e, decision |-> d]
  BY <1>1, <1>2 DEF IInv, TypeOK, TaskTypeOK
<1>6. Verdict[e] = "HOLD"
  BY <1>1 DEF IInv, TableInv, HeldWait
<1>7. ask'[t] # NoAsk /\ Verdict[ask'[t].ent] = "HOLD"
  BY <1>5, <1>6, PlanAssumption DEF NoAsk
<1>8. touched[t] = {} /\ Sound(case[t], approvals)
  BY <1>2 DEF IInv, TaskInv, Touching
<1>9. TaskInv(t)'
  BY <1>2, <1>5, <1>7, <1>8 DEF TaskInv, LatePCs, Touching, tableVars
<1>10. /\ status' \in RunStatus \cup {"none"} /\ sealed' \in BOOLEAN /\ jobDone' \in BOOLEAN
       /\ UNCHANGED <<capsule, blockers, rows, approvals, asked, receipts, usage,
                      systemVars>>
  BY <1>2 DEF runVars, tableVars, jobVars, IInv, TypeOK, RunTypeOK, TableTypeOK
<1>11. LockTypeOK'
  BY <1>2, UnchangedLocks
<1> QED BY <1>3, <1>4, <1>9, <1>10, <1>11, ControlKeeps

(* The first decision goes on record; a later one changes nothing.         *)
LEMMA RecordApprovalKeeps == ASSUME IInv, NEW t \in Tasks, RecordApproval(t) PROVE IInv'
<1> DEFINE s == ask[t].slot
<1>1. pc[t] = "record"
  BY DEF RecordApproval
<1>2. /\ s \in Slots /\ ask[t].ent \in Ents /\ ask[t].decision \in Decision
      /\ Verdict[ask[t].ent] = "HOLD"
  BY <1>1 DEF IInv, TypeOK, TaskTypeOK, TaskInv
<1>3. CASE approvals[s] = NoApproval
  <2>1. /\ approvals' = [approvals EXCEPT ![s] =
                [ent |-> ask[t].ent, decision |-> ask[t].decision]]
        /\ Goto(t, "open_resume")
        /\ UNCHANGED <<jobDone, lockVars, localVars>>
    BY <1>3 DEF RecordApproval
  <2>2. UNCHANGED <<runVars, rows, asked, receipts, usage, systemVars>>
    BY DEF RecordApproval
  <2>3. ApprovalsStay /\ RowsStay
    BY <1>2, <1>3, <2>1, <2>2 DEF ApprovalsStay, RowsStay, IInv, TypeOK, TableTypeOK
  <2>4. TableTypeOK'
    BY <1>2, <2>1, <2>2 DEF IInv, TypeOK, TableTypeOK, Approval
  <2>5. RunTypeOK' /\ SystemTypeOK' /\ LockTypeOK'
    BY <2>1, <2>2, UnchangedLocks DEF IInv, TypeOK, RunTypeOK, SystemTypeOK, runVars, systemVars
  <2>6. TaskTypeOK' /\ Others(t) /\ TaskInv(t)'
    BY <1>1, <2>1, <2>3, GotoKeeps DEF Touching, LatePCs, PCs
  <2>7. TableInv'
    BY <2>2, <2>3, SoundStays DEF TableInv, IInv, TypeOK, RunTypeOK, runVars
  <2>8. WritesAreAuthorised'
    BY <2>2, <2>3, AuthorityStays DEF systemVars
  <2> QED BY <2>3, <2>4, <2>5, <2>6, <2>7, <2>8, StepKeeps
<1>4. CASE approvals[s] # NoApproval
  <2>1. Return(t) /\ UNCHANGED <<runVars, rows, approvals, asked, receipts, usage, systemVars>>
    BY <1>4 DEF RecordApproval
  <2>2. /\ status' \in RunStatus \cup {"none"} /\ sealed' \in BOOLEAN /\ jobDone' \in BOOLEAN
        /\ UNCHANGED <<capsule, blockers, rows, approvals, asked, receipts, usage,
                       systemVars>>
    BY <2>1 DEF Return, runVars, IInv, TypeOK, RunTypeOK, TableTypeOK
  <2>3. EndsOrMovesOn(t)
    BY <2>1 DEF Return, EndsOrMovesOn
  <2> QED BY <2>2, <2>3, ControlStep
<1> QED BY <1>3, <1>4

(* The states a step leaves in the table: whatever it writes for an id,    *)
(* the row stays a row.                                                    *)
LEMMA SyncActionsKeeps ==
    ASSUME TableTypeOK, NEW c \in [Slots -> Cell], SyncActions(c),
           NEW decisions, Sound(c, decisions), HeldWait(rows)
    PROVE  rows' \in [Slots -> Cell] /\ RowsStay /\ Known(c, rows') /\ HeldWait(rows')
<1>1. rows' = [s \in Slots |-> IF c[s] = Absent THEN rows[s] ELSE c[s]]
  BY DEF SyncActions
<1> QED BY <1>1 DEF TableTypeOK, RowsStay, Known, HeldWait, Sound

(* _sync_states writes back only states a stage may give, so a row stays a *)
(* row and waits only if policy held it.                                   *)
LEMMA SyncStatesKeeps ==
    ASSUME TableTypeOK, NEW c \in [Slots -> Cell], NEW ids \in SUBSET Slots,
           Known(c, rows), HeldWait(rows), SyncStates(c, ids),
           \A s \in ids : c[s].st \in Moved \cup {"approved", "refused"}
    PROVE  rows' \in [Slots -> Cell] /\ RowsStay /\ Known(c, rows') /\ HeldWait(rows')
<1>1. rows' = [s \in Slots |-> IF s \in ids THEN [rows[s] EXCEPT !.st = c[s].st] ELSE rows[s]]
  BY DEF SyncStates
<1>2. ASSUME NEW s \in Slots, s \in ids
      PROVE  /\ rows'[s] \in Cell /\ rows'[s] # Absent
             /\ rows'[s].st # "awaiting"
  <2>1. c[s].st \in ActionState \ {"awaiting"} /\ c[s] # Absent
    BY <1>2 DEF Moved, ActionState, Absent
  <2>2. rows[s] \in Cell /\ rows[s] # Absent
    BY <2>1 DEF TableTypeOK, Known
  <2>3. rows'[s] = [rows[s] EXCEPT !.st = c[s].st]
    BY <1>1, <1>2
  <2> QED BY <2>1, <2>2, <2>3, CellUpdate
<1>3. ASSUME NEW s \in Slots, s \notin ids PROVE rows'[s] = rows[s]
  BY <1>1, <1>3
<1>4. rows' \in [Slots -> Cell]
  <2>1. \A s \in Slots : rows'[s] \in Cell
    BY <1>2, <1>3 DEF TableTypeOK
  <2>2. rows' = [s \in Slots |-> rows'[s]]
    BY <1>1
  <2> QED BY <2>1, <2>2
<1>5. RowsStay
  BY <1>2, <1>3 DEF RowsStay
<1>6. Known(c, rows')
  BY <1>5 DEF Known, RowsStay
<1>7. HeldWait(rows')
  BY <1>2, <1>3 DEF HeldWait
<1> QED BY <1>4, <1>5, <1>6, <1>7

(* The COMPILE stage: the candidates are fresh, the sealed case is empty.  *)
LEMMA CompileKeeps == ASSUME IInv, NEW t \in Tasks, Compile(t) PROVE IInv'
<1> DEFINE holdings == {e \in held : e \in GrantEnts => e \in Listed}
           c == Candidates(holdings)
<1>1. /\ pc' = [pc EXCEPT ![t] = "govern"] /\ pc[t] = "compile"
      /\ case' = [case EXCEPT ![t] = c]
      /\ seen' = [seen EXCEPT ![t] = holdings]
      /\ blk' = [blk EXCEPT ![t] = PolicyMissing]
      /\ capsule' = EmptyCase /\ blockers' = PolicyMissing /\ sealed' = TRUE
      /\ UNCHANGED <<status, tableVars, systemVars, lockVars, touched, ask>>
  BY DEF Compile, Goto
<1>2. c \in [Slots -> Cell] /\ \A s \in Slots : Fresh(c[s])
  BY CandidatesFresh
<1>3. Sound(c, approvals)
  BY <1>2 DEF Sound, Fresh
<1>4. ApprovalsStay /\ RowsStay
  BY <1>1 DEF ApprovalsStay, RowsStay, tableVars
<1>5. RunTypeOK'
  BY <1>1, EmptyCaseType, RailAssumption DEF IInv, TypeOK, RunTypeOK
<1>6. TableTypeOK' /\ SystemTypeOK' /\ LockTypeOK'
  BY <1>1, UnchangedLocks
     DEF IInv, TypeOK, TableTypeOK, SystemTypeOK, tableVars, jobVars, systemVars
<1>7. TaskTypeOK'
  <2>1. holdings \subseteq Ents
    BY DEF IInv, TypeOK, SystemTypeOK
  <2> QED BY <1>1, <1>2, <2>1, RailAssumption DEF IInv, TypeOK, TaskTypeOK, PCs
<1>8. TableInv'
  <2>1. Sound(EmptyCase, approvals') /\ Known(EmptyCase, rows')
    BY DEF Sound, Known, EmptyCase, Absent
  <2> QED BY <1>1, <2>1 DEF TableInv, IInv, tableVars
<1>9. Others(t)
  BY <1>1 DEF Others, IInv, TypeOK, TaskTypeOK
<1>10. TaskInv(t)'
  <2>1. pc'[t] = "govern" /\ case'[t] = c /\ touched'[t] = {} /\ approvals' = approvals
    BY <1>1 DEF IInv, TypeOK, TaskTypeOK, TaskInv, Touching, tableVars
  <2> QED BY <1>3, <2>1 DEF TaskInv, LatePCs
<1>11. WritesAreAuthorised'
  BY <1>1, <1>4, AuthorityStays DEF systemVars
<1> QED BY <1>4, <1>5, <1>6, <1>7, <1>8, <1>9, <1>10, <1>11, StepKeeps

(* The GOVERN stage writes the candidates to the case file and the table.  *)
LEMMA GovernKeeps == ASSUME IInv, NEW t \in Tasks, Govern(t) PROVE IInv'
<1>1. /\ Goto(t, "plan") /\ pc[t] = "govern" /\ UNCHANGED localVars
      /\ capsule' = case[t] /\ blockers' = blk[t] /\ sealed' = TRUE
      /\ SyncActions(case[t])
      /\ UNCHANGED <<status, approvals, jobVars, systemVars, lockVars>>
  BY DEF Govern, SaveCase
<1>2. case[t] \in [Slots -> Cell] /\ Sound(case[t], approvals) /\ HeldWait(rows)
  BY DEF IInv, TypeOK, TaskTypeOK, TaskInv, TableInv
<1>3. rows' \in [Slots -> Cell] /\ RowsStay /\ Known(case[t], rows') /\ HeldWait(rows')
  BY <1>1, <1>2, SyncActionsKeeps DEF IInv, TypeOK
<1>4. ApprovalsStay
  BY <1>1 DEF ApprovalsStay
<1>5. RunTypeOK'
  BY <1>1, <1>2 DEF IInv, TypeOK, RunTypeOK, TaskTypeOK
<1>6. TableTypeOK' /\ SystemTypeOK' /\ LockTypeOK'
  BY <1>1, <1>3, UnchangedLocks DEF IInv, TypeOK, TableTypeOK, SystemTypeOK, jobVars, systemVars
<1>7. TaskTypeOK' /\ Others(t) /\ TaskInv(t)'
  BY <1>1, <1>4, GotoKeeps DEF Touching, LatePCs, PCs
<1>8. TableInv'
  BY <1>1, <1>2, <1>3 DEF TableInv
<1>9. WritesAreAuthorised'
  BY <1>1, <1>4, AuthorityStays DEF systemVars
<1> QED BY <1>3, <1>4, <1>5, <1>6, <1>7, <1>8, <1>9, StepKeeps

(* The PLAN stage adds the revocations and hands the case to the database. *)
LEMMA PlanKeeps == ASSUME IInv, NEW t \in Tasks, Plan(t) PROVE IInv'
<1> DEFINE planned == BuildPlan(case[t], seen[t])
<1>1. /\ pc' = [pc EXCEPT ![t] = "handoff"] /\ pc[t] = "plan"
      /\ capsule' = planned /\ blockers' = blk[t] /\ sealed' = TRUE
      /\ SyncActions(planned)
      /\ case' = [case EXCEPT ![t] = EmptyCase]
      /\ blk' = [blk EXCEPT ![t] = FALSE]
      /\ seen' = [seen EXCEPT ![t] = {}]
      /\ UNCHANGED <<status, approvals, jobVars, systemVars, lockVars, touched, ask>>
  BY DEF Plan, SaveCase, Goto
<1>2. case[t] \in [Slots -> Cell] /\ Sound(case[t], approvals) /\ HeldWait(rows)
  BY DEF IInv, TypeOK, TaskTypeOK, TaskInv, TableInv
<1>3. planned \in [Slots -> Cell] /\ Sound(planned, approvals)
  <2>1. /\ planned \in [Slots -> Cell]
        /\ \A s \in Slots : planned[s] = case[t][s] \/ Fresh(planned[s])
    BY <1>2, PlanKeepsOrFresh
  <2> QED BY <1>2, <2>1 DEF Sound, Fresh
<1> HIDE DEF planned
<1>4. rows' \in [Slots -> Cell] /\ RowsStay /\ Known(planned, rows') /\ HeldWait(rows')
  BY <1>1, <1>2, <1>3, SyncActionsKeeps DEF IInv, TypeOK
<1>5. ApprovalsStay
  BY <1>1 DEF ApprovalsStay
<1>6. RunTypeOK'
  BY <1>1, <1>3 DEF IInv, TypeOK, RunTypeOK, TaskTypeOK
<1>7. TableTypeOK' /\ SystemTypeOK' /\ LockTypeOK'
  BY <1>1, <1>4, UnchangedLocks DEF IInv, TypeOK, TableTypeOK, SystemTypeOK, jobVars, systemVars
<1>8. TaskTypeOK' /\ Others(t)
  BY <1>1, EmptyCaseType DEF IInv, TypeOK, TaskTypeOK, PCs, Others
<1>9. TaskInv(t)'
  <2>1. pc'[t] = "handoff" /\ case'[t] = EmptyCase /\ touched'[t] = {}
    BY <1>1 DEF IInv, TypeOK, TaskTypeOK, TaskInv, Touching
  <2>2. Sound(EmptyCase, approvals')
    BY DEF Sound, EmptyCase, Absent
  <2> QED BY <2>1, <2>2 DEF TaskInv, LatePCs
<1>10. TableInv'
  BY <1>1, <1>3, <1>4 DEF TableInv
<1>11. WritesAreAuthorised'
  BY <1>1, <1>5, AuthorityStays DEF systemVars
<1> QED BY <1>4, <1>5, <1>6, <1>7, <1>8, <1>9, <1>10, <1>11, StepKeeps

(* _handoff: the task takes over the stored case, or is about to halt.     *)
LEMMA HandoffKeeps == ASSUME IInv, NEW t \in Tasks, Handoff(t) PROVE IInv'
<1>1. pc[t] = "handoff" /\ touched[t] = {}
  BY DEF Handoff, IInv, TaskInv, Touching
<1>2. CASE sealed
  <2>1. /\ case' = [case EXCEPT ![t] = capsule] /\ blk' = [blk EXCEPT ![t] = blockers]
        /\ pc' = [pc EXCEPT ![t] = "approve"]
        /\ UNCHANGED <<status, jobDone, lockVars, touched, seen, ask>>
        /\ UNCHANGED <<capsule, blockers, sealed, rows, approvals, asked, receipts,
                       usage, systemVars>>
    BY <1>2 DEF Handoff, Goto, runVars, tableVars, jobVars
  <2>2. TaskTypeOK' /\ Others(t)
    BY <2>1 DEF IInv, TypeOK, TaskTypeOK, RunTypeOK, PCs, Others
  <2>3. pc'[t] = "approve" /\ case'[t] = capsule /\ touched'[t] = {}
    BY <1>1, <2>1 DEF IInv, TypeOK, TaskTypeOK
  <2>4. TaskInv(t)'
    BY <2>1, <2>3 DEF TaskInv, IInv, TableInv, Touching
  <2>5. /\ status' \in RunStatus \cup {"none"} /\ sealed' \in BOOLEAN /\ jobDone' \in BOOLEAN
    BY <2>1 DEF IInv, TypeOK, RunTypeOK, TableTypeOK
  <2> QED BY <2>1, <2>2, <2>4, <2>5, UnchangedLocks, ControlKeeps
<1>3. CASE ~sealed
  <2>1. /\ status' \in RunStatus \cup {"none"} /\ sealed' \in BOOLEAN /\ jobDone' \in BOOLEAN
        /\ UNCHANGED <<capsule, blockers, rows, approvals, asked, receipts, usage,
                       systemVars>>
    BY <1>3 DEF Handoff, runVars, tableVars, jobVars, IInv, TypeOK, RunTypeOK, TableTypeOK
  <2>2. EndsOrMovesOn(t)
    BY <1>3, UnchangedLocks DEF Handoff, EndsOrMovesOn, Touching, LatePCs, PCs
  <2> QED BY <2>1, <2>2, ControlStep
<1> QED BY <1>2, <1>3

(* Only a decision on exactly these parameters lets a waiting action go    *)
(* on.                                                                     *)
LEMMA ApplyDecisionsSound ==
    ASSUME TableTypeOK, NEW c \in [Slots -> Cell], Sound(c, approvals), Known(c, rows)
    PROVE  /\ ApplyDecisions(c) \in [Slots -> Cell]
           /\ Sound(ApplyDecisions(c), approvals)
           /\ Known(ApplyDecisions(c), rows)
           /\ \A s \in Slots : IsDecided(c, s) =>
                  ApplyDecisions(c)[s].st \in {"approved", "refused"}
<1> DEFINE d == ApplyDecisions(c)
<1>1. d = [s \in Slots |-> IF IsDecided(c, s) THEN [c[s] EXCEPT !.st = approvals[s].decision]
                                               ELSE c[s]]
  BY DEF ApplyDecisions
<1>2. ASSUME NEW s \in Slots, IsDecided(c, s)
      PROVE  /\ d[s] \in Cell /\ d[s] # Absent /\ c[s] # Absent
             /\ d[s].st \in {"approved", "refused"} /\ d[s].ent = c[s].ent
             /\ d[s].st = "approved" =>
                    approvals[s] = [ent |-> c[s].ent, decision |-> "approved"]
             /\ Verdict[c[s].ent] = "HOLD"
  <2>1. c[s] # Absent /\ c[s].ent \in Ents /\ c[s] \in Cell
    BY <1>2, CellSplit DEF IsDecided, Absent
  <2>2. approvals[s] \in Approval /\ approvals[s].ent = c[s].ent
    BY <1>2, <2>1, PlanAssumption DEF IsDecided, TableTypeOK, NoApproval
  <2>3. approvals[s].decision \in {"approved", "refused"}
    BY <2>2 DEF Approval, Decision
  <2>4. d[s] = [c[s] EXCEPT !.st = approvals[s].decision]
    BY <1>1, <1>2
  <2>5. approvals[s].decision \in ActionState
    BY <2>3 DEF ActionState
  <2>6. d[s] \in Cell /\ d[s] # Absent /\ d[s].st = approvals[s].decision /\ d[s].ent = c[s].ent
    BY <2>1, <2>4, <2>5, CellUpdate
  <2>7. Verdict[c[s].ent] = "HOLD"
    BY <1>2 DEF IsDecided, Sound
  <2> HIDE DEF d
  <2> QED BY <2>1, <2>2, <2>3, <2>6, <2>7 DEF Approval
<1>3. ASSUME NEW s \in Slots, ~IsDecided(c, s) PROVE d[s] = c[s]
  BY <1>1, <1>3
<1>4. d \in [Slots -> Cell]
  <2>1. \A s \in Slots : d[s] \in Cell
    BY <1>2, <1>3
  <2> QED BY <1>1, <2>1
<1> HIDE DEF d
<1>5. Sound(d, approvals)
  BY <1>2, <1>3 DEF Sound
<1>6. Known(d, rows)
  BY <1>2, <1>3 DEF Known
<1> QED BY <1>2, <1>4, <1>5, <1>6 DEF d

(* The APPROVE stage: decisions applied, holds dispatched, all saved       *)
(* together.                                                               *)
LEMMA ApproveKeeps == ASSUME IInv, NEW t \in Tasks, Approve(t) PROVE IInv'
<1> DEFINE c == ApplyDecisions(case[t])
           b == BlockedBy(c, blk[t])
           ids == {s \in Slots : IsDecided(case[t], s)}
<1>1. /\ pc' = [pc EXCEPT ![t] = "execute"] /\ pc[t] = "approve"
      /\ capsule' = c /\ blockers' = b /\ sealed' = TRUE
      /\ SyncStates(c, ids)
      /\ asked' = [s \in Slots |-> IF Dispatched(c, s) THEN c[s].ent ELSE asked[s]]
      /\ case' = [case EXCEPT ![t] = c]
      /\ blk' = [blk EXCEPT ![t] = b]
      /\ UNCHANGED <<status, approvals, receipts, usage, jobDone, systemVars, lockVars,
                     touched, seen, ask>>
  BY DEF Approve, SaveCase, Goto
<1>2. /\ case[t] \in [Slots -> Cell] /\ Sound(case[t], approvals)
      /\ Known(case[t], rows) /\ HeldWait(rows) /\ touched[t] = {}
  BY <1>1 DEF IInv, TypeOK, TaskTypeOK, TaskInv, TableInv, LatePCs, Touching
<1>3. /\ c \in [Slots -> Cell] /\ Sound(c, approvals) /\ Known(c, rows)
      /\ \A s \in ids : c[s].st \in {"approved", "refused"}
  BY <1>2, ApplyDecisionsSound DEF IInv, TypeOK
<1>4. b \in BOOLEAN
  BY DEF BlockedBy, IInv, TypeOK, TaskTypeOK
<1> HIDE DEF c, b, ids
<1>5. ids \in SUBSET Slots
  BY DEF ids
<1>6. rows' \in [Slots -> Cell] /\ RowsStay /\ Known(c, rows') /\ HeldWait(rows')
  BY <1>1, <1>2, <1>3, <1>5, SyncStatesKeeps DEF IInv, TypeOK
<1>7. ApprovalsStay
  BY <1>1 DEF ApprovalsStay
<1>8. asked' \in [Slots -> Ents \cup {NoEnt}]
  <2>1. \A s \in Slots : c[s].ent \in Ents \cup {NoEnt}
    BY <1>3, CellSplit DEF Absent
  <2> QED BY <1>1, <2>1 DEF IInv, TypeOK, TableTypeOK
<1>9. RunTypeOK'
  BY <1>1, <1>3, <1>4 DEF IInv, TypeOK, RunTypeOK
<1>10. TableTypeOK' /\ SystemTypeOK' /\ LockTypeOK'
  BY <1>1, <1>6, <1>8, UnchangedLocks DEF IInv, TypeOK, TableTypeOK, SystemTypeOK, systemVars
<1>11. TaskTypeOK' /\ Others(t)
  BY <1>1, <1>3, <1>4 DEF IInv, TypeOK, TaskTypeOK, PCs, Others
<1>12. TaskInv(t)'
  <2>1. pc'[t] = "execute" /\ case'[t] = c /\ touched'[t] = {} /\ approvals' = approvals
    BY <1>1, <1>2 DEF IInv, TypeOK, TaskTypeOK
  <2> QED BY <1>3, <1>6, <2>1 DEF TaskInv
<1>13. TableInv'
  BY <1>1, <1>3, <1>6 DEF TableInv
<1>14. WritesAreAuthorised'
  BY <1>1, <1>7, AuthorityStays DEF systemVars
<1> QED BY <1>6, <1>7, <1>9, <1>10, <1>11, <1>12, <1>13, <1>14, StepKeeps

(* What may be executed is authorised, by policy or by its approver.       *)
LEMMA ExecutableAuthorised ==
    ASSUME IInv, NEW t \in Tasks, NEW s \in Executable(case[t])
    PROVE  /\ s \in Slots /\ case[t][s] # Absent /\ case[t][s].ent \in Ents
           /\ \/ Verdict[case[t][s].ent] = "ALLOW"
              \/ /\ Verdict[case[t][s].ent] = "HOLD"
                 /\ approvals[s] = [ent |-> case[t][s].ent, decision |-> "approved"]
<1>1. s \in Slots /\ IsExecutable(case[t][s])
  BY DEF Executable
<1>2. case[t][s] \in Cell
  BY <1>1 DEF IInv, TypeOK, TaskTypeOK
<1>3. case[t][s] # Absent /\ case[t][s].ent \in Ents
  BY <1>1, <1>2, CellSplit DEF IsExecutable, Absent
<1> QED BY <1>1, <1>3 DEF IsExecutable, IInv, TaskInv, Sound

(* One execute_action: the key it adds to the target's ledger is           *)
(* authorised, since only an executable action is sent.                    *)
LEMMA ExecuteWriteKeeps == ASSUME IInv, NEW t \in Tasks, ExecuteWrite(t) PROVE IInv'
<1>1. pc[t] = "execute" /\ UNCHANGED <<runVars, tableVars, lockVars, pc, blk, seen, ask>>
  BY DEF ExecuteWrite
<1>2. PICK s \in Slots :
        /\ s \in Executable(case[t])
        /\ \E out \in WriteOutcomes(WriteKey(s, case[t][s].ent) \in ledger, InPlace(case[t][s].ent)) :
             /\ case' = [case EXCEPT ![t][s].st = out.st]
             /\ ledger' = IF out.records THEN ledger \cup {WriteKey(s, case[t][s].ent)} ELSE ledger
             /\ IF out.applies
                THEN /\ held' = IF case[t][s].ent \in GrantEnts
                                THEN held \cup {case[t][s].ent} ELSE held \ {case[t][s].ent}
                     /\ wrote' = [wrote EXCEPT ![case[t][s].ent] = @ + 1]
                ELSE UNCHANGED <<held, wrote>>
        /\ touched' = [touched EXCEPT ![t] = @ \cup {s}]
  BY DEF ExecuteWrite, IsFirst
<1> DEFINE e == case[t][s].ent
<1>3. PICK out \in WriteOutcomes(WriteKey(s, e) \in ledger, InPlace(e)) :
        /\ case' = [case EXCEPT ![t][s].st = out.st]
        /\ ledger' = IF out.records THEN ledger \cup {WriteKey(s, e)} ELSE ledger
        /\ IF out.applies
           THEN /\ held' = IF e \in GrantEnts THEN held \cup {e} ELSE held \ {e}
                /\ wrote' = [wrote EXCEPT ![e] = @ + 1]
           ELSE UNCHANGED <<held, wrote>>
  BY <1>2
<1>4. out.st \in {"executed", "unknown", "failed"}
  BY DEF WriteOutcomes
<1>5. /\ e \in Ents /\ case[t][s] # Absent
      /\ \/ Verdict[e] = "ALLOW"
         \/ /\ Verdict[e] = "HOLD"
            /\ approvals[s] = [ent |-> e, decision |-> "approved"]
  BY <1>2, ExecutableAuthorised
<1>6. case[t] \in [Slots -> Cell] /\ case \in [Tasks -> [Slots -> Cell]]
  BY DEF IInv, TypeOK, TaskTypeOK
<1>7. /\ case'[t] \in [Slots -> Cell] /\ case' \in [Tasks -> [Slots -> Cell]]
      /\ \A u \in Slots \ {s} : case'[t][u] = case[t][u]
      /\ case'[t][s] # Absent /\ case'[t][s].st = out.st
      /\ \A u \in Tasks \ {t} : case'[u] = case[u]
  <2> DEFINE moved == [case[t][s] EXCEPT !.st = out.st]
  <2>1. moved \in Cell /\ moved # Absent /\ moved.st = out.st
    <3>1. case[t][s] \in Cell /\ out.st \in ActionState
      BY <1>4, <1>5, <1>6 DEF ActionState
    <3> QED BY <1>5, <3>1, CellUpdate
  <2>2. case' = [case EXCEPT ![t] = [case[t] EXCEPT ![s] = moved]]
    BY <1>3
  <2> HIDE DEF moved
  <2> QED BY <1>6, <2>1, <2>2
<1>8. touched' \in [Tasks -> SUBSET Slots] /\ touched'[t] = touched[t] \cup {s}
      /\ \A u \in Tasks \ {t} : touched'[u] = touched[u]
  BY <1>2 DEF IInv, TypeOK, TaskTypeOK
<1>9. RunTypeOK' /\ TableTypeOK' /\ LockTypeOK' /\ ApprovalsStay /\ RowsStay /\ TableInv'
  BY <1>1, UnchangedLocks DEF IInv, TypeOK, RunTypeOK, TableTypeOK, runVars, tableVars,
     jobVars, ApprovalsStay, RowsStay, TableInv
<1>10. SystemTypeOK'
  BY <1>3, <1>5 DEF IInv, TypeOK, SystemTypeOK, WriteKey
<1>11. TaskTypeOK' /\ Others(t)
  BY <1>1, <1>7, <1>8 DEF IInv, TypeOK, TaskTypeOK, Others
<1>12. TaskInv(t)'
  <2>1. Sound(case[t], approvals) /\ Known(case[t], rows) /\ \A u \in touched[t] : case[t][u].st \in Moved
    BY <1>1 DEF IInv, TaskInv, LatePCs
  <2>2. Sound(case'[t], approvals)
    BY <1>4, <1>7, <2>1 DEF Sound
  <2>3. Known(case'[t], rows)
    BY <1>5, <1>7, <2>1 DEF Known
  <2>4. \A u \in touched'[t] : case'[t][u].st \in Moved
    BY <1>4, <1>7, <1>8, <2>1 DEF Moved, IInv, TypeOK, TaskTypeOK
  <2> QED BY <1>1, <2>2, <2>3, <2>4 DEF TaskInv, LatePCs, Touching, tableVars
<1>13. WritesAreAuthorised'
  <2>1. approvals' = approvals /\ ledger' \subseteq ledger \cup {<<s, e>>}
    BY <1>1, <1>3 DEF tableVars, WriteKey
  <2> SUFFICES ASSUME NEW k \in ledger'
               PROVE  \/ Verdict[k[2]] = "ALLOW"
                      \/ /\ Verdict[k[2]] = "HOLD"
                         /\ approvals[k[1]] = [ent |-> k[2], decision |-> "approved"]
    BY <2>1 DEF WritesAreAuthorised
  <2>2. CASE k \in ledger
    BY <2>2 DEF IInv, WritesAreAuthorised
  <2>3. CASE k = <<s, e>>
    BY <1>5, <2>3
  <2> QED BY <2>1, <2>2, <2>3
<1> QED BY <1>9, <1>10, <1>11, <1>12, <1>13, StepKeeps

(* One verify_action: the action becomes verified or failed.               *)
LEMMA VerifyReadKeeps == ASSUME IInv, NEW t \in Tasks, VerifyRead(t) PROVE IInv'
<1>1. /\ pc[t] = "verify"
      /\ UNCHANGED <<runVars, tableVars, systemVars, lockVars, pc, blk, seen, ask>>
  BY DEF VerifyRead
<1>2. PICK s \in Slots :
        /\ s \in Verifiable(case[t])
        /\ \E st \in VerifyOutcomes(case[t][s].ent) : case' = [case EXCEPT ![t][s].st = st]
        /\ touched' = [touched EXCEPT ![t] = @ \cup {s}]
  BY DEF VerifyRead, IsFirst
<1>3. PICK st \in {"verified", "failed"} : case' = [case EXCEPT ![t][s].st = st]
  BY <1>2 DEF VerifyOutcomes
<1>4. case[t] \in [Slots -> Cell] /\ case \in [Tasks -> [Slots -> Cell]]
  BY DEF IInv, TypeOK, TaskTypeOK
<1>5. case[t][s] # Absent
  BY <1>2 DEF Verifiable, Absent
<1>6. /\ case'[t] \in [Slots -> Cell] /\ case' \in [Tasks -> [Slots -> Cell]]
      /\ \A u \in Slots \ {s} : case'[t][u] = case[t][u]
      /\ case'[t][s] # Absent /\ case'[t][s].st = st
      /\ \A u \in Tasks \ {t} : case'[u] = case[u]
  <2> DEFINE moved == [case[t][s] EXCEPT !.st = st]
  <2>1. moved \in Cell /\ moved # Absent /\ moved.st = st
    <3>1. case[t][s] \in Cell /\ st \in ActionState
      BY <1>4, <1>5 DEF ActionState
    <3> QED BY <1>5, <3>1, CellUpdate
  <2>2. case' = [case EXCEPT ![t] = [case[t] EXCEPT ![s] = moved]]
    BY <1>3
  <2> HIDE DEF moved
  <2> QED BY <1>4, <2>1, <2>2
<1>7. touched' \in [Tasks -> SUBSET Slots] /\ touched'[t] = touched[t] \cup {s}
      /\ \A u \in Tasks \ {t} : touched'[u] = touched[u]
  BY <1>2 DEF IInv, TypeOK, TaskTypeOK
<1>8. /\ RunTypeOK' /\ TableTypeOK' /\ SystemTypeOK' /\ LockTypeOK' /\ ApprovalsStay
      /\ RowsStay /\ TableInv'
  BY <1>1, UnchangedLocks DEF IInv, TypeOK, RunTypeOK, TableTypeOK, SystemTypeOK, runVars,
     tableVars, jobVars, systemVars, ApprovalsStay, RowsStay, TableInv
<1>9. TaskTypeOK' /\ Others(t)
  BY <1>1, <1>6, <1>7 DEF IInv, TypeOK, TaskTypeOK, Others
<1>10. TaskInv(t)'
  <2>1. Sound(case[t], approvals) /\ Known(case[t], rows) /\ \A u \in touched[t] : case[t][u].st \in Moved
    BY <1>1 DEF IInv, TaskInv, LatePCs
  <2>2. Sound(case'[t], approvals)
    BY <1>6, <2>1 DEF Sound
  <2>3. Known(case'[t], rows)
    BY <1>5, <1>6, <2>1 DEF Known
  <2>4. \A u \in touched'[t] : case'[t][u].st \in Moved
    BY <1>6, <1>7, <2>1 DEF Moved, IInv, TypeOK, TaskTypeOK
  <2> QED BY <1>1, <2>2, <2>3, <2>4 DEF TaskInv, LatePCs, Touching, tableVars
<1>11. WritesAreAuthorised'
  BY <1>1, <1>8, AuthorityStays DEF systemVars
<1> QED BY <1>8, <1>9, <1>10, <1>11, StepKeeps

(* The transaction that ends Execute or Verify.                            *)
LEMMA SaveStageKeeps ==
    ASSUME IInv, NEW t \in Tasks, pc[t] \in Touching,
           NEW next \in {"verify", "finalize"}, SaveStage(t, next)
    PROVE  IInv'
<1>1. /\ capsule' = case[t] /\ blockers' = blk[t] /\ sealed' = TRUE
      /\ SyncStates(case[t], touched[t])
      /\ touched' = [touched EXCEPT ![t] = {}]
      /\ pc' = [pc EXCEPT ![t] = next]
      /\ UNCHANGED <<status, approvals, jobVars, systemVars, lockVars, case, blk, seen, ask>>
  BY DEF SaveStage, SaveCase, Goto
<1>2. /\ case[t] \in [Slots -> Cell] /\ Sound(case[t], approvals)
      /\ Known(case[t], rows) /\ HeldWait(rows) /\ touched[t] \in SUBSET Slots
      /\ \A s \in touched[t] : case[t][s].st \in Moved
  BY DEF IInv, TypeOK, TaskTypeOK, TaskInv, TableInv, Touching, LatePCs
<1>3. rows' \in [Slots -> Cell] /\ RowsStay /\ Known(case[t], rows') /\ HeldWait(rows')
  BY <1>1, <1>2, SyncStatesKeeps DEF IInv, TypeOK
<1>4. ApprovalsStay
  BY <1>1 DEF ApprovalsStay
<1>5. RunTypeOK'
  BY <1>1, <1>2 DEF IInv, TypeOK, RunTypeOK, TaskTypeOK
<1>6. TableTypeOK' /\ SystemTypeOK' /\ LockTypeOK'
  BY <1>1, <1>3, UnchangedLocks DEF IInv, TypeOK, TableTypeOK, SystemTypeOK, jobVars, systemVars
<1>7. TaskTypeOK' /\ Others(t)
  BY <1>1 DEF IInv, TypeOK, TaskTypeOK, PCs, Others
<1>8. TaskInv(t)'
  <2>1. pc'[t] \in LatePCs /\ pc'[t] # "record" /\ touched'[t] = {} /\ case'[t] = case[t]
    BY <1>1 DEF IInv, TypeOK, TaskTypeOK, LatePCs
  <2> QED BY <1>1, <1>2, <1>3, <2>1 DEF TaskInv
<1>9. TableInv'
  BY <1>1, <1>2, <1>3 DEF TableInv
<1>10. WritesAreAuthorised'
  BY <1>1, <1>4, AuthorityStays DEF systemVars
<1> QED BY <1>3, <1>4, <1>5, <1>6, <1>7, <1>8, <1>9, <1>10, StepKeeps

(* A receipt's counts are numbers: a case has finitely many actions.       *)
LEMMA TallyIsNat == ASSUME NEW c, NEW st PROVE Tally(c, st) \in Nat
<1>1. IsFiniteSet({s \in Slots : c[s].st \in st})
  BY SlotsFinite, FS_Subset
<1> QED BY <1>1, FS_CardinalityType DEF Tally

(* The FINALIZE stage: case, status, receipt and usage event in one        *)
(* transaction.                                                            *)
LEMMA FinalizeKeeps == ASSUME IInv, NEW t \in Tasks, Finalize(t) PROVE IInv'
<1> DEFINE to == FinalStatus(case[t], blk[t])
<1>1. to \in {"awaiting_approval", "partial", "done"}
  BY DEF FinalStatus
<1>2. /\ SetStatus(t, to)
      /\ IF MayBecome(status, to)
         THEN /\ capsule' = case[t] /\ blockers' = blk[t] /\ sealed' = TRUE
              /\ receipts' = ReceiptJobs(case[t], to)
              /\ usage' = UsageEvent(to)
         ELSE UNCHANGED <<capsule, blockers, sealed, receipts, usage>>
      /\ UNCHANGED <<rows, approvals, asked, systemVars>>
      /\ pc[t] = "finalize"
  BY DEF Finalize, SaveCase
<1>3. /\ case[t] \in [Slots -> Cell] /\ Sound(case[t], approvals) /\ Known(case[t], rows)
      /\ blk[t] \in BOOLEAN
  BY <1>2 DEF IInv, TypeOK, TaskTypeOK, TaskInv, LatePCs
<1> HIDE DEF to
<1>4. ApprovalsStay /\ RowsStay
  BY <1>2 DEF ApprovalsStay, RowsStay
<1>5. RunTypeOK'
  BY <1>1, <1>2, <1>3 DEF SetStatus, RunStatus, IInv, TypeOK, RunTypeOK
<1>6. TableTypeOK'
  <2>1. Outcome(case[t], to) \in [status : RunStatus, verified : Nat, failed : Nat]
    BY <1>1, TallyIsNat DEF Outcome, RunStatus
  <2>2. receipts' \subseteq [status : RunStatus, verified : Nat, failed : Nat]
    BY <1>2, <2>1 DEF ReceiptJobs, IInv, TypeOK, TableTypeOK
  <2>3. usage' \in {"none", "partial", "done"}
    BY <1>2 DEF UsageEvent, IInv, TypeOK, TableTypeOK
  <2>4. jobDone' \in BOOLEAN
    BY <1>2 DEF SetStatus, Return, Raise, IInv, TypeOK, TableTypeOK
  <2> QED BY <1>2, <2>2, <2>3, <2>4 DEF IInv, TypeOK, TableTypeOK
<1>7. SystemTypeOK'
  BY <1>2 DEF IInv, TypeOK, SystemTypeOK, systemVars
<1>8. TaskTypeOK' /\ LockTypeOK' /\ Others(t) /\ TaskInv(t)'
  BY <1>2, LeaveKeeps DEF SetStatus, Return, Raise
<1>9. TableInv'
  BY <1>2, <1>3 DEF TableInv, IInv
<1>10. WritesAreAuthorised'
  BY <1>2, <1>4, AuthorityStays DEF systemVars
<1> QED BY <1>4, <1>5, <1>6, <1>7, <1>8, <1>9, <1>10, StepKeeps

-----------------------------------------------------------------------------
(* The theorems.                                                           *)

(* Before the run exists nothing is stored, held or written.               *)
LEMMA InitInv == Init => IInv
<1> SUFFICES ASSUME Init PROVE IInv
  OBVIOUS
<1>1. RunTypeOK /\ LockTypeOK
  BY EmptyCaseType DEF Init, RunTypeOK, LockTypeOK
<1>2. TableTypeOK /\ SystemTypeOK
  BY EmptyCaseType DEF Init, TableTypeOK, SystemTypeOK
<1>3. TaskTypeOK
  BY EmptyCaseType DEF Init, TaskTypeOK, PCs
<1>4. Sound(EmptyCase, approvals) /\ Known(EmptyCase, rows) /\ HeldWait(EmptyCase)
  BY DEF Sound, Known, HeldWait, EmptyCase, Absent
<1>5. TableInv
  BY <1>4 DEF Init, TableInv
<1>6. \A t \in Tasks : TaskInv(t)
  BY <1>4 DEF Init, TaskInv, LatePCs
<1>7. WritesAreAuthorised
  BY DEF Init, WritesAreAuthorised
<1> QED BY <1>1, <1>2, <1>3, <1>5, <1>6, <1>7 DEF IInv, TypeOK

(* A step of somebody else's leaves the run as it is.                      *)
LEMMA StutterKeeps == ASSUME IInv, UNCHANGED vars PROVE IInv'
BY DEF IInv, TypeOK, RunTypeOK, TableTypeOK, SystemTypeOK, LockTypeOK, TaskTypeOK,
       TableInv, TaskInv, WritesAreAuthorised, vars, runVars, tableVars, jobVars,
       systemVars, lockVars, taskVars, localVars

(* Every step of every task keeps the invariant; one lemma above for each. *)
LEMMA NextInv == IInv /\ [Next]_vars => IInv'
<1> SUFFICES ASSUME IInv, [Next]_vars PROVE IInv'
  OBVIOUS
<1>1. CASE UNCHANGED vars
  BY <1>1, StutterKeeps
<1>2. CASE Tamper
  BY <1>2, TamperKeeps
<1>3. ASSUME NEW t \in Tasks, RailStep(t) PROVE IInv'
  <2>1. CASE ContinueRun(t) \/ OpenRun(t) \/ SetRun(t) \/ Discover(t)
    BY <2>1, ContinueRunKeeps, OpenRunKeeps, SetRunKeeps, DiscoverKeeps
  <2>2. CASE Compile(t) \/ Govern(t) \/ Plan(t) \/ Handoff(t) \/ Halt(t) \/ Approve(t)
    BY <2>2, CompileKeeps, GovernKeeps, PlanKeeps, HandoffKeeps, HaltKeeps, ApproveKeeps
  <2>3. CASE OpenResume(t) \/ CheckResume(t) \/ SetResume(t) \/ RecordApproval(t)
    BY <2>3, OpenResumeKeeps, CheckResumeKeeps, SetResumeKeeps, RecordApprovalKeeps
  <2>4. CASE ExecuteWrite(t) \/ VerifyRead(t) \/ Finalize(t)
    BY <2>4, ExecuteWriteKeeps, VerifyReadKeeps, FinalizeKeeps
  <2>5. CASE ExecuteSave(t) \/ VerifySave(t)
    BY <2>5, SaveStageKeeps DEF ExecuteSave, VerifySave, Touching
  <2> QED BY <1>3, <2>1, <2>2, <2>3, <2>4, <2>5 DEF RailStep
<1>4. ASSUME NEW t \in Tasks, EnterRail(t) PROVE IInv'
  BY <1>4, TicketJobKeeps, RunJobKeeps, StartRunKeeps, PickInRestKeeps, PickInSlackKeeps,
     DecideReadKeeps, McpCallKeeps DEF EnterRail
<1>5. ASSUME NEW t \in Tasks, Crash(t) PROVE IInv'
  BY <1>5, CrashKeeps
<1> QED BY <1>1, <1>2, <1>3, <1>4, <1>5 DEF Next

(* No copy of the case, stored or held by a task halfway through a stage,  *)
(* ever claims an authority the approvals table does not give.             *)
THEOREM InductiveInvariant == Spec => []IInv
BY InitInv, NextInv, PTL DEF Spec

(* Every variable keeps its type, whatever tasks run, race and crash.      *)
THEOREM TypeCorrect == Spec => []TypeOK
<1>1. IInv => TypeOK
  BY DEF IInv
<1> QED BY <1>1, InductiveInvariant, PTL

(* No target is written without policy's or the approver's authority: for  *)
(* every request, every verdict, any number of tasks and of crashes.       *)
THEOREM WritesAuthorised == Spec => []WritesAreAuthorised
<1>1. IInv => WritesAreAuthorised
  BY DEF IInv
<1> QED BY <1>1, InductiveInvariant, PTL

-----------------------------------------------------------------------------
(* The rail implements module Authority.                                   *)

(* A run that does not exist has changed, asked, decided and billed        *)
(* nothing.                                                                *)
LEMMA InitPromise == Init => Promise!Init
BY DEF Init, Promise!Init, NoApproval, Promise!NotDecided

(* dispatch_holds asks about held actions only, and once about an action   *)
(* id.                                                                     *)
LEMMA ApprovePromise ==
    ASSUME IInv, NEW t \in Tasks, Approve(t) PROVE Promise!Ask
<1> DEFINE c == ApplyDecisions(case[t])
<1>1. /\ asked' = [s \in Slots |-> IF Dispatched(c, s) THEN c[s].ent ELSE asked[s]]
      /\ UNCHANGED <<approvals, usage, systemVars>>
  BY DEF Approve
<1>2. c \in [Slots -> Cell] /\ Sound(c, approvals)
  <2>1. /\ case[t] \in [Slots -> Cell] /\ Sound(case[t], approvals)
        /\ Known(case[t], rows)
    BY DEF Approve, IInv, TypeOK, TaskTypeOK, TaskInv, LatePCs
  <2> QED BY <2>1, ApplyDecisionsSound DEF IInv, TypeOK
<1> HIDE DEF c
<1>3. ASSUME NEW s \in Slots, Dispatched(c, s)
      PROVE  asked[s] = NoEnt /\ c[s].ent \in Ents /\ Verdict[c[s].ent] = "HOLD"
  <2>1. c[s].st = "awaiting" /\ asked[s] = NoEnt
    BY <1>3 DEF Dispatched
  <2>2. c[s] \in Cell
    BY <1>2
  <2>3. c[s] # Absent
    BY <2>1 DEF Absent
  <2>4. c[s].ent \in Ents
    BY <2>2, <2>3, CellSplit
  <2> QED BY <1>2, <2>1, <2>4 DEF Sound
<1>4. asked' \in [Slots -> Ents \cup {NoEnt}]
  BY <1>1, <1>3 DEF IInv, TypeOK, TableTypeOK
<1>5. ASSUME NEW s \in Slots, asked'[s] # asked[s]
      PROVE  asked[s] = NoEnt /\ Verdict[asked'[s]] = "HOLD"
  BY <1>1, <1>3, <1>5
<1> QED BY <1>1, <1>4, <1>5 DEF Promise!Ask, systemVars

(* A write that changes the target is a Change somebody authorised; any    *)
(* other outcome changes nothing the promise speaks of.                    *)
LEMMA ExecutePromise ==
    ASSUME IInv, NEW t \in Tasks, ExecuteWrite(t)
    PROVE  \/ \E e \in Ents : Promise!Change(e)
           \/ UNCHANGED Promise!vars
<1>1. PICK s \in Executable(case[t]) :
        \/ held' = IF case[t][s].ent \in GrantEnts
                   THEN held \cup {case[t][s].ent} ELSE held \ {case[t][s].ent}
        \/ held' = held
  BY DEF ExecuteWrite, IsFirst
<1>2. UNCHANGED <<asked, approvals, usage>>
  BY DEF ExecuteWrite, tableVars, jobVars
<1> DEFINE e == case[t][s].ent
<1>3. /\ s \in Slots /\ e \in Ents
      /\ \/ Verdict[e] = "ALLOW"
         \/ /\ Verdict[e] = "HOLD"
            /\ approvals[s] = [ent |-> e, decision |-> "approved"]
  BY ExecutableAuthorised
<1>4. Promise!Authorised(e)
  BY <1>3 DEF Promise!Authorised
<1>5. CASE held' = held
  BY <1>2, <1>5 DEF Promise!vars
<1>6. CASE held' = IF e \in GrantEnts THEN held \cup {e} ELSE held \ {e}
  <2>1. Promise!Change(e)
    BY <1>2, <1>4, <1>6 DEF Promise!Change
  <2> QED BY <1>3, <2>1
<1> QED BY <1>1, <1>5, <1>6

(* record_approval decides an action id that had no decision, or does      *)
(* nothing.                                                                *)
LEMMA RecordPromise ==
    ASSUME IInv, NEW t \in Tasks, RecordApproval(t)
    PROVE  \/ \E s \in Slots, e \in Ents, d \in {"approved", "refused"} : Promise!Decide(s, e, d)
           \/ UNCHANGED Promise!vars
<1> DEFINE s == ask[t].slot
<1>1. /\ s \in Slots /\ ask[t].ent \in Ents /\ ask[t].decision \in {"approved", "refused"}
      /\ Verdict[ask[t].ent] = "HOLD"
  BY DEF RecordApproval, IInv, TypeOK, TaskTypeOK, TaskInv, Decision
<1>2. UNCHANGED <<asked, usage, systemVars>>
  BY DEF RecordApproval
<1>3. CASE approvals[s] # NoApproval
  BY <1>2, <1>3 DEF RecordApproval, Promise!vars, systemVars
<1>4. CASE approvals[s] = NoApproval
  <2>1. approvals' = [approvals EXCEPT ![s] =
            [ent |-> ask[t].ent, decision |-> ask[t].decision]]
    BY <1>4 DEF RecordApproval
  <2>2. Promise!Decide(s, ask[t].ent, ask[t].decision)
    BY <1>1, <1>2, <1>4, <2>1 DEF Promise!Decide, Promise!NotDecided, NoApproval, systemVars
  <2> QED BY <1>1, <2>2
<1> QED BY <1>3, <1>4

(* FINALIZE bills a run that was not billed yet, or does nothing.          *)
LEMMA FinalizePromise ==
    ASSUME IInv, NEW t \in Tasks, Finalize(t)
    PROVE  Promise!Bill \/ UNCHANGED Promise!vars
<1>1. UNCHANGED <<approvals, asked, systemVars>>
  BY DEF Finalize
<1>2. usage' = usage \/ (usage = "none" /\ usage' \in {"partial", "done"})
  BY DEF Finalize, UsageEvent
<1> QED BY <1>1, <1>2 DEF Promise!Bill, Promise!vars, systemVars

(* Every step of the rail is a step of the promise, or changes nothing it  *)
(* speaks of.                                                              *)
LEMMA NextPromise == IInv /\ [Next]_vars => [Promise!Next]_(Promise!vars)
<1> SUFFICES ASSUME IInv, [Next]_vars PROVE Promise!Next \/ UNCHANGED Promise!vars
  OBVIOUS
<1> USE DEF tableVars, jobVars, systemVars
<1>1. CASE UNCHANGED vars \/ Tamper
  BY <1>1 DEF vars, Tamper, Promise!vars
<1>2. ASSUME NEW t \in Tasks, RailStep(t) PROVE Promise!Next \/ UNCHANGED Promise!vars
  <2>1. CASE ContinueRun(t) \/ OpenRun(t) \/ SetRun(t) \/ Discover(t)
    BY <2>1 DEF ContinueRun, OpenRun, SetRun, Discover, Promise!vars
  <2>2. CASE Compile(t) \/ Govern(t) \/ Plan(t) \/ Handoff(t) \/ Halt(t)
    BY <2>2 DEF Compile, Govern, Plan, Handoff, Halt, Promise!vars
  <2>3. CASE OpenResume(t) \/ CheckResume(t) \/ SetResume(t)
    BY <2>3 DEF OpenResume, CheckResume, SetResume, Promise!vars
  <2>4. CASE ExecuteSave(t) \/ VerifyRead(t) \/ VerifySave(t)
    BY <2>4 DEF ExecuteSave, VerifyRead, VerifySave, SaveStage, Promise!vars
  <2>5. CASE Approve(t)
    BY <2>5, ApprovePromise DEF Promise!Next
  <2>6. CASE ExecuteWrite(t)
    BY <2>6, ExecutePromise DEF Promise!Next
  <2>7. CASE RecordApproval(t)
    BY <2>7, RecordPromise DEF Promise!Next
  <2>8. CASE Finalize(t)
    BY <2>8, FinalizePromise DEF Promise!Next
  <2> QED BY <1>2, <2>1, <2>2, <2>3, <2>4, <2>5, <2>6, <2>7, <2>8 DEF RailStep
<1>3. ASSUME NEW t \in Tasks, EnterRail(t) PROVE UNCHANGED Promise!vars
  BY <1>3 DEF EnterRail, TicketJob, RunJob, StartRun, PickInRest, PickInSlack, DecideRead,
     McpCall, Promise!vars
<1>4. ASSUME NEW t \in Tasks, Crash(t) PROVE UNCHANGED Promise!vars
  BY <1>4 DEF Crash, Promise!vars
<1> QED BY <1>1, <1>2, <1>3, <1>4 DEF Next

(* The rail keeps its promise, for every request and any number of tasks:  *)
(* a target changes only on authority, an approver is asked and decides    *)
(* once about an action id, a run is billed once.                          *)
THEOREM RailKeepsPromise == Spec => KeepsPromise
<1>1. Init => Promise!Init
  BY InitPromise
<1>2. IInv /\ [Next]_vars => [Promise!Next]_(Promise!vars)
  BY NextPromise
<1> QED BY <1>1, <1>2, InductiveInvariant, PTL DEF Spec, KeepsPromise, Promise!Spec
=============================================================================
