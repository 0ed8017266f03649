----------------------------- MODULE RailOrder ------------------------------
(***************************************************************************)
(* What keeps the passes of one run apart, and the invariants that follow. *)
(*                                                                         *)
(* The engine has no lock on a run as such.  Two of its doors, the job     *)
(* that continues a run by its id and the Slack button that answers a      *)
(* question, may begin a first pass beside another one; module Rail shows  *)
(* them, and what they break.  Without them the plans of a run are built   *)
(* one after the other: the ticket's lock, the run's lock and the status   *)
(* see to it.  That is not in the code as a statement, it follows from all *)
(* of the guards together, and nearly every promise of the rail rests on   *)
(* it.                                                                     *)
(***************************************************************************)
EXTENDS RailInv

(* A run comes from a ticket or from a door, never from both; it is not    *)
(* continued by its id, and a question is answered under the run's lock.   *)
OrderlyPlans ==
    /\ RunJobs = {} /\ SlackPicks = {}
    /\ TicketJobs = {} \/ Starts = {}

(* No delivery of the ticket's job has died halfway: no plan was made      *)
(* again that had begun to be carried out.                                 *)
Unbroken == \A t \in TicketJobs : pc[t] # "crashed"

(* A grant that the holdings do not show is wanted before all that they    *)
(* show, so that its action id is the same in every plan.                  *)
StableIds ==
    \A i, j \in DOMAIN Grants :
        i < j /\ Grants[j] \notin Listed => Grants[i] \notin Listed

-----------------------------------------------------------------------------
(* The order of the passes                                                 *)

Planners == TicketJobs \cup Starts \cup RestPicks
Resumers == Deciders \cup McpCalls

AskingPCs == {"open_run", "set_run"}
PlanPCs == AskingPCs \cup {"discover", "compile", "govern", "plan"}
ResumePCs == {"check_resume", "set_resume"}
PassPCs == {"handoff", "halt"} \cup LatePCs
OverPCs == {"idle", "done", "crashed"}

(* The task builds a plan, or carries out the one it has built.            *)
Planning(t) == t \in Planners /\ pc[t] \in PlanPCs \cup PassPCs

(* The task found the run waiting, and takes it up again.                  *)
Resuming(t) == t \in Resumers /\ pc[t] \in ResumePCs \cup PassPCs

(* No delivery of the ticket's job will do anything more.                  *)
JobsOver == TicketJobs = {} \/ jobDone

(* Where a task of each kind can be.                                       *)
KindInv(t) ==
    /\ t \in TicketJobs => pc[t] \in OverPCs \cup {"continue"} \cup (PlanPCs \ {"set_run"}) \cup PassPCs
    /\ t \in Starts => pc[t] \in OverPCs \cup (PlanPCs \ {"set_run"}) \cup PassPCs
    /\ t \in RestPicks => pc[t] \in OverPCs \cup PlanPCs \cup PassPCs
    /\ t \in Resumers => pc[t] \in OverPCs \cup {"record", "open_resume"} \cup ResumePCs \cup PassPCs

(* What a task holds, and what the run's status is, while it is there.     *)
HoldInv(t) ==
    /\ t \in TicketJobs /\ pc[t] \notin OverPCs => ticketLock = t /\ ~jobDone
    /\ t \in RestPicks /\ pc[t] \notin OverPCs => runLock = t /\ JobsOver
    /\ Planning(t) =>
           status = IF t \in RestPicks /\ pc[t] \in AskingPCs THEN "needs_input" ELSE "running"
    /\ Resuming(t) => JobsOver /\ status \notin {"none", "needs_input"}

(* At most one task plans at a time, and none resumes meanwhile.           *)
OneByOne == \A t, u \in Tasks : Planning(t) /\ (Planning(u) \/ Resuming(u)) => t = u

(* The inductive invariant of the order.                                   *)
OrderInv ==
    /\ status \notin {"none", "running"} => JobsOver
    /\ \A t \in Tasks : KindInv(t) /\ HoldInv(t)
    /\ OneByOne

(* A ticket's run is in the hands of one delivery until that has returned. *)
JobInv ==
    Unbroken =>
        status = "none" \/ JobsOver \/ \E t \in TicketJobs : Planning(t)

(* Something was written, or somebody was asked.                           *)
Begun == ledger # {} \/ \E s \in Slots : asked[s] # NoEnt

(* What has begun is planned again only after a crash.                     *)
FinalInv ==
    Unbroken /\ Begun =>
        /\ status \notin {"none", "needs_input"}
        /\ \A t \in Tasks : pc[t] \notin PlanPCs

(* The control: where the tasks are, what they hold, what is over.         *)
ControlInv == OrderInv /\ JobInv /\ FinalInv

-----------------------------------------------------------------------------
(* One plan at a time                                                      *)

SameEnts(c, d) == \A s \in Slots : c[s].ent = d[s].ent

(* Every task of a pass speaks of the plan that is stored, and so do the   *)
(* rows.                                                                   *)
AgreeInv ==
    /\ \A s \in Slots : capsule[s] # Absent => rows[s].ent = capsule[s].ent
    /\ \A t \in Tasks : pc[t] \in LatePCs => SameEnts(case[t], capsule)

InPlaceIn(c) == \A s \in Slots : c[s].st = "verified" => InPlace(c[s].ent)

(* What any copy of the case calls verified is in place.                   *)
CopiesInPlace == InPlaceIn(capsule) /\ \A t \in Tasks : InPlaceIn(case[t])

Holdings == {e \in held : e \in GrantEnts => e \in Listed}

(* A plan in the making is made of what the subject holds.                 *)
DraftInv ==
    \A t \in Tasks : pc[t] \in {"govern", "plan"} =>
        case[t] = Candidates(seen[t]) /\ seen[t] = Holdings

Distinct(c) == \A s, u \in Slots : c[s] # Absent /\ c[s].ent = c[u].ent => s = u

(* A change that was carried out shows, or keeps its action id: no plan    *)
(* that follows lists it under another.                                    *)
WriteInv ==
    /\ Distinct(capsule)
    /\ \A e \in Ents : wrote[e] <= 1
    /\ \A e \in Ents : wrote[e] # 0 =>
           /\ InPlace(e)
           /\ \E s \in Slots : <<s, e>> \in ledger
           /\ \A s \in Slots : capsule[s].ent = e => <<s, e>> \in ledger
    /\ StableIds =>
           \A e \in GrantEnts \ Listed, s \in Slots :
               <<s, e>> \in ledger \/ capsule[s].ent = e => s \in DOMAIN Grants /\ Grants[s] = e

(* Somebody was asked under the id; for what it stands for now, unless the *)
(* plan was made again.                                                    *)
AskedIn(c) ==
    \A s \in Slots : c[s].st = "awaiting" /\ c[s].ent \notin Unresolved =>
        asked[s] # NoEnt /\ (Unbroken => asked[s] = c[s].ent)

(* Past the Approve stage, all that waits has been asked.                  *)
AskInv ==
    /\ Unbroken => \A s \in Slots : asked[s] \in {NoEnt, capsule[s].ent}
    /\ \A t \in Tasks : pc[t] \in LatePCs \ {"approve"} => AskedIn(case[t])
    /\ status = "awaiting_approval" \/ (\E t \in Tasks : Resuming(t)) => AskedIn(capsule)

-----------------------------------------------------------------------------
(* Blockers                                                                *)

(* Something holds the whole run up.                                       *)
BlockerKnown == PolicyMissing \/ Unresolved # {}

(* It shows in the candidates, before the revocations have joined them.    *)
BlockerShows == PolicyMissing \/ Unresolved \cap GrantEnts # {}

Blocked(c, b) ==
    \/ b \/ c = EmptyCase
    \/ \E s \in Slots : c[s].st = "awaiting" /\ c[s].ent \in Unresolved

(* Nobody decides on an action that has no approver.                       *)
ResolvedInv ==
    /\ \A s \in Slots : approvals[s].ent \notin Unresolved
    /\ \A t \in Tasks : ask[t].ent \notin Unresolved

(* Every copy of the case that may be executed carries the blocker; where  *)
(* the stored one does not yet, the passes must wait for its plan.         *)
BlockInv ==
    /\ ledger = {} /\ held = Ents \ GrantEnts
    /\ \/ Blocked(capsule, blockers)
       \/ /\ ~BlockerShows /\ status # "awaiting_approval"
          /\ \A t \in Tasks : pc[t] \notin ResumePCs \cup PassPCs
    /\ \A t \in Tasks :
           /\ pc[t] = "approve" => Blocked(case[t], blk[t])
           /\ pc[t] \in LatePCs \ {"approve"} => blk[t] \/ case[t] = EmptyCase
           /\ pc[t] \in {"govern", "plan"} =>
                  /\ case[t] = Candidates(seen[t]) /\ seen[t] = Ents \ GrantEnts
                  /\ blk[t] = PolicyMissing

=============================================================================
