------------------------------ MODULE Approvals ------------------------------
(***************************************************************************)
(* Asking the named approver of one held action, and telling every door    *)
(* what was decided: the jobs approval.dispatch, fs.approval.mirror and    *)
(* door.update (surfaces/job_dispatch.py), the ticket (freshservice.py),   *)
(* the card (slack_app.py, slack_blocks.py), the mail and its signed links *)
(* (email.py, decision_link.py, decision_page.py, ses.py, once.py) and the *)
(* notices of Amazon SES (ses_webhook.py).                                 *)
(*                                                                         *)
(* A worker runs one job at a time, step by step; between two steps the    *)
(* approver may decide, the run may resume, a notice may arrive, and the   *)
(* worker's process may die.  What the decision does to the run is left to *)
(* module Rail, the lease of a job to module JobQueue: here a job has one  *)
(* holder.                                                                 *)
(***************************************************************************)
EXTENDS Naturals, Sequences

CONSTANTS
    Workers,
    Setups,       \* ways the run and its approver may be set up
    Choices,      \* decisions the approver may take
    MaxTries,     \* max_attempts of a job
    MaxFaults,    \* bound: crashes, lost answers and failed commits
    MaxVersion    \* bound: times the action's parameters are planned

Modes == {"FIXTURE", "LIVE"}
JobNames == {"dispatch", "mirror", "update"}
SetupType == [ticket : {"none", "source"} \cup Modes,  \* raised by the run, or placed for it
              agent  : BOOLEAN,                        \* the approver is known to Freshservice
              mode   : Modes,                          \* of the connector, at first
              slack  : BOOLEAN,
              mail   : BOOLEAN]                        \* prefers mail, and links can be signed

VARIABLES
    setup, mode,   \* mode: of the Freshservice connector
    action,        \* table actions: its state, and its parameters
    decision,      \* table approvals
    ticket,        \* Freshservice, by mode: approvals asked of the approver, notes posted
    cards, mails,  \* what reached the approver, in order
    row,           \* table door_messages, by channel
    jobs, worker,
    faults, lost, blind   \* lost, blind: mails sent whose commit failed, whose answer was lost

vars == <<setup, mode, action, decision, ticket, cards, mails, row, jobs, worker,
          faults, lost, blind>>
outside == <<setup, mode, action, decision>>

NoDecision == [choice |-> "none", version |-> 0, card |-> 0]
NoRef == [approval |-> "none", mirror |-> FALSE]
Idle == [job |-> "none", at |-> "idle", ref |-> NoRef, saw |-> 0, told |-> FALSE]
Places == {"idle", "ask", "request", "store", "card", "post", "record", "mail", "send", "commit",
           "end", "mirror", "note", "keep", "redraw"}

(* What is given: ways to be set up, and that a job may be tried.          *)
Given ==
    /\ Setups \subseteq SetupType
    /\ MaxTries \in Nat \ {0} /\ MaxVersion \in Nat \ {0} /\ MaxFaults \in Nat

TypeOK ==
    /\ setup \in Setups /\ mode \in Modes
    /\ action \in [state : {"awaiting"} \cup Choices, version : 1..MaxVersion]
    /\ decision \in [choice : {"none"} \cup Choices, version : 0..MaxVersion, card : Nat]
    /\ DOMAIN ticket = Modes /\ \A m \in Modes : ticket[m].asked \in Nat
    /\ cards \in Seq([version : 1..MaxVersion, shows : {"buttons", "decided"}])
    /\ mails \in Seq([version : 1..MaxVersion, notice : {"none", "sent", "overtook", "applied"}])
    /\ row.fs \in [approval : {"none"} \cup Modes, mirror : BOOLEAN]
    /\ row.slack \in 0..Len(cards)
    /\ row.email \in [msg : 0..Len(mails), bounced : BOOLEAN]
    /\ jobs \in [JobNames -> [state : {"none", "ready", "held", "done", "dead"}, tries : 0..MaxTries]]
    /\ \A w \in Workers : worker[w].job \in JobNames \cup {"none"} /\ worker[w].at \in Places
    /\ faults \in 0..MaxFaults /\ lost + blind <= faults

Init ==
    /\ setup \in Setups /\ mode = setup.mode
    /\ action = [state |-> "awaiting", version |-> 1]
    /\ decision = NoDecision
    /\ ticket = [m \in Modes |-> [asked |-> 0, notes |-> <<>>]]
    /\ cards = <<>> /\ mails = <<>>
    /\ row = [fs |-> NoRef, slack |-> 0, email |-> [msg |-> 0, bounced |-> FALSE]]
    /\ jobs = [k \in JobNames |-> [state |-> IF k = "dispatch" THEN "ready" ELSE "none", tries |-> 0]]
    /\ worker = [w \in Workers |-> Idle]
    /\ faults = 0 /\ lost = 0 /\ blind = 0

-----------------------------------------------------------------------------
(* Jobs and workers                                                        *)

At(w, place) == worker[w].at = place
Go(w, place) == worker' = [worker EXCEPT ![w].at = place]
GoTold(w, place) == worker' = [worker EXCEPT ![w].at = place, ![w].told = TRUE]

Finish(w, state) ==
    /\ jobs' = [jobs EXCEPT ![worker[w].job].state = state]
    /\ worker' = [worker EXCEPT ![w] = Idle]

(* A handler that raises is tried again, until its attempts are spent.     *)
Again(w) == Finish(w, IF jobs[worker[w].job].tries < MaxTries THEN "ready" ELSE "dead")

Fault == faults < MaxFaults /\ faults' = faults + 1

Claim(w, k) ==
    /\ worker[w] = Idle
    /\ jobs[k].state = "ready"
    /\ jobs' = [jobs EXCEPT ![k] = [state |-> "held", tries |-> @.tries + 1]]
    /\ worker' = [worker EXCEPT ![w].job = k,
                                ![w].at = CASE k = "dispatch" -> "ask"
                                            [] k = "mirror"   -> "mirror"
                                            [] k = "update"   -> "redraw"]
    /\ UNCHANGED <<outside, ticket, cards, mails, row, faults, lost, blind>>

(* The worker's process dies, and the lease of its job runs out; a process *)
(* may start again with the live tenant configured.                        *)
Crash(w, newMode) ==
    /\ worker[w] # Idle
    /\ Fault /\ Again(w)
    /\ newMode \in {mode, "LIVE"} /\ mode' = newMode
    /\ lost' = lost + (IF At(w, "commit") THEN 1 ELSE 0)
    /\ UNCHANGED <<setup, action, decision, ticket, cards, mails, row, blind>>

-----------------------------------------------------------------------------
(* approval.dispatch: the ticket, then the card, then the mail             *)

HasTicket == setup.ticket \in {"source", mode}
Awaiting == action.state = "awaiting"

AskOnTicket(w) ==
    /\ At(w, "ask")
    /\ \/ /\ ~Awaiting \/ ~HasTicket \/ (row.fs.approval # mode /\ ~setup.agent)
          /\ Go(w, "card")
       \/ /\ Awaiting /\ HasTicket /\ row.fs.approval = mode
          /\ GoTold(w, "card")
       \/ /\ Awaiting /\ HasTicket /\ row.fs.approval # mode /\ setup.agent
          /\ Go(w, "request")
    /\ UNCHANGED <<outside, ticket, cards, mails, row, jobs, faults, lost, blind>>

(* The ticket's approvals are read first, and a live one is used again.    *)
AskedApproval ==
    IF ticket[mode].asked > 0 THEN ticket ELSE [ticket EXCEPT ![mode].asked = @ + 1]

(* The call answers, is never sent, or its answer is lost.                 *)
RequestApproval(w) ==
    /\ At(w, "request")
    /\ \/ ticket' = AskedApproval /\ Go(w, "store") /\ UNCHANGED <<jobs, faults>>
       \/ ticket' \in {ticket, AskedApproval} /\ Fault /\ Again(w)
    /\ UNCHANGED <<outside, cards, mails, row, lost, blind>>

StoreApproval(w) ==
    /\ At(w, "store")
    /\ row' = [row EXCEPT !.fs = [approval |-> mode, mirror |-> FALSE]]
    /\ GoTold(w, "card")
    /\ UNCHANGED <<outside, ticket, cards, mails, jobs, faults, lost, blind>>

(* The card is posted once: its row is read before, and written after.     *)
FindCard(w) ==
    /\ At(w, "card")
    /\ \/ row.slack # 0 /\ setup.slack /\ GoTold(w, "mail")
       \/ (~setup.slack \/ (row.slack = 0 /\ ~Awaiting)) /\ Go(w, "mail")
       \/ /\ setup.slack /\ row.slack = 0 /\ Awaiting
          /\ worker' = [worker EXCEPT ![w].at = "post", ![w].saw = action.version]
    /\ UNCHANGED <<outside, ticket, cards, mails, row, jobs, faults, lost, blind>>

PostCard(w) ==
    /\ At(w, "post")
    /\ \/ /\ cards' = Append(cards, [version |-> worker[w].saw, shows |-> "buttons"])
          /\ Go(w, "record") /\ UNCHANGED <<jobs, faults>>
       \/ Fault /\ Again(w) /\ UNCHANGED cards
    /\ UNCHANGED <<outside, ticket, mails, row, lost, blind>>

RecordCard(w) ==
    /\ At(w, "record")
    /\ row' = [row EXCEPT !.slack = Len(cards)]
    /\ GoTold(w, "mail")
    /\ UNCHANGED <<outside, ticket, cards, mails, jobs, faults, lost, blind>>

(* The job asks for version 1 of the parameters: it is enqueued once.      *)
FindMail(w) ==
    /\ At(w, "mail")
    /\ worker' = [worker EXCEPT ![w].saw = action.version,
                                ![w].at = IF setup.mail /\ Awaiting /\ action.version = 1
                                          THEN "send" ELSE "end"]
    /\ UNCHANGED <<outside, ticket, cards, mails, row, jobs, faults, lost, blind>>

(* A mutant: the links carry the version that was decided, if any.         *)
UndatedMail(w) == Append(mails, [version |-> decision.version, notice |-> "none"])

(* The mail's two links carry the parameters it shows.                     *)
NewMail(w) == Append(mails, [version |-> worker[w].saw, notice |-> "none"])

(* A mutant: the row is not asked whether the mail went.                   *)
AlwaysToSend == TRUE

ToSend == row.email.msg = 0

(* Look, send and record in one transaction, under the message's lock: the *)
(* call is refused, or SES takes the mail, or takes it with no answer.     *)
SendMail(w) ==
    /\ At(w, "send")
    /\ \/ ~ToSend /\ GoTold(w, "end") /\ UNCHANGED <<mails, jobs, faults, blind>>
       \/ /\ ToSend /\ mails' = NewMail(w) /\ Go(w, "commit")
          /\ UNCHANGED <<jobs, faults, blind>>
       \/ /\ ToSend /\ Fault /\ Again(w)
          /\ \/ UNCHANGED <<mails, blind>>
             \/ mails' = NewMail(w) /\ blind' = blind + 1
    /\ UNCHANGED <<outside, ticket, cards, row, lost>>

CommitMail(w) ==
    /\ At(w, "commit")
    /\ \/ /\ row' = [row EXCEPT !.email = [msg |-> Len(mails), bounced |-> FALSE]]
          /\ GoTold(w, "end") /\ UNCHANGED <<jobs, faults, lost>>
       \/ Fault /\ Again(w) /\ lost' = lost + 1 /\ UNCHANGED row
    /\ UNCHANGED <<outside, ticket, cards, mails, blind>>

(* A job that reached nobody is dead at once.                              *)
EndDispatch(w) ==
    /\ At(w, "end")
    /\ Finish(w, IF worker[w].told THEN "done" ELSE "dead")
    /\ UNCHANGED <<outside, ticket, cards, mails, row, faults, lost, blind>>

-----------------------------------------------------------------------------
(* fs.approval.mirror and door.update                                      *)

ReadDecision(w) ==
    /\ At(w, "mirror")
    /\ \/ /\ row.fs.approval = mode \/ HasTicket
          /\ worker' = [worker EXCEPT ![w].at = "note", ![w].ref = row.fs]
          /\ UNCHANGED jobs
       \/ row.fs.approval # mode /\ ~HasTicket /\ Finish(w, "done")
    /\ UNCHANGED <<outside, ticket, cards, mails, row, faults, lost, blind>>

Noted ==
    IF ticket[mode].notes # <<>> THEN ticket
    ELSE [ticket EXCEPT ![mode].notes = Append(@, decision.choice)]

(* The note is found by its marker, or posted and read back: the job is    *)
(* tried again when the call is not sent, its answer lost, or the note not *)
(* to be seen yet.                                                         *)
PostNote(w) ==
    /\ At(w, "note")
    /\ \/ ticket' = Noted /\ Go(w, "keep") /\ UNCHANGED <<jobs, faults>>
       \/ ticket' \in {ticket, Noted} /\ Fault /\ Again(w)
    /\ UNCHANGED <<outside, cards, mails, row, lost, blind>>

(* A mutant: the mirror's reference replaces the row.                      *)
KeepOnlyMirror(w) ==
    /\ At(w, "keep")
    /\ row' = [row EXCEPT !.fs = [NoRef EXCEPT !.mirror = TRUE]]
    /\ Finish(w, "done")
    /\ UNCHANGED <<outside, ticket, cards, mails, faults, lost, blind>>

(* The row as it was read, with the mirror beside it.                      *)
KeepMirror(w) ==
    /\ At(w, "keep")
    /\ row' = [row EXCEPT !.fs = [worker[w].ref EXCEPT !.mirror = TRUE]]
    /\ Finish(w, "done")
    /\ UNCHANGED <<outside, ticket, cards, mails, faults, lost, blind>>

Redrawn == IF row.slack = 0 THEN cards ELSE [cards EXCEPT ![row.slack].shows = "decided"]

UpdateCard(w) ==
    /\ At(w, "redraw")
    /\ \/ /\ cards' = IF setup.slack THEN Redrawn ELSE cards
          /\ Finish(w, "done") /\ UNCHANGED faults
       \/ setup.slack /\ row.slack # 0 /\ Fault /\ Again(w) /\ UNCHANGED cards
    /\ UNCHANGED <<outside, ticket, mails, row, lost, blind>>

-----------------------------------------------------------------------------
(* The approver, the rail and the mail service                             *)

(* What the buttons of the cards, and the links of the mails, were made    *)
(* for: a link's token verifies to the claims it was signed with.          *)
OnCards == {cards[i].version : i \in {k \in DOMAIN cards : cards[k].shows = "buttons"}}
InLinks == {mails[i].version : i \in DOMAIN mails}

Told == [k \in JobNames |-> IF k = "dispatch" THEN jobs[k] ELSE [jobs[k] EXCEPT !.state = "ready"]]

(* The first decision for the present parameters is recorded, with the     *)
(* jobs that tell of it.                                                   *)
Decide(choice, v) ==
    /\ decision = NoDecision /\ Awaiting
    /\ v = action.version
    /\ decision' = [choice |-> choice, version |-> v, card |-> row.slack]
    /\ jobs' = Told
    /\ UNCHANGED <<setup, mode, action, ticket, cards, mails, row, worker, faults, lost, blind>>

DecideOnWeb(choice) == Decide(choice, action.version)
ClickCard(choice) == setup.slack /\ \E v \in OnCards : Decide(choice, v)
FollowLink(choice) == \E v \in InLinks : Decide(choice, v)

(* A click in Slack, recorded or too late, redraws the card at once.       *)
RedrawOnClick ==
    /\ decision # NoDecision /\ setup.slack /\ cards # <<>>
    /\ cards' = Redrawn
    /\ UNCHANGED <<outside, ticket, mails, row, jobs, worker, faults, lost, blind>>

Resume ==
    /\ Awaiting /\ decision # NoDecision /\ decision.version = action.version
    /\ action' = [action EXCEPT !.state = decision.choice]
    /\ UNCHANGED <<setup, mode, decision, ticket, cards, mails, row, jobs, worker, faults, lost, blind>>

(* A pass that is begun again plans the action with other parameters.      *)
Replan ==
    /\ Awaiting /\ action.version < MaxVersion
    /\ action' = [action EXCEPT !.version = @ + 1]
    /\ UNCHANGED <<setup, mode, decision, ticket, cards, mails, row, jobs, worker, faults, lost, blind>>

Bounce(i) ==
    /\ mails[i].notice = "none"
    /\ mails' = [mails EXCEPT ![i].notice = "sent"]
    /\ UNCHANGED <<outside, ticket, cards, row, jobs, worker, faults, lost, blind>>

InFlight(i) == i = Len(mails) /\ \E w \in Workers : At(w, "commit")

Marked(i) == IF row.email.msg = i THEN [row EXCEPT !.email.bounced = TRUE] ELSE row

(* A notice is applied once, to the row that names its mail, if any.       *)
RecordNotice(i) ==
    /\ mails[i].notice = "sent"
    /\ mails' = [mails EXCEPT ![i].notice = IF InFlight(i) THEN "overtook" ELSE "applied"]
    /\ row' = Marked(i)
    /\ UNCHANGED <<outside, ticket, cards, jobs, worker, faults, lost, blind>>

-----------------------------------------------------------------------------
DispatchStep(w) ==
    \/ AskOnTicket(w) \/ RequestApproval(w) \/ StoreApproval(w)
    \/ FindCard(w) \/ PostCard(w) \/ RecordCard(w)
    \/ FindMail(w) \/ SendMail(w) \/ CommitMail(w) \/ EndDispatch(w)

TellStep(w) == ReadDecision(w) \/ PostNote(w) \/ KeepMirror(w) \/ UpdateCard(w)

WorkerStep(w) == (\E k \in JobNames : Claim(w, k)) \/ DispatchStep(w) \/ TellStep(w)

Next ==
    \/ \E w \in Workers : WorkerStep(w) \/ \E m \in Modes : Crash(w, m)
    \/ \E choice \in Choices : DecideOnWeb(choice) \/ ClickCard(choice) \/ FollowLink(choice)
    \/ RedrawOnClick \/ Resume \/ Replan
    \/ \E i \in DOMAIN mails : Bounce(i) \/ RecordNotice(i)

Fairness == \A w \in Workers : WF_vars(WorkerStep(w))

Spec == Init /\ [][Next]_vars
FairSpec == Spec /\ Fairness

-----------------------------------------------------------------------------
(* An approver gets a second mail only for one whose commit failed or      *)
(* whose answer was lost: jobs that are tried again do not send again.     *)
OneMailPerSend == Len(mails) <= 1 + lost + blind

(* On each tenant the approver is asked once and the decision noted once,  *)
(* whatever answers get lost.                                              *)
TicketWrittenOnce == \A m \in Modes : ticket[m].asked <= 1 /\ Len(ticket[m].notes) <= 1

(* A dispatch job that is done reached the approver somewhere.             *)
DoneMeansAsked ==
    jobs["dispatch"].state = "done" =>
        (\E m \in Modes : ticket[m].asked > 0) \/ cards # <<>> \/ mails # <<>>

(* A bounce of the mail on record is marked on it, but for a notice that   *)
(* overtook the transaction which records the mail.                        *)
BounceIsMarked ==
    row.email.msg # 0 /\ mails[row.email.msg].notice = "applied" => row.email.bounced

(* However deliveries go, the approver is asked once, and it is on record. *)
AskingIsSound == OneMailPerSend /\ TicketWrittenOnce /\ DoneMeansAsked /\ BounceIsMarked

(* Where the approver was asked on the ticket is never forgotten, with one *)
(* worker.                                                                 *)
ApprovalStaysKnown ==
    [][row.fs.approval # "none" => row'.fs.approval \in {row.fs.approval, mode}]_vars

(* A decision takes the buttons off the card that was on record when it    *)
(* came, and is written on the ticket of a ticket's run.                   *)
DecisionIsShown ==
    (decision # NoDecision) ~>
        /\ decision.card # 0 => cards[decision.card].shows = "decided"
        /\ setup.ticket = "source" => \E m \in Modes : ticket[m].notes = <<decision.choice>>

(* The places where the approver was asked stay known and learn the end.   *)
DecisionIsTold == ApprovalStaysKnown /\ DecisionIsShown
=============================================================================
