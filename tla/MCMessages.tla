----------------------------- MODULE MCMessages -----------------------------
(***************************************************************************)
(* A small instance of module Messages, for TLC, which explores one        *)
(* component in each behaviour, the one that part names, while the         *)
(* variables of the others keep their initial values.                      *)
(***************************************************************************)
EXTENDS Messages

(* Who is asked where: on the ticket and in Slack; on the tenant's ticket  *)
(* and by mail; on a ticket raised while Freshservice was a fixture, and   *)
(* by mail; in Slack and by mail, without a ticket.                        *)
SomeSetups == {
    [ticket |-> "source", agent |-> TRUE, mode |-> "FIXTURE", slack |-> TRUE, mail |-> FALSE],
    [ticket |-> "source", agent |-> TRUE, mode |-> "LIVE", slack |-> FALSE, mail |-> TRUE],
    [ticket |-> "FIXTURE", agent |-> TRUE, mode |-> "FIXTURE", slack |-> FALSE, mail |-> TRUE],
    [ticket |-> "none", agent |-> FALSE, mode |-> "LIVE", slack |-> TRUE, mail |-> TRUE]}

(* A run that waits twice, asking for the same things, and ends partly.    *)
TwoWaits == <<[status |-> "awaiting_approval", verified |-> 1, failed |-> 0],
              [status |-> "awaiting_approval", verified |-> 1, failed |-> 0],
              [status |-> "partial", verified |-> 2, failed |-> 0]>>

VARIABLES part

mcVars == <<part, messageVars>>

(* What the components take for granted holds of these.                    *)
ASSUME AllGiven == A!Given /\ R!Given

Of(name, Move) == part = name /\ Move /\ UNCHANGED part

MCInit ==
    /\ part \in {"jobs", "approvals", "receipts"}
    /\ MessagesInit
    /\ part # "approvals" => setup.ticket = "none"

MCNext ==
    \/ Of("jobs", Working(Next))
    \/ Of("approvals", Approving(A!Next))
    \/ Of("receipts", Receipting(R!Next))

Fairness ==
    /\ \A w \in Workers : WF_mcVars(Of("jobs", Working(WorkerStep(w))))
    /\ \A j \in Jobs : /\ WF_mcVars(Of("jobs", Working(LeaseRunsOut(j))))
                       /\ WF_mcVars(Of("jobs", Working(RetryIsDue(j))))
    /\ \A w \in Messengers : WF_mcVars(Of("approvals", Approving(A!WorkerStep(w))))
    /\ WF_mcVars(Of("receipts", Receipting(R!Act))) /\ WF_mcVars(Of("receipts", Receipting(R!Finalize)))
    /\ \A w \in Builders : SF_mcVars(Of("receipts", Receipting(R!WorkerStep(w))))

MCSpec == MCInit /\ [][MCNext]_mcVars /\ Fairness
=============================================================================
