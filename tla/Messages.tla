------------------------------ MODULE Messages ------------------------------
(***************************************************************************)
(* The job queue (JobQueue) and the components whose jobs carry messages,  *)
(* composed: an approver is asked and told (Approvals), a run's receipt is *)
(* built, noted and mailed (Receipts).  Each step is one component's.      *)
(***************************************************************************)
EXTENDS JobQueue, Sequences

CONSTANTS
    Messengers, Setups, Choices, MaxVersion,   \* module Approvals, Workers is Messengers
    Builders, Story, Final,                    \* module Receipts, Workers is Builders
    MaxTries, MaxFaults                        \* of both

VARIABLES
    setup, mode, action, decision, ticket, cards, mails, row, tasks, worker, faults, lost, blind,
    acts, run, stored, indexed, builds, lock, builder, notes, receiptMails, cuts, unnoted

A == INSTANCE Approvals WITH Workers <- Messengers, jobs <- tasks
R == INSTANCE Receipts WITH
         Workers <- Builders, jobs <- builds, worker <- builder, mails <- receiptMails,
         faults <- cuts, lost <- unnoted

aVars == <<setup, mode, action, decision, ticket, cards, mails, row, tasks, worker, faults, lost, blind>>
rVars == <<acts, run, stored, indexed, builds, lock, builder, notes, receiptMails, cuts, unnoted>>
messageVars == <<vars, aVars, rVars>>

Working(Move) == Move /\ UNCHANGED <<aVars, rVars>>
Approving(Move) == Move /\ UNCHANGED <<vars, rVars>>
Receipting(Move) == Move /\ UNCHANGED <<vars, aVars>>

MessagesInit == Init /\ A!Init /\ R!Init
MessagesNext == Working(Next) \/ Approving(A!Next) \/ Receipting(R!Next)
MessagesSpec == MessagesInit /\ [][MessagesNext]_messageVars

-----------------------------------------------------------------------------
(* The properties of the components, as they state them.                   *)

(* Every component keeps the types of its variables.                       *)
TypesOK == TypeOK /\ A!TypeOK /\ R!TypeOK
(* An approver is asked once and it is on record (module Approvals).       *)
AskingIsSound == A!AskingIsSound
(* Receipts, notes and mails tell states the run was in (module Receipts). *)
ReceiptsAreTrue == R!ReceiptsAreTrue
(* Who was asked learns the decision, and receipt, index and notes come to *)
(* tell the outcome of the run.                                            *)
OutcomeIsTold == A!DecisionIsTold /\ R!ReceiptCatchesUp
=============================================================================
