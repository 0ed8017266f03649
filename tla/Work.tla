-------------------------------- MODULE Work --------------------------------
(***************************************************************************)
(* A run's way in and through its stages, composed: how it begins          *)
(* (Intake), whom it is about (Discovery), its case (CaseFile), what is    *)
(* done for it (Execute), and the sessions of the database (Database).     *)
(* Each step is one component's; the others share no variable with it.     *)
(***************************************************************************)
EXTENDS Execute, Integers, Sequences

CONSTANTS
    Requests, Posts, Webhooks, JobRuns, Raised, TicketOf, RefOf, EventOf, BodyOf,   \* module Intake,
    Onboarding, Echo, MortalCallers, None,                                          \* KeyOf is EventOf
    People, FullName, FirstName, Texts, Model, MaxChanges,                          \* module Discovery
    Rules, Cites, Governs, Budget, Cases, Libraries, Spans, Messages,               \* module CaseFile,
    Limit, Days, MaxEdits,                                                          \* Requests is Cases
    Sessions, Script, PoolSize, MortalSessions,                                     \* module Database
    Orderly     \* the sessions that run under the lock of their run, or only append

VARIABLES
    run, event, message, helped, asked, queued, jobDone, placed, lock, place, at, answer,
    text, directory, changes, status, stage, pins, intent, found, needs, asking, answered,
    request, files, edits, shelf, today, posted, compiling, gathered, quoted, blockers, judged, sealed,
    stmt, failed, conns, held, audit, pending, head, seq

I == INSTANCE Intake WITH KeyOf <- EventOf, Mortal <- MortalCallers, pc <- place
D == INSTANCE Discovery
C == INSTANCE CaseFile WITH Requests <- Cases, stage <- compiling
B == INSTANCE Database WITH Mortal <- MortalSessions, at <- stmt

iVars == <<run, event, message, helped, asked, queued, jobDone, placed, lock, place, at, answer>>
dVars == <<text, directory, changes, status, stage, pins, intent, found, needs, asking, answered>>
cVars == <<request, files, edits, shelf, today, posted, compiling, gathered, quoted, blockers, judged, sealed>>
bVars == <<stmt, failed, conns, held, audit, pending, head, seq>>
workVars == <<vars, iVars, dVars, cVars, bVars>>

Executing(Move) == Move /\ UNCHANGED <<iVars, dVars, cVars, bVars>>
Taking(Move) == Move /\ UNCHANGED <<vars, dVars, cVars, bVars>>
Finding(Move) == Move /\ UNCHANGED <<vars, iVars, cVars, bVars>>
Compiling(Move) == Move /\ UNCHANGED <<vars, iVars, dVars, bVars>>
Connecting(Move) == Move /\ UNCHANGED <<vars, iVars, dVars, cVars>>

WorkInit == Init /\ I!Init /\ D!Init /\ C!Init /\ B!Init

WorkNext ==
    Executing(Next) \/ Taking(I!Next) \/ Finding(D!Next) \/ Compiling(C!Next) \/ Connecting(B!Next)

WorkSpec == WorkInit /\ [][WorkNext]_workVars

-----------------------------------------------------------------------------
(* The properties of the parts, as they state them; Execute's are its own. *)

(* Every part keeps the types of its variables.                            *)
TypesOK == TypeOK /\ I!TypeOK /\ D!TypeOK /\ C!TypeOK /\ B!TypeOK
(* One run and one ticket for a request, however often it is delivered.    *)
OneOfEach == I!OneOfEach
(* A request deals with its own run, and with a ticket that exists.        *)
RequestsStayApart == I!RequestsStayApart
(* What a row says of a ticket is final.                                   *)
OutcomeStands == I!OutcomeStands
(* A ticket whose webhook was accepted gets a run taken to an outcome.     *)
AcceptedTicketIsRun == I!AcceptedTicketIsRun
(* A case is about those who were meant, and rests on what is on record    *)
(* and in the pages (modules Discovery and CaseFile).                      *)
CasesAreSound == D!DiscoveryIsSound /\ C!CaseIsSound
(* The audit rows are one chain, and passes under the lock of their run do *)
(* not wait for each other in a circle (module Database).                  *)
DatabaseIsSound == B!ChainIsLinear /\ B!NoDeadlock(Orderly)
(* What was answered is not asked again (module Discovery).                *)
AsksOnce == D!AsksOnce
=============================================================================
