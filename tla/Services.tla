------------------------------ MODULE Services ------------------------------
(***************************************************************************)
(* The services around a run, composed: the rules and who decides          *)
(* (Governing), stage events and their followers (Streams), calls of the   *)
(* model (Router), questions (Questions), the phone (Voice), the helpdesk  *)
(* (Helpdesk) and its rate limit (RateLimit).  Each step is one            *)
(* component's; the others share no variable with it.                      *)
(***************************************************************************)
EXTENDS Governing

CONSTANTS
    Procs, Servers, Clients, Passes, HostOf, EventsKept, MaxEvents,     \* module Streams, Keep is EventsKept
    MaxRestarts,
    Calls, RunOf, Uncharged, Chains, Reserve, RunBudget, BedrockCap,    \* module Router, Callers is Calls,
    MaxFailures,                                                        \* NoRun is Uncharged
    Askers, Persons, Threads, RunNumbers, OwnerOf, ThreadOf, AsksWhat,  \* module Questions, Runs is RunNumbers,
    Phases, Decisions, EntriesKept, MaxSteps, MaxSpend, MaxCost,        \* MayAsk is AsksWhat
    Texts, Items, HighRisk, Pending,                                    \* module Voice
    MaxStreams, MaxUtterances, MaxRepeats,
    Titles, MaxTries, MaxFaults,                                        \* module Helpdesk
    Callers, Rate, Burst, Seconds, MaxTime, NoCaller                    \* module RateLimit, Nobody is NoCaller

VARIABLES
    status, bus, passes, revived, client, got, told, missed, message, restarts,
    chain, call, locks, booked, open, paid, faults, crashes,
    phase, memory, scopes, ask,
    phone, registry, stream, session, d, said, repeats, log,
    tenant, use, held, flying, strays, upsets,
    now, parts, stamp, sleeper, wake, from, sent

S == INSTANCE Streams WITH Keep <- EventsKept, run <- status, task <- passes, ended <- told
R == INSTANCE Router WITH Callers <- Calls, MaxFaults <- MaxFailures, NoRun <- Uncharged
Q == INSTANCE Questions WITH Keep <- EntriesKept, Runs <- RunNumbers, MayAsk <- AsksWhat, lock <- scopes
V == INSTANCE Voice WITH call <- registry
H == INSTANCE Helpdesk WITH live <- tenant, faults <- upsets
L == INSTANCE RateLimit WITH Nobody <- NoCaller

sVars == <<status, bus, passes, revived, client, got, told, missed, message, restarts>>
rVars == <<chain, call, locks, booked, open, paid, faults, crashes>>
qVars == <<phase, memory, scopes, ask>>
vVars == <<phone, registry, stream, session, d, said, repeats, log>>
hVars == <<tenant, use, held, flying, strays, upsets>>
lVars == <<now, parts, stamp, sleeper, wake, from, sent>>
serviceVars == <<vars, sVars, rVars, qVars, vVars, hVars, lVars>>

Deciding(Move) == Move /\ UNCHANGED <<sVars, rVars, qVars, vVars, hVars, lVars>>
Streaming(Move) == Move /\ UNCHANGED <<vars, rVars, qVars, vVars, hVars, lVars>>
Routing(Move) == Move /\ UNCHANGED <<vars, sVars, qVars, vVars, hVars, lVars>>
Asking(Move) == Move /\ UNCHANGED <<vars, sVars, rVars, vVars, hVars, lVars>>
Calling(Move) == Move /\ UNCHANGED <<vars, sVars, rVars, qVars, hVars, lVars>>
UsingHelpdesk(Move) == Move /\ UNCHANGED <<vars, sVars, rVars, qVars, vVars, lVars>>
Limiting(Move) == Move /\ UNCHANGED <<vars, sVars, rVars, qVars, vVars, hVars>>

ServicesInit == Init /\ S!Init /\ R!Init /\ Q!Init /\ V!Init /\ H!Init /\ L!Init

ServicesNext ==
    \/ Deciding(Next)
    \/ Streaming(S!Next)
    \/ Routing(R!Next)
    \/ Asking(Q!Next)
    \/ Calling(V!Next)
    \/ UsingHelpdesk(H!Next)
    \/ Limiting(L!Next)

ServicesSpec == ServicesInit /\ [][ServicesNext]_serviceVars

-----------------------------------------------------------------------------
(* The properties of the components, as they state them; Governing's       *)
(* PolicyIsKept is its own.                                                *)

(* Every component keeps the types of its variables.                       *)
TypesOK == TypeOK /\ S!TypeOK /\ R!TypeOK /\ Q!TypeOK /\ V!TypeOK /\ H!TypeOK /\ L!TypeOK
(* What the followers of a run are shown is true and in order (module      *)
(* Streams).                                                               *)
FollowersSeeTheRun == S!FollowersSeeTheRun
(* Budgets hold for all callers together (module Router).                  *)
BudgetsHold == R!BudgetsHold
(* Answers are the asker's own, true to their sources and bounded (module  *)
(* Questions).                                                             *)
AnswersAreGrounded == Q!AnswersAreGrounded
(* The phone does what its caller confirmed, and no more (module Voice).   *)
PhoneIsHarmless == V!PhoneIsHarmless
(* What the helpdesk is said to hold it holds, once and itself, and its    *)
(* bucket lets no minute through more than the rate and the burst (modules *)
(* Helpdesk, RateLimit).                                                   *)
HelpdeskIsSound == H!HelpdeskIsSound /\ L!WithinTheRate
(* Whatever is waited for comes to an end.                                 *)
ServicesAnswer == S!StreamEnds /\ R!CallsEnd
=============================================================================
