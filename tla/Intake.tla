------------------------------- MODULE Intake -------------------------------
(***************************************************************************)
(* How requests become runs, and runs get tickets (intake.py; POST /runs   *)
(* in surfaces/rest.py; the Freshservice webhook; start_ticket_request in  *)
(* surfaces/ticket_requests.py, behind the voice, web and Slack doors).    *)
(*                                                                         *)
(* A ticket that somebody raised comes in by a webhook, whose rail.run job *)
(* a worker takes up, or by a POST; a request made in another door starts  *)
(* a run first and then places the ticket for it.  Every caller acts once: *)
(* a retry is a caller of its own.  A caller holds an advisory lock for as *)
(* long as its transaction lasts, while the run it starts commits in       *)
(* transactions of its own: a caller that dies in between has started a    *)
(* run it never wrote down.                                                *)
(*                                                                         *)
(* Runs are named after the caller that starts them, and a ticket placed   *)
(* for a run after that run.  What the rail does with a run is left to     *)
(* module Rail: here it settles, or the pass is broken off.                *)
(***************************************************************************)
EXTENDS Naturals, FiniteSets

CONSTANTS
    Requests,   \* calls of start_ticket_request
    Posts,      \* POSTs of the ticket sidebar
    Webhooks,   \* deliveries of the Freshservice webhook
    JobRuns,    \* deliveries of rail.run jobs to workers
    Raised,     \* tickets raised by people
    TicketOf,   \* the ticket of each post and webhook
    RefOf,      \* the message or call each request refers to
    KeyOf,      \* the stable key of the event behind each request, or None
    BodyOf,     \* who asks for what in each request
    Onboarding, \* the requests that onboard somebody, where a help desk is live
    Echo,       \* TRUE: the help desk reports the tickets the engine places, too
    Mortal,     \* the callers that may die, or whose pass may raise
    None

Starters == Requests \cup Posts \cup JobRuns
Callers == Starters \cup Webhooks
Tickets == Raised \cup Requests
Refs == {RefOf[c] : c \in Requests}
EventKeys == {KeyOf[c] : c \in Requests} \ {None}
LockNames == Refs \cup EventKeys \cup Tickets

(* What the callers are, and who they refer to.                           *)
CallersAreGiven ==
    /\ DOMAIN RefOf = Requests /\ DOMAIN KeyOf = Requests /\ DOMAIN BodyOf = Requests
    /\ Refs \cap (EventKeys \cup Tickets) = {} /\ EventKeys \cap Tickets = {}
    /\ TicketOf \in [Posts \cup Webhooks -> Raised]
    /\ Requests \cap (Posts \cup Webhooks \cup JobRuns) = {} /\ Posts \cap JobRuns = {}
    /\ Requests \cap Raised = {}
    /\ Onboarding \subseteq Requests
    /\ Echo \in BOOLEAN /\ Mortal \subseteq Callers
    /\ None \notin Callers \cup LockNames

(* Deliveries of one event refer to the message it is about.              *)
KeysKeepRefs == \A c, d \in Requests : KeyOf[c] = KeyOf[d] /\ KeyOf[c] # None => RefOf[c] = RefOf[d]

VARIABLES
    run,      \* table runs: each run's source_ref and status
    event,    \* table webhook_dedupe: the run of each event key
    message,  \* table door_messages: what each run's row says of its ticket
    helped,   \* door_messages: what is said of an onboarding's tasks and procedure
    asked,    \* the runs whose approvers were sent to the ticket
    queued, jobDone,   \* tickets with a rail.run job; those whose job is done
    placed,   \* Freshservice: how many tickets each run was given
    lock,     \* advisory locks
    pc, at, answer   \* each caller's place, the run it works on, the ticket status it has

tableVars == <<run, event, message, helped, asked, queued, jobDone>>
callerVars == <<pc, at, answer>>
vars == <<tableVars, placed, lock, callerVars>>

NoRun == [ref |-> None, status |-> "none"]
TicketStatus == {"none", "attempted", "verified", "unverified", "unknown", "blocked"}
Outcomes == {"verified", "unverified", "blocked"}
Ended == {"returned", "conflict", "dead"}

TypeOK ==
    /\ run \in [Starters -> [ref : Refs \cup Tickets, status : {"running", "settled"}] \cup {NoRun}]
    /\ event \in [EventKeys -> Requests \cup {None}]
    /\ message \in [Requests -> TicketStatus]
    /\ helped \in [Requests -> [{"tasks", "procedure"} -> Outcomes \cup {"none"}]]
    /\ asked \subseteq Requests
    /\ queued \subseteq Tickets /\ jobDone \subseteq queued
    /\ placed \in [Requests -> Nat]
    /\ lock \in [LockNames -> Starters \cup {None}]
    /\ pc \in [Callers -> {"idle", "start", "run", "note", "attempt", "place", "readback",
                           "record", "tasks", "procedure"} \cup Ended]
    /\ at \in [Callers -> Starters \cup {None}]
    /\ answer \in [Callers -> TicketStatus]

Init ==
    /\ run = [c \in Starters |-> NoRun]
    /\ event = [k \in EventKeys |-> None]
    /\ message = [c \in Requests |-> "none"]
    /\ helped = [c \in Requests |-> [what \in {"tasks", "procedure"} |-> "none"]]
    /\ asked = {} /\ queued = {} /\ jobDone = {}
    /\ placed = [c \in Requests |-> 0]
    /\ lock = [n \in LockNames |-> None]
    /\ pc = [c \in Callers |-> "idle"]
    /\ at = [c \in Callers |-> None]
    /\ answer = [c \in Callers |-> "none"]

-----------------------------------------------------------------------------
Goto(c, label) == pc' = [pc EXCEPT ![c] = label]
WorkOn(c, r) == at' = [at EXCEPT ![c] = r]

Take(c, name) ==
    /\ lock[name] = None
    /\ lock' = [lock EXCEPT ![name] = c]

(* A mutant: the locks belong to the session.                              *)
KeptLocks(c) == lock

(* The locks of a transaction go with it, however it ends.                 *)
Released(c) == [n \in LockNames |-> IF lock[n] = c THEN None ELSE lock[n]]

(* A caller's process dies, or its pass or its help desk call raises.      *)
Die(c) ==
    /\ c \in Mortal /\ pc[c] \notin {"idle"} \cup Ended
    /\ Goto(c, "dead")
    /\ lock' = Released(c)
    /\ UNCHANGED <<tableVars, placed, at, answer>>

RunsOf(ref) == {r \in Starters : run[r].ref = ref}

-----------------------------------------------------------------------------
(* Tickets that come in                                                    *)

(* One transaction: the first delivery for a ticket enqueues its job.      *)
Webhook(c, t) ==
    /\ c \in Webhooks /\ pc[c] = "idle"
    /\ \/ t = TicketOf[c]
       \/ Echo /\ t \in Requests /\ placed[t] > 0
    /\ queued' = queued \cup {t}
    /\ Goto(c, "returned")
    /\ UNCHANGED <<run, event, message, helped, asked, jobDone, placed, lock, at, answer>>

(* POST /runs and the job both look for the ticket's run under its lock;   *)
(* the job reads the ticket if there is none, ...                          *)
FirstOfTicket(c, t) ==
    /\ Take(c, t)
    /\ RunsOf(t) = {}
    /\ Goto(c, "start")
    /\ UNCHANGED <<tableVars, at>>

(* A mutant: a pass that was broken off is taken up as a run of its own.   *)
StartAnew(c, t) ==
    /\ c \in JobRuns
    /\ Take(c, t)
    /\ \E r \in RunsOf(t) : run[r].status = "running"
    /\ Goto(c, "start")
    /\ UNCHANGED <<tableVars, at>>

(* ... and goes on with one whose pass was broken off; ...                 *)
ContinueOf(c, t) ==
    /\ c \in JobRuns
    /\ Take(c, t)
    /\ \E r \in RunsOf(t) : run[r].status = "running" /\ WorkOn(c, r)
    /\ Goto(c, "run")
    /\ UNCHANGED tableVars

(* ... anything else changes nothing, and the job is done.                 *)
DuplicateOf(c, t) ==
    /\ lock[t] = None
    /\ \E r \in RunsOf(t) : (c \in JobRuns => run[r].status # "running") /\ WorkOn(c, r)
    /\ jobDone' = IF c \in JobRuns THEN jobDone \cup {t} ELSE jobDone
    /\ Goto(c, "returned")
    /\ UNCHANGED <<run, event, message, helped, asked, queued, lock>>

OpenTicket(c, t) ==
    /\ pc[c] = "idle"
    /\ \/ c \in Posts /\ t = TicketOf[c]
       \/ c \in JobRuns /\ t \in queued \ jobDone
    /\ FirstOfTicket(c, t) \/ ContinueOf(c, t) \/ DuplicateOf(c, t)
    /\ UNCHANGED <<placed, answer>>

-----------------------------------------------------------------------------
(* Starting a run                                                          *)

(* Runner.start commits the run's row; it is named after its caller.       *)
Start(c) ==
    /\ pc[c] = "start"
    /\ \E ref \in LockNames :
        /\ IF c \in Requests THEN ref = RefOf[c] ELSE lock[ref] = c
        /\ run' = [run EXCEPT ![c] = [ref |-> ref, status |-> "running"]]
    /\ WorkOn(c, c)
    /\ Goto(c, "run")
    /\ UNCHANGED <<event, message, helped, asked, queued, jobDone, placed, lock, answer>>

(* Runner.run takes it as far as it goes; then the caller returns, ...     *)
Run(c) ==
    /\ pc[c] = "run"
    /\ run' = [run EXCEPT ![at[c]].status = "settled"]
    /\ \/ /\ c \in Requests
          /\ Goto(c, "note")
          /\ UNCHANGED <<lock, jobDone>>
       \/ /\ c \notin Requests
          /\ Goto(c, "returned")
          /\ lock' = Released(c)
          /\ jobDone' = IF c \in JobRuns THEN jobDone \cup {t \in Tickets : lock[t] = c} ELSE jobDone
    /\ UNCHANGED <<event, message, helped, asked, queued, placed, at, answer>>

-----------------------------------------------------------------------------
(* start_ticket_request                                                    *)

LockOf(c) == IF KeyOf[c] # None THEN KeyOf[c] ELSE RefOf[c]

(* The run of the event, or else of the message it came with.              *)
Found(c) ==
    IF KeyOf[c] # None /\ event[KeyOf[c]] # None
    THEN {event[KeyOf[c]]}
    ELSE RunsOf(RefOf[c])

(* A mutant: whose run it is, and for what, is not asked.                  *)
AnybodysRun(c, r) == TRUE

Belongs(c, r) == BodyOf[r] = BodyOf[c]

(* Under the lock of the event, or of the message if it has no key.        *)
OpenRequest(c) ==
    /\ c \in Requests /\ pc[c] = "idle"
    /\ \/ /\ Found(c) = {}
          /\ Take(c, LockOf(c))
          /\ Goto(c, "start")
          /\ UNCHANGED at
       \/ /\ \E r \in Found(c) : Belongs(c, r) /\ WorkOn(c, r)
          /\ Take(c, LockOf(c))
          /\ Goto(c, "note")
       \/ /\ \E r \in Found(c) : ~Belongs(c, r)
          /\ lock[LockOf(c)] = None
          /\ Goto(c, "conflict")
          /\ UNCHANGED <<lock, at>>
    /\ UNCHANGED <<tableVars, placed, answer>>

(* dedupe_webhook, and the end of the transaction.                         *)
Note(c) ==
    /\ pc[c] = "note"
    /\ event' = IF KeyOf[c] # None /\ event[KeyOf[c]] = None
                THEN [event EXCEPT ![KeyOf[c]] = at[c]] ELSE event
    /\ lock' = Released(c)
    /\ Goto(c, "attempt")
    /\ UNCHANGED <<run, message, helped, asked, queued, jobDone, placed, at, answer>>

(* A mutant: the attempt is not committed before the POST.                 *)
AttemptInMemory(c) ==
    /\ pc[c] = "attempt"
    /\ IF message[at[c]] = "none" THEN Goto(c, "place") /\ UNCHANGED answer
       ELSE Goto(c, "returned") /\ answer' = [answer EXCEPT ![c] = message[at[c]]]
    /\ UNCHANGED <<tableVars, placed, lock, at>>

(* Whoever comes second is told what the first one knows of the ticket;    *)
(* the first one writes down that it will try, and then tries.             *)
Attempt(c) ==
    /\ pc[c] = "attempt"
    /\ \/ /\ message[at[c]] # "none"
          /\ answer' = [answer EXCEPT ![c] = message[at[c]]]
          /\ Goto(c, "returned")
          /\ UNCHANGED message
       \/ /\ message[at[c]] = "none"
          /\ message' = [message EXCEPT ![at[c]] = "attempted"]
          /\ Goto(c, "place")
          /\ UNCHANGED answer
    /\ UNCHANGED <<run, event, helped, asked, queued, jobDone, placed, lock, at>>

(* The POST: placed and answered; placed, the answer lost or unreadable;   *)
(* acknowledged and not placed; not placed at all.  The catalog item       *)
(* refusing with 403 and the incident POST coming next end in the same.    *)
PlaceOutcomes ==
    {[places |-> 1, says |-> "answered"], [places |-> 0, says |-> "answered"],
     [places |-> 1, says |-> "unknown"],  [places |-> 0, says |-> "unknown"],
     [places |-> 1, says |-> "blocked"],  [places |-> 0, says |-> "blocked"]}

Place(c) ==
    /\ pc[c] = "place"
    /\ \E out \in PlaceOutcomes :
        /\ placed' = [placed EXCEPT ![at[c]] = @ + out.places]
        /\ \/ /\ out.says = "answered"
              /\ Goto(c, "readback")
              /\ UNCHANGED answer
           \/ /\ out.says # "answered"
              /\ Goto(c, "record")
              /\ answer' = [answer EXCEPT ![c] = out.says]
    /\ UNCHANGED <<tableVars, lock, at>>

(* Read back, the ticket must be there and be the one asked for; what is   *)
(* read may make no sense.                                                 *)
ReadbackOutcomes(c) == {"unverified", "blocked"} \cup (IF placed[at[c]] > 0 THEN {"verified"} ELSE {})

Readback(c) ==
    /\ pc[c] = "readback"
    /\ \E st \in ReadbackOutcomes(c) : answer' = [answer EXCEPT ![c] = st]
    /\ Goto(c, "record")
    /\ UNCHANGED <<tableVars, placed, lock, at>>

(* One transaction: the row, and the approval jobs of a verified ticket.   *)
Record(c) ==
    /\ pc[c] = "record"
    /\ message' = [message EXCEPT ![at[c]] = answer[c]]
    /\ asked' = IF answer[c] = "verified" THEN asked \cup {at[c]} ELSE asked
    /\ Goto(c, IF answer[c] = "verified" /\ at[c] \in Onboarding THEN "tasks" ELSE "returned")
    /\ UNCHANGED <<run, event, helped, queued, jobDone, placed, lock, at, answer>>

(* The ticket of an onboarding gets its tasks (module Helpdesk) and, if an *)
(* article is named in the settings, a note with the procedure; each is    *)
(* done once and put into a row, come what may.                            *)
Help(c, what, outcome, next) ==
    /\ helped' = [helped EXCEPT ![at[c]][what] = outcome]
    /\ Goto(c, next)
    /\ UNCHANGED <<run, event, message, asked, queued, jobDone, placed, lock, at, answer>>

Tasks(c) ==
    /\ pc[c] = "tasks"
    /\ \E outcome \in {"verified", "blocked"}, next \in {"procedure", "returned"} :
          Help(c, "tasks", outcome, next)

Procedure(c) ==
    /\ pc[c] = "procedure"
    /\ \E outcome \in Outcomes : Help(c, "procedure", outcome, "returned")

-----------------------------------------------------------------------------
Step(c) ==
    \/ Start(c) \/ Run(c)
    \/ Note(c) \/ Attempt(c) \/ Place(c) \/ Readback(c) \/ Record(c)
    \/ Tasks(c) \/ Procedure(c)

Enter(c) ==
    \/ \E t \in Tickets : Webhook(c, t) \/ OpenTicket(c, t)
    \/ OpenRequest(c)

Next == \E c \in Callers : Step(c) \/ Enter(c) \/ Die(c)

Spec == Init /\ [][Next]_vars

-----------------------------------------------------------------------------
(* The runs whose matter is a ticket: started from it, or given it.        *)
Matter(t) == RunsOf(t) \cup (IF t \in Requests /\ placed[t] > 0 THEN {t} ELSE {})

(* One ticket, one run, whichever path, process or worker gets there first.*)
OneRunPerTicket == \A t \in Tickets : Cardinality(Matter(t)) <= 1

(* One event behind several calls, one run: for calls that carry the same  *)
(* key, or have none and refer to the same message.                        *)
SameEvent(c, d) == LockOf(c) = LockOf(d)

OneRunPerEvent ==
    \A c, d \in Requests :
        SameEvent(c, d) /\ run[c] # NoRun /\ run[d] # NoRun => c = d

(* At most one ticket is placed for a run, whatever dies or is lost.       *)
OneTicketPerRun == \A c \in Requests : placed[c] <= 1

(* Whatever is delivered again, there is one run and one ticket for it.    *)
OneOfEach == OneRunPerTicket /\ OneRunPerEvent /\ OneTicketPerRun

(* Nobody is handed a run, or the ticket of a run, that is somebody        *)
(* else's: a reference that is used again for another request conflicts.   *)
NobodyElses ==
    \A c \in Requests : at[c] # None => BodyOf[at[c]] = BodyOf[c]

(* Approvers are sent to a ticket only if it is there, and the row that    *)
(* the door shows says so: "answered" is not "verified".  Nothing else is  *)
(* put on a ticket that was not read back.                                 *)
AskedAtARealTicket ==
    /\ \A r \in asked : message[r] = "verified"
    /\ \A r \in Requests : message[r] = "verified" => placed[r] > 0
    /\ \A r \in Requests : helped[r].tasks # "none" => message[r] = "verified" /\ r \in Onboarding

(* A request deals with its own run and with a ticket that exists.         *)
RequestsStayApart == NobodyElses /\ AskedAtARealTicket

(* What a row says of a ticket is final: a late answer does not undo it.   *)
OutcomeStands ==
    [][\A r \in Requests :
        message[r] \notin {"none", "attempted"} => message'[r] = message[r]]_vars

(* A ticket whose webhook was accepted gets a run that is taken to an      *)
(* outcome, though the worker that began it, or a POST, may die.           *)
AcceptedTicketIsRun ==
    \A t \in Raised : (t \in queued) ~> (\E r \in RunsOf(t) : run[r].status = "settled")
=============================================================================
