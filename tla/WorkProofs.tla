----------------------------- MODULE WorkProofs -----------------------------
(***************************************************************************)
(* Proofs about Work: how a run comes in, whom it is about, what its case  *)
(* rests on, and that its rows are one chain and its passes do not wait    *)
(* for each other for ever; for any callers, texts, people, pages,         *)
(* messages, sessions and connections.                                     *)
(*                                                                         *)
(* The components share no variable, so a behaviour of all of them is one  *)
(* of each (EachKeepsToItself), and what is proved of a component from its *)
(* own inductive invariant holds of Work.  One section for each component: *)
(* its invariant, a lemma for every action, and what it comes to.          *)
(***************************************************************************)
EXTENDS Work, ExecuteProofs, WellFoundedInduction

(* Each component takes its own steps or none.                             *)
LEMMA StepsAreTheirs ==
  /\ WorkInit => Init /\ I!Init /\ D!Init /\ C!Init /\ B!Init
  /\ [WorkNext]_workVars =>
        [Next]_vars /\ [I!Next]_(I!vars) /\ [D!Next]_(D!vars) /\ [C!Next]_(C!vars) /\ [B!Next]_(B!vars)
<1>1. WorkInit => Init /\ I!Init /\ D!Init /\ C!Init /\ B!Init
  BY DEF WorkInit
<1>2. [WorkNext]_workVars => [Next]_vars /\ [I!Next]_iVars /\ [D!Next]_dVars /\ [C!Next]_cVars /\ [B!Next]_bVars
  BY DEF WorkNext, workVars, Executing, Taking, Finding, Compiling, Connecting
<1>3. /\ UNCHANGED iVars => UNCHANGED I!vars
      /\ UNCHANGED dVars => UNCHANGED D!vars
      /\ UNCHANGED cVars => UNCHANGED C!vars
      /\ UNCHANGED bVars => UNCHANGED B!vars
  BY DEF I!vars, I!tableVars, I!callerVars, D!vars, C!vars, B!vars, iVars, dVars, cVars, bVars
<1> QED BY <1>1, <1>2, <1>3

(* A behaviour of all of them is a behaviour of each.                      *)
LEMMA EachKeepsToItself == WorkSpec => Spec /\ I!Spec /\ D!Spec /\ C!Spec /\ B!Spec
  BY StepsAreTheirs, PTL DEF WorkSpec, Spec, I!Spec, D!Spec, C!Spec, B!Spec

-----------------------------------------------------------------------------
(* Execute: the types of its variables, in one process or in several.      *)

(* A store writes a document, and books the change it made.                *)
LEMMA StoreIsTyped == ASSUME TypeOK, NEW x \in Executors, Store(x) PROVE TypeOK'
<1>1. KeyOf[x] \in Keys /\ ChangeOf[x] \in Changes /\ copy[x] \in Doc
  BY ExecuteAssumption DEF TypeOK
<1>2. copy' = copy /\ (doc' = copy[x] \/ doc' = Recorded(x) \/ doc' = Applied(x))
      /\ (applier' = applier \/ applier' = [applier EXCEPT ![KeyOf[x]] = @ \cup {x}])
  BY DEF Store
<1>3. doc' \in Doc /\ applier' \in [Keys -> SUBSET Executors]
  <2>1. Recorded(x) \in Doc /\ Applied(x) \in Doc
    BY <1>1 DEF Recorded, Applied, Doc
  <2>2. applier \in [Keys -> SUBSET Executors]
    BY DEF TypeOK
  <2> QED BY <1>1, <1>2, <2>1, <2>2
<1>4. \/ \E st \in {"executed", "failed", "unknown"} : RetryOr(x, st) \/ ReturnWith(x, st)
      \/ Goto(x, "reconcile") /\ UNCHANGED <<attempt, result>>
  BY DEF Store
<1>5. CASE Goto(x, "reconcile") /\ UNCHANGED <<attempt, result>>
  BY <1>2, <1>3, <1>5 DEF TypeOK, Goto
<1>6. CASE \E st \in {"executed", "failed", "unknown"} : RetryOr(x, st) \/ ReturnWith(x, st)
  BY <1>2, <1>3, <1>6, EndsAttempt DEF TypeOK
<1> QED BY <1>4, <1>5, <1>6

(* The types of Execute in every behaviour.                                *)
LEMMA ExecutionIsTyped == Spec => []TypeOK
<1>1. Init => TypeOK
  BY InitInv DEF IInv
<1>2. ASSUME TypeOK, NEW x \in Executors, Load(x) PROVE TypeOK'
  BY <1>2 DEF Load, Goto, TypeOK
<1>3. ASSUME TypeOK, NEW x \in Executors, Reject(x) \/ Reconcile(x) \/ Cancel(x) PROVE TypeOK'
  <2>1. UNCHANGED <<doc, copy, applier>>
    BY <1>3 DEF Reject, Reconcile, Cancel
  <2>2. \/ \E st \in {"executed", "failed", "unknown"} : RetryOr(x, st) \/ ReturnWith(x, st)
        \/ Goto(x, "cancelled") /\ UNCHANGED <<attempt, result>>
    BY <1>3 DEF Reject, Reconcile, Cancel
  <2>3. CASE Goto(x, "cancelled") /\ UNCHANGED <<attempt, result>>
    BY <1>3, <2>1, <2>3 DEF TypeOK, Goto
  <2>4. CASE \E st \in {"executed", "failed", "unknown"} : RetryOr(x, st) \/ ReturnWith(x, st)
    BY <1>3, <2>1, <2>4, EndsAttempt DEF TypeOK
  <2> QED BY <2>2, <2>3, <2>4
<1>4. TypeOK /\ [Next]_vars => TypeOK'
  <2>1. TypeOK /\ UNCHANGED vars => TypeOK'
    BY DEF vars, TypeOK
  <2> QED BY <1>2, <1>3, <2>1, StoreIsTyped DEF Next, Step
<1> QED BY <1>1, <1>4, PTL DEF Spec

-----------------------------------------------------------------------------
(* Intake: one run and one ticket for a request.  A lock goes with its     *)
(* caller and a run with the reference under whose lock it was started,    *)
(* and the row of a request says how far its ticket has come, at each of   *)
(* its caller's places.                                                    *)

(* The module counts as FiniteSets does.                                   *)
LEMMA IntakeCounts == \A U : I!Cardinality(U) = Cardinality(U)
  BY DEF I!Cardinality, Cardinality

Placing == {"place", "readback", "record"}
Helping == {"tasks", "procedure"}
OfRequests == {"note", "attempt"} \cup Placing \cup Helping

(* The tickets that may come to get a run of their own.                    *)
Heard == IF Echo THEN I!Tickets ELSE Raised

(* A lock is held by a caller that is starting or running a run, or noting *)
(* it; a post and a job hold that of a ticket they heard of.               *)
LocksFit ==
    \A n \in I!LockNames : lock[n] # None =>
        /\ place[lock[n]] \in {"start", "run", "note"}
        /\ IF lock[n] \in Requests THEN n = I!LockOf(lock[n]) ELSE n \in Heard
        /\ lock[n] \in JobRuns => n \in queued

(* A run refers to what its starter refers to, and there is none yet of a  *)
(* ticket where one is about to be started.                                *)
RunsFit ==
    /\ \A r \in I!Starters : run[r] # I!NoRun =>
          IF r \in Requests THEN run[r].ref = RefOf[r] ELSE run[r].ref \in Heard
    /\ \A c \in I!Starters : place[c] \in {"idle", "start"} => run[c] = I!NoRun
    /\ \A t \in Heard : /\ \A r, s \in I!RunsOf(t) : r = s
                        /\ lock[t] # None /\ place[lock[t]] = "start" => I!RunsOf(t) = {}

(* Whose run a caller works on.                                            *)
CallerFits(c) ==
    /\ place[c] = "run" => at[c] \in I!Starters /\ run[at[c]] # I!NoRun
    /\ place[c] \in OfRequests => c \in Requests
    /\ c \in Requests /\ at[c] # None => at[c] \in Requests /\ BodyOf[at[c]] = BodyOf[c]
    /\ place[c] \in OfRequests => at[c] # None

(* What is known of the ticket of a run, and how many were placed for it.  *)
TicketFits(r) ==
    /\ placed[r] <= 1
    /\ message[r] = "none" => placed[r] = 0
    /\ message[r] = "verified" => placed[r] > 0
    /\ r \in asked => message[r] = "verified"
    /\ helped[r].tasks # "none" => message[r] = "verified" /\ r \in Onboarding

PlacerFits(c) ==
    /\ place[c] \in Placing =>
          /\ message[at[c]] = "attempted"
          /\ place[c] = "place" => placed[at[c]] = 0
          /\ place[c] = "record" /\ answer[c] = "verified" => placed[at[c]] > 0
          /\ place[c] = "record" => answer[c] \in {"verified", "unverified", "unknown", "blocked"}
    /\ place[c] \in Helping => message[at[c]] = "verified" /\ at[c] \in Onboarding

OnePlaces == \A c, d \in I!Callers : place[c] \in Placing /\ place[d] \in Placing /\ at[c] = at[d] => c = d

IntakeInv ==
    /\ I!TypeOK /\ queued \subseteq Heard
    /\ LocksFit /\ RunsFit
    /\ \A c \in I!Callers : CallerFits(c) /\ PlacerFits(c)
    /\ \A r \in Requests : TicketFits(r)
    /\ OnePlaces

(* Names are what they are of, and nothing else.                           *)
LEMMA NamesDiffer ==
  ASSUME I!CallersAreGiven
  PROVE  /\ \A c \in Requests : I!LockOf(c) \in I!LockNames /\ I!LockOf(c) \notin I!Tickets
         /\ \A c \in Requests : RefOf[c] \in I!Refs /\ RefOf[c] \in I!LockNames /\ RefOf[c] # None /\ RefOf[c] \notin I!Tickets
         /\ \A c \in Requests : EventOf[c] # None => EventOf[c] \in I!EventKeys
         /\ Requests \subseteq I!Starters /\ Requests \subseteq I!Callers
         /\ Requests \cap (Posts \cup Webhooks \cup JobRuns) = {}
         /\ \A c \in Posts \cup Webhooks : TicketOf[c] \in Raised
         /\ Heard \subseteq I!Tickets /\ Raised \subseteq Heard /\ I!Tickets \subseteq I!LockNames /\ None \notin I!Tickets
         /\ None \notin I!Starters /\ None \notin I!Callers /\ None \notin I!LockNames /\ I!Starters \subseteq I!Callers
         /\ Raised \cap Requests = {} /\ (~Echo => Requests \cap Heard = {})
  BY DEF I!CallersAreGiven, I!Refs, I!EventKeys, I!Tickets, I!LockNames, I!LockOf, I!Starters, I!Callers, Heard

(* Two requests behind one event have one lock, and one reference.         *)
LEMMA OneLockOneRef ==
  ASSUME I!CallersAreGiven, I!KeysKeepRefs, NEW c \in Requests, NEW d \in Requests, I!LockOf(c) = I!LockOf(d)
  PROVE  RefOf[c] = RefOf[d]
<1>1. RefOf[c] \in I!Refs /\ RefOf[d] \in I!Refs
  BY DEF I!Refs
<1>2. EventOf[c] # None => EventOf[c] \in I!EventKeys
  BY DEF I!EventKeys
<1>3. EventOf[d] # None => EventOf[d] \in I!EventKeys
  BY DEF I!EventKeys
<1>4. I!Refs \cap I!EventKeys = {}
  BY DEF I!CallersAreGiven
<1> QED BY <1>1, <1>2, <1>3, <1>4 DEF I!LockOf, I!KeysKeepRefs

(* Nothing has begun.                                                      *)
LEMMA IntakeStarts == I!CallersAreGiven /\ I!Init => IntakeInv
<1> SUFFICES ASSUME I!CallersAreGiven, I!Init PROVE IntakeInv
  OBVIOUS
<1>1. I!TypeOK
  BY DEF I!Init, I!TypeOK, I!NoRun, I!TicketStatus, I!Outcomes, I!Ended
<1>2. LocksFit /\ RunsFit
  <2>1. \A t \in Heard : I!RunsOf(t) = {}
    BY NamesDiffer DEF I!Init, I!RunsOf, I!NoRun
  <2>2. LocksFit
    BY DEF I!Init, LocksFit
  <2>3. \A r \in I!Starters : run[r] = I!NoRun
    BY DEF I!Init
  <2>4. \A t \in Heard : lock[t] = None
    BY NamesDiffer DEF I!Init
  <2> QED BY <2>1, <2>2, <2>3, <2>4 DEF RunsFit
<1>3. \A c \in I!Callers : CallerFits(c) /\ PlacerFits(c)
  BY NamesDiffer DEF I!Init, CallerFits, PlacerFits, OfRequests, Placing, Helping
<1>4. \A r \in Requests : TicketFits(r)
  BY DEF I!Init, TicketFits
<1>5. OnePlaces
  BY DEF I!Init, OnePlaces, Placing
<1>6. queued \subseteq Heard
  BY DEF I!Init
<1> QED BY <1>1, <1>2, <1>3, <1>4, <1>5, <1>6 DEF IntakeInv

(* Where no run begins, and no lock is left to a caller that has gone on   *)
(* without one, locks and runs stay as they were.                          *)
LEMMA RunsStay ==
  ASSUME I!CallersAreGiven, IntakeInv, NEW c \in I!Callers, NEW label,
         place' = [place EXCEPT ![c] = label], label \notin {"idle", "start"},
         \A r \in I!Starters : run'[r].ref = run[r].ref /\ (run'[r] = I!NoRun <=> run[r] = I!NoRun),
         queued \subseteq queued',
         \/ lock' = I!Released(c)
         \/ lock' = lock /\ (label \in {"run", "note"} \/ place[c] \notin {"start", "run", "note"})
  PROVE  LocksFit' /\ RunsFit'
<1>1. /\ place'[c] = label /\ \A d \in I!Callers : d # c => place'[d] = place[d]
  BY DEF IntakeInv, I!TypeOK, I!Ended
<1>2. \A n \in I!LockNames : /\ lock'[n] # None => lock'[n] = lock[n]
                             /\ lock'[n] = c => label \in {"run", "note"} \/ place[c] \notin {"start", "run", "note"}
                             /\ lock[n] # c => lock'[n] = lock[n]
                             /\ lock[n] \in I!Starters \cup {None}
  BY NamesDiffer DEF IntakeInv, I!TypeOK, I!Released
<1>3. \A n \in I!LockNames : lock'[n] # None => lock'[n] \in I!Callers
  BY <1>2, NamesDiffer
<1>4. LocksFit'
  <2> SUFFICES ASSUME NEW n \in I!LockNames, lock'[n] # None
               PROVE  /\ place'[lock'[n]] \in {"start", "run", "note"}
                      /\ IF lock'[n] \in Requests THEN n = I!LockOf(lock'[n]) ELSE n \in Heard
                      /\ lock'[n] \in JobRuns => n \in queued'
    BY DEF LocksFit
  <2>1. lock'[n] = lock[n] /\ lock'[n] \in I!Callers
    BY <1>2, <1>3
  <2>2. /\ place[lock[n]] \in {"start", "run", "note"}
        /\ IF lock[n] \in Requests THEN n = I!LockOf(lock[n]) ELSE n \in Heard
        /\ lock[n] \in JobRuns => n \in queued
    BY <2>1 DEF IntakeInv, LocksFit
  <2>3. place'[lock'[n]] \in {"start", "run", "note"}
    BY <1>1, <1>2, <2>1, <2>2
  <2> QED BY <2>1, <2>2, <2>3
<1>5. \A t : I!RunsOf(t)' = I!RunsOf(t)
  BY DEF I!RunsOf
<1>6. RunsFit'
  <2>1. \A r \in I!Starters : run'[r] # I!NoRun =>
          IF r \in Requests THEN run'[r].ref = RefOf[r] ELSE run'[r].ref \in Heard
    BY DEF IntakeInv, RunsFit
  <2>2. \A d \in I!Starters : place'[d] \in {"idle", "start"} => run'[d] = I!NoRun
    BY <1>1, NamesDiffer DEF IntakeInv, RunsFit
  <2>3. ASSUME NEW t \in Heard
        PROVE  /\ \A r, s \in I!RunsOf(t)' : r = s
               /\ lock'[t] # None /\ place'[lock'[t]] = "start" => I!RunsOf(t)' = {}
    <3>1. t \in I!LockNames
      BY NamesDiffer
    <3>2. \A r, s \in I!RunsOf(t)' : r = s
      BY <1>5 DEF IntakeInv, RunsFit
    <3>3. ASSUME lock'[t] # None, place'[lock'[t]] = "start" PROVE I!RunsOf(t)' = {}
      <4>1. lock'[t] = lock[t] /\ lock[t] \in I!Callers /\ lock[t] # c
        BY <1>1, <1>2, <1>3, <3>1, <3>3
      <4> QED BY <1>1, <1>5, <3>3, <4>1 DEF IntakeInv, RunsFit
    <3> QED BY <3>2, <3>3
  <2> QED BY <2>1, <2>2, <2>3 DEF RunsFit
<1> QED BY <1>4, <1>6
(* What holds of a caller holds as long as the rows it looks at do.        *)
LEMMA OthersFit ==
  ASSUME I!CallersAreGiven, IntakeInv, NEW c \in I!Callers, NEW label, NEW r, NEW says,
         place' = [place EXCEPT ![c] = label], at' = [at EXCEPT ![c] = r], answer' = [answer EXCEPT ![c] = says],
         \A s \in I!Starters : run[s] # I!NoRun => run'[s] # I!NoRun,
         NEW d \in I!Callers, d # c,
         place[d] \in Placing => message'[at[d]] = message[at[d]] /\ placed'[at[d]] = placed[at[d]],
         place[d] \in Helping => message'[at[d]] = message[at[d]]
  PROVE  CallerFits(d)' /\ PlacerFits(d)'
<1>1. place'[d] = place[d] /\ at'[d] = at[d] /\ answer'[d] = answer[d]
  BY DEF IntakeInv, I!TypeOK
<1>2. CallerFits(d) /\ PlacerFits(d)
  BY DEF IntakeInv
<1>3. CallerFits(d)'
  BY <1>1, <1>2 DEF CallerFits
<1>4. PlacerFits(d)'
  BY <1>1, <1>2 DEF PlacerFits
<1> QED BY <1>3, <1>4

(* Who does not begin to place a ticket leaves one caller placing it.      *)
LEMMA StillOnePlaces ==
  ASSUME IntakeInv, NEW c \in I!Callers, NEW label, NEW r,
         place' = [place EXCEPT ![c] = label], at' = [at EXCEPT ![c] = r],
         label \notin Placing \/ (place[c] \in Placing /\ r = at[c])
  PROVE  OnePlaces'
  BY DEF IntakeInv, OnePlaces, I!TypeOK

(* What is known of a ticket holds while its row stands.                   *)
LEMMA TicketsStay ==
  ASSUME IntakeInv, UNCHANGED <<message, placed, asked, helped>>
  PROVE  \A r \in Requests : TicketFits(r)'
  BY DEF IntakeInv, TicketFits

(* A webhook adds to the tickets that were heard of.                       *)
LEMMA WebhookKeeps ==
  ASSUME I!CallersAreGiven, IntakeInv, NEW c \in I!Callers, NEW t \in I!Tickets, I!Webhook(c, t)
  PROVE  IntakeInv'
<1>1. /\ c \in Webhooks /\ place[c] = "idle" /\ t \in Heard /\ queued' = queued \cup {t}
      /\ place' = [place EXCEPT ![c] = "returned"]
      /\ UNCHANGED <<run, event, message, helped, asked, jobDone, placed, lock, at, answer>>
  BY NamesDiffer DEF I!Webhook, I!Goto, Heard
<1>2. at' = [at EXCEPT ![c] = at[c]] /\ answer' = [answer EXCEPT ![c] = answer[c]]
  BY <1>1 DEF IntakeInv, I!TypeOK
<1>3. I!TypeOK' /\ queued' \subseteq Heard
  BY <1>1, NamesDiffer DEF IntakeInv, I!TypeOK, I!Ended
<1>4. LocksFit' /\ RunsFit'
  <2>1. queued \subseteq queued' /\ lock' = lock /\ place[c] \notin {"start", "run", "note"}
    BY <1>1
  <2>2. \A r \in I!Starters : run'[r].ref = run[r].ref /\ (run'[r] = I!NoRun <=> run[r] = I!NoRun)
    BY <1>1
  <2>3. PICK label : label = "returned" /\ place' = [place EXCEPT ![c] = label]
    BY <1>1
  <2>4. label \notin {"idle", "start"}
    BY <2>3
  <2>5. \/ lock' = I!Released(c)
        \/ lock' = lock /\ (label \in {"run", "note"} \/ place[c] \notin {"start", "run", "note"})
    BY <2>1
  <2>6. place' = [place EXCEPT ![c] = label]
    BY <2>3
  <2>7. queued \subseteq queued'
    BY <2>1
  <2> QED BY <2>2, <2>4, <2>5, <2>6, <2>7, RunsStay
<1>5. CallerFits(c)' /\ PlacerFits(c)'
  BY <1>1 DEF IntakeInv, I!TypeOK, CallerFits, PlacerFits, OfRequests, Placing, Helping
<1>6. \A d \in I!Callers : CallerFits(d)' /\ PlacerFits(d)'
  BY <1>1, <1>2, <1>5, OthersFit
<1>7. OnePlaces'
  BY <1>1, <1>2, StillOnePlaces DEF Placing
<1> QED BY <1>1, <1>3, <1>4, <1>6, <1>7, TicketsStay DEF IntakeInv

(* A post or a job begins a run only for a ticket that has none, and goes  *)
(* on with one that is there.                                              *)
LEMMA OpenTicketKeeps ==
  ASSUME I!CallersAreGiven, IntakeInv, NEW c \in I!Callers, NEW t \in I!Tickets, I!OpenTicket(c, t)
  PROVE  IntakeInv'
<1>1. /\ c \in Posts \cup JobRuns /\ place[c] = "idle" /\ t \in Heard /\ (c \in JobRuns => t \in queued)
      /\ c \in I!Starters /\ c \notin Requests /\ t \in I!LockNames /\ t # None
  <2>1. (c \in Posts /\ t = TicketOf[c]) \/ (c \in JobRuns /\ t \in queued)
    BY DEF I!OpenTicket
  <2>2. t \in Heard
    BY <2>1, NamesDiffer DEF IntakeInv
  <2>3. c \in I!Starters /\ c \notin Requests
    BY <2>1, NamesDiffer DEF I!Starters
  <2>4. t \in I!LockNames /\ t # None
    BY NamesDiffer
  <2>5. place[c] = "idle"
    BY DEF I!OpenTicket
  <2>6. c \in JobRuns => t \in queued
    BY DEF I!OpenTicket, I!CallersAreGiven
  <2> QED BY <2>1, <2>2, <2>3, <2>4, <2>5, <2>6
<1>2. \A r \in I!RunsOf(t) : r \in I!Starters /\ run[r] # I!NoRun
  BY <1>1 DEF I!RunsOf, I!NoRun
<1>3. UNCHANGED <<run, event, message, helped, asked, queued, placed, answer>>
  BY DEF I!OpenTicket, I!FirstOfTicket, I!ContinueOf, I!DuplicateOf, I!tableVars
<1>4. PICK label \in {"start", "run", "returned"}, r \in I!Starters \cup {None} :
         /\ place' = [place EXCEPT ![c] = label] /\ at' = [at EXCEPT ![c] = r]
         /\ label = "run" => r \in I!RunsOf(t)
         /\ IF label = "returned" THEN lock' = lock ELSE lock[t] = None /\ lock' = [lock EXCEPT ![t] = c]
         /\ label = "start" => I!RunsOf(t) = {}
         /\ jobDone' \in {jobDone, jobDone \cup {t}} /\ (jobDone' # jobDone => t \in queued)
  <2>1. CASE I!FirstOfTicket(c, t)
    <3>1. at' = [at EXCEPT ![c] = at[c]] /\ at[c] \in I!Starters \cup {None}
      BY <2>1 DEF I!FirstOfTicket, IntakeInv, I!TypeOK
    <3> QED BY <2>1, <3>1 DEF I!FirstOfTicket, I!Goto, I!Take, I!tableVars
  <2>2. CASE I!ContinueOf(c, t)
    BY <1>2, <2>2 DEF I!ContinueOf, I!Goto, I!Take, I!WorkOn, I!tableVars
  <2>3. CASE I!DuplicateOf(c, t)
    BY <1>1, <1>2, <2>3 DEF I!DuplicateOf, I!Goto, I!WorkOn
  <2> QED BY <2>1, <2>2, <2>3 DEF I!OpenTicket
<1>5. answer' = [answer EXCEPT ![c] = answer[c]]
  BY <1>3 DEF IntakeInv, I!TypeOK
<1>6. I!TypeOK' /\ queued' \subseteq Heard
  BY <1>1, <1>3, <1>4, NamesDiffer DEF IntakeInv, I!TypeOK, I!Ended
<1>7. \A n \in I!LockNames : lock[n] # c
  BY <1>1, NamesDiffer DEF IntakeInv, LocksFit
<1>8. LocksFit' /\ RunsFit'
  <2>1. CASE label = "returned"
    BY <1>1, <1>3, <1>4, <2>1, RunsStay
  <2>2. CASE label # "returned"
    <3>1. /\ lock'[t] = c /\ \A n \in I!LockNames : n # t => lock'[n] = lock[n] /\ lock[n] \in I!Starters \cup {None}
      BY <1>1, <1>4, <2>2 DEF IntakeInv, I!TypeOK
    <3>2. place'[c] = label /\ \A d \in I!Callers : d # c => place'[d] = place[d]
      BY <1>4 DEF IntakeInv, I!TypeOK
    <3>3. LocksFit'
      BY <1>1, <1>3, <1>4, <1>7, <2>2, <3>1, <3>2, NamesDiffer DEF IntakeInv, LocksFit
    <3>4. \A s \in I!Starters : place'[s] \in {"idle", "start"} => run'[s] = I!NoRun
      BY <1>1, <1>3, <3>2, NamesDiffer DEF IntakeInv, RunsFit
    <3>5. ASSUME NEW u \in Heard
          PROVE  /\ \A r1, r2 \in I!RunsOf(u)' : r1 = r2
                 /\ lock'[u] # None /\ place'[lock'[u]] = "start" => I!RunsOf(u)' = {}
      <4>1. I!RunsOf(u)' = I!RunsOf(u) /\ u \in I!LockNames
        BY <1>3, NamesDiffer DEF I!RunsOf
      <4>2. CASE u = t
        BY <1>4, <3>1, <3>2, <4>1, <4>2 DEF IntakeInv, RunsFit
      <4>3. CASE u # t
        <5>1. lock'[u] = lock[u] /\ lock[u] # c /\ (lock[u] # None => lock[u] \in I!Callers)
          BY <1>7, <3>1, <4>1, <4>3, NamesDiffer
        <5> QED BY <3>2, <4>1, <5>1 DEF IntakeInv, RunsFit
      <4> QED BY <4>2, <4>3
    <3>6. \A s \in I!Starters : run'[s] # I!NoRun =>
              IF s \in Requests THEN run'[s].ref = RefOf[s] ELSE run'[s].ref \in Heard
      BY <1>3 DEF IntakeInv, RunsFit
    <3> QED BY <3>3, <3>4, <3>5, <3>6 DEF RunsFit
  <2> QED BY <2>1, <2>2
<1>9. CallerFits(c)' /\ PlacerFits(c)'
  BY <1>1, <1>2, <1>3, <1>4 DEF IntakeInv, I!TypeOK, CallerFits, PlacerFits, OfRequests, Placing, Helping
<1>10. \A d \in I!Callers : CallerFits(d)' /\ PlacerFits(d)'
  BY <1>3, <1>4, <1>5, <1>9, OthersFit
<1>11. OnePlaces'
  BY <1>4, StillOnePlaces DEF Placing
<1> QED BY <1>3, <1>6, <1>8, <1>10, <1>11, TicketsStay DEF IntakeInv
(* A request takes up the run of its event or message, if it is for the    *)
(* same thing, and begins one only where there is none.                    *)
LEMMA OpenRequestKeeps ==
  ASSUME I!CallersAreGiven, IntakeInv, NEW c \in I!Callers, I!OpenRequest(c)
  PROVE  IntakeInv'
<1>1. /\ c \in Requests /\ place[c] = "idle" /\ c \in I!Starters /\ c \notin JobRuns
      /\ I!LockOf(c) \in I!LockNames /\ I!LockOf(c) \notin I!Tickets
  BY NamesDiffer DEF I!OpenRequest
<1>2. UNCHANGED <<run, event, message, helped, asked, queued, jobDone, placed, answer>>
  BY DEF I!OpenRequest, I!tableVars
<1>3. \A r \in I!Found(c) : r \in Requests /\ r \in I!Starters
  <2> SUFFICES ASSUME NEW r \in I!Found(c) PROVE r \in Requests
    BY NamesDiffer
  <2>1. CASE EventOf[c] # None /\ event[EventOf[c]] # None
    <3>1. EventOf[c] \in I!EventKeys
      BY <1>1, <2>1, NamesDiffer
    <3> QED BY <2>1, <3>1 DEF I!Found, IntakeInv, I!TypeOK
  <2>2. CASE ~(EventOf[c] # None /\ event[EventOf[c]] # None)
    <3>1. r \in I!Starters /\ run[r].ref = RefOf[c]
      BY <2>2 DEF I!Found, I!RunsOf
    <3>2. RefOf[c] # None /\ RefOf[c] \notin I!Tickets
      BY <1>1, NamesDiffer
    <3>3. run[r] # I!NoRun
      BY <3>1, <3>2 DEF I!NoRun
    <3> QED BY <3>1, <3>2, <3>3, NamesDiffer DEF IntakeInv, RunsFit
  <2> QED BY <2>1, <2>2
<1>4. PICK label \in {"start", "note", "conflict"}, r \in I!Starters \cup {None} :
         /\ place' = [place EXCEPT ![c] = label] /\ at' = [at EXCEPT ![c] = r]
         /\ label = "note" => r \in I!Found(c) /\ BodyOf[r] = BodyOf[c]
         /\ label # "note" => r = at[c]
         /\ IF label = "conflict" THEN lock' = lock
            ELSE lock[I!LockOf(c)] = None /\ lock' = [lock EXCEPT ![I!LockOf(c)] = c]
         /\ label = "start" => I!Found(c) = {}
  <2>1. at = [at EXCEPT ![c] = at[c]] /\ at[c] \in I!Starters \cup {None}
    BY DEF IntakeInv, I!TypeOK
  <2>2. CASE I!Found(c) = {} /\ I!Take(c, I!LockOf(c)) /\ I!Goto(c, "start") /\ UNCHANGED at
    BY <2>1, <2>2 DEF I!Take, I!Goto
  <2>3. CASE (\E r \in I!Found(c) : I!Belongs(c, r) /\ I!WorkOn(c, r)) /\ I!Take(c, I!LockOf(c)) /\ I!Goto(c, "note")
    BY <1>3, <2>3 DEF I!Take, I!Goto, I!WorkOn, I!Belongs
  <2>4. CASE lock[I!LockOf(c)] = None /\ I!Goto(c, "conflict") /\ UNCHANGED <<lock, at>>
    BY <2>1, <2>4 DEF I!Goto
  <2> QED BY <2>2, <2>3, <2>4 DEF I!OpenRequest
<1>5. answer' = [answer EXCEPT ![c] = answer[c]]
  BY <1>2 DEF IntakeInv, I!TypeOK
<1>6. I!TypeOK' /\ queued' \subseteq Heard
  BY <1>1, <1>2, <1>4 DEF IntakeInv, I!TypeOK, I!Ended
<1>7. \A n \in I!LockNames : lock[n] # c
  BY <1>1, NamesDiffer DEF IntakeInv, LocksFit
<1>8. /\ place'[c] = label /\ at'[c] = r /\ \A d \in I!Callers : d # c => place'[d] = place[d]
  BY <1>4 DEF IntakeInv, I!TypeOK
<1>9. LocksFit' /\ RunsFit'
  <2>1. CASE label = "conflict"
    <3>1. /\ lock' = lock /\ place[c] \notin {"start", "run", "note"} /\ label \notin {"idle", "start"}
          /\ queued \subseteq queued'
      BY <1>1, <1>2, <1>4, <2>1
    <3>2. \A s \in I!Starters : run'[s].ref = run[s].ref /\ (run'[s] = I!NoRun <=> run[s] = I!NoRun)
      BY <1>2
    <3> QED BY <1>4, <3>1, <3>2, RunsStay
  <2>2. CASE label # "conflict"
    <3>1. /\ lock'[I!LockOf(c)] = c /\ \A n \in I!LockNames : n # I!LockOf(c) => lock'[n] = lock[n]
          /\ lock[I!LockOf(c)] = None
      BY <1>1, <1>4, <2>2 DEF IntakeInv, I!TypeOK
    <3>2. \A n \in I!LockNames : lock[n] # None => lock[n] \in I!Callers
      BY NamesDiffer DEF IntakeInv, I!TypeOK
    <3>3. LocksFit'
      BY <1>1, <1>2, <1>4, <1>7, <1>8, <2>2, <3>1, <3>2 DEF IntakeInv, LocksFit
    <3>4. \A s \in I!Starters : place'[s] \in {"idle", "start"} => run'[s] = I!NoRun
      BY <1>1, <1>2, <1>8, NamesDiffer DEF IntakeInv, RunsFit
    <3>5. ASSUME NEW u \in Heard
          PROVE  /\ \A r1, r2 \in I!RunsOf(u)' : r1 = r2
                 /\ lock'[u] # None /\ place'[lock'[u]] = "start" => I!RunsOf(u)' = {}
      <4>1. I!RunsOf(u)' = I!RunsOf(u) /\ u \in I!LockNames /\ u # I!LockOf(c)
        BY <1>1, <1>2, NamesDiffer DEF I!RunsOf
      <4>2. lock'[u] = lock[u] /\ lock[u] # c /\ (lock[u] # None => lock[u] \in I!Callers)
        BY <1>7, <3>1, <3>2, <4>1
      <4> QED BY <1>8, <4>1, <4>2 DEF IntakeInv, RunsFit
    <3>6. \A s \in I!Starters : run'[s] # I!NoRun =>
              IF s \in Requests THEN run'[s].ref = RefOf[s] ELSE run'[s].ref \in Heard
      BY <1>2 DEF IntakeInv, RunsFit
    <3> QED BY <3>3, <3>4, <3>5, <3>6 DEF RunsFit
  <2> QED BY <2>1, <2>2
<1>10. CallerFits(c)' /\ PlacerFits(c)'
  <2>1. label # "note" => r = at[c] /\ CallerFits(c)
    BY <1>4 DEF IntakeInv
  <2>2. label = "note" => r \in Requests /\ r # None /\ BodyOf[r] = BodyOf[c]
    BY <1>3, <1>4, NamesDiffer
  <2> QED BY <1>1, <1>8, <2>1, <2>2 DEF CallerFits, PlacerFits, OfRequests, Placing, Helping
<1>11. \A d \in I!Callers : CallerFits(d)' /\ PlacerFits(d)'
  BY <1>2, <1>4, <1>5, <1>10, OthersFit
<1>12. OnePlaces'
  BY <1>4, StillOnePlaces DEF Placing
<1> QED BY <1>2, <1>6, <1>9, <1>11, <1>12, TicketsStay DEF IntakeInv

(* A run begins under the lock that kept others from beginning one.        *)
LEMMA StartKeeps ==
  ASSUME I!CallersAreGiven, IntakeInv, NEW c \in I!Callers, I!Start(c), c \in I!Starters
  PROVE  IntakeInv'
<1>1. PICK ref \in I!LockNames :
         /\ IF c \in Requests THEN ref = RefOf[c] ELSE lock[ref] = c
         /\ run' = [run EXCEPT ![c] = [ref |-> ref, status |-> "running"]]
  BY DEF I!Start
<1>2. /\ place[c] = "start" /\ place' = [place EXCEPT ![c] = "run"] /\ at' = [at EXCEPT ![c] = c]
      /\ UNCHANGED <<event, message, helped, asked, queued, jobDone, placed, lock, answer>>
  BY DEF I!Start, I!Goto, I!WorkOn
<1>3. answer' = [answer EXCEPT ![c] = answer[c]]
  BY <1>2 DEF IntakeInv, I!TypeOK
<1>4. c \notin Requests => ref \in Heard /\ ref \in I!Tickets
  BY <1>1, NamesDiffer DEF IntakeInv, LocksFit
<1>5. ref # None /\ (c \in Requests => ref \in I!Refs /\ ref \notin I!Tickets)
  BY <1>1, NamesDiffer
<1>6. I!TypeOK' /\ queued' \subseteq Heard
  <2>1. [ref |-> ref, status |-> "running"] \in [ref : I!Refs \cup I!Tickets, status : {"running", "settled"}]
    BY <1>4, <1>5
  <2> QED BY <1>1, <1>2, <2>1 DEF IntakeInv, I!TypeOK, I!Ended
<1>7. /\ run'[c].ref = ref /\ run'[c] # I!NoRun /\ run[c] = I!NoRun
      /\ \A r \in I!Starters : r # c => run'[r] = run[r]
  BY <1>1, <1>2, <1>5 DEF IntakeInv, I!TypeOK, RunsFit, I!NoRun
<1>8. place'[c] = "run" /\ at'[c] = c /\ \A d \in I!Callers : d # c => place'[d] = place[d]
  BY <1>2 DEF IntakeInv, I!TypeOK
<1>9. \A n \in I!LockNames : lock[n] # None => lock[n] \in I!Callers
  BY NamesDiffer DEF IntakeInv, I!TypeOK
<1>10. LocksFit'
  BY <1>2, <1>8, <1>9 DEF IntakeInv, LocksFit
<1>11. RunsFit'
  <2>1. \A r \in I!Starters : run'[r] # I!NoRun =>
          IF r \in Requests THEN run'[r].ref = RefOf[r] ELSE run'[r].ref \in Heard
    BY <1>1, <1>4, <1>7 DEF IntakeInv, RunsFit
  <2>2. \A r \in I!Starters : place'[r] \in {"idle", "start"} => run'[r] = I!NoRun
    BY <1>7, <1>8, NamesDiffer DEF IntakeInv, RunsFit
  <2>3. ASSUME NEW t \in Heard
        PROVE  /\ \A r, s \in I!RunsOf(t)' : r = s
               /\ lock'[t] # None /\ place'[lock'[t]] = "start" => I!RunsOf(t)' = {}
    <3>1. t \in I!LockNames /\ t \in I!Tickets
      BY NamesDiffer
    <3>2. CASE t = ref
      <4>1. lock[t] = c
        BY <1>1, <1>5, <3>1, <3>2
      <4>2. I!RunsOf(t) = {}
        BY <1>2, <1>9, <3>1, <4>1, NamesDiffer DEF IntakeInv, RunsFit
      <4>3. \A r \in I!RunsOf(t)' : r = c
        BY <1>7, <4>2 DEF I!RunsOf
      <4> QED BY <1>2, <1>8, <4>1, <4>3
    <3>3. CASE t # ref
      <4>1. I!RunsOf(t)' = I!RunsOf(t)
        <5>1. run[c].ref # t
          BY <1>7, <3>1, NamesDiffer DEF I!NoRun
        <5> QED BY <1>7, <3>3, <5>1 DEF I!RunsOf
      <4>2. ASSUME lock'[t] # None, place'[lock'[t]] = "start" PROVE I!RunsOf(t) = {}
        <5>1. lock[t] \in I!Callers /\ lock[t] # c /\ place[lock[t]] = "start"
          BY <1>2, <1>8, <1>9, <3>1, <4>2
        <5> QED BY <1>2, <4>2, <5>1 DEF IntakeInv, RunsFit
      <4> QED BY <4>1, <4>2 DEF IntakeInv, RunsFit
    <3> QED BY <3>2, <3>3
  <2> QED BY <2>1, <2>2, <2>3 DEF RunsFit
<1>12. CallerFits(c)' /\ PlacerFits(c)'
  BY <1>7, <1>8 DEF CallerFits, PlacerFits, OfRequests, Placing, Helping
<1>13. \A d \in I!Callers : CallerFits(d)' /\ PlacerFits(d)'
  <2>1. \A s \in I!Starters : run[s] # I!NoRun => run'[s] # I!NoRun
    BY <1>7
  <2>2. PICK label : label = "run" /\ place' = [place EXCEPT ![c] = label]
    BY <1>2
  <2>3. PICK r : r = c /\ at' = [at EXCEPT ![c] = r]
    BY <1>2
  <2>4. place' = [place EXCEPT ![c] = label] /\ at' = [at EXCEPT ![c] = r]
    BY <2>2, <2>3
  <2>5. ASSUME NEW d \in I!Callers, d # c PROVE CallerFits(d)' /\ PlacerFits(d)'
    <3>1. /\ place[d] \in Placing => message'[at[d]] = message[at[d]] /\ placed'[at[d]] = placed[at[d]]
          /\ place[d] \in Helping => message'[at[d]] = message[at[d]]
      BY <1>2
    <3> QED BY <1>3, <2>1, <2>4, <2>5, <3>1, OthersFit
  <2> QED BY <1>12, <2>5
<1>14. OnePlaces'
  BY <1>2, StillOnePlaces DEF Placing
<1> QED BY <1>2, <1>6, <1>10, <1>11, <1>13, <1>14, TicketsStay DEF IntakeInv

(* Whoever deals with the ticket of a run does so alone.                   *)
LEMMA NobodyElseDeals ==
  ASSUME I!CallersAreGiven, IntakeInv, NEW c \in I!Callers, NEW d \in I!Callers, d # c,
         place[c] \in Placing \/ (place[c] = "attempt" /\ message[at[c]] = "none"),
         place[d] \in Placing \cup Helping
  PROVE  at[d] # at[c]
<1>1. PlacerFits(c) /\ PlacerFits(d) /\ OnePlaces
  BY DEF IntakeInv
<1> QED BY <1>1 DEF PlacerFits, OnePlaces, Placing, Helping

(* The run a request deals with is that of a request.                      *)
LEMMA RequestsDeal ==
  ASSUME I!CallersAreGiven, IntakeInv, NEW c \in I!Callers, place[c] \in OfRequests
  PROVE  c \in Requests /\ at[c] \in Requests /\ at[c] # None /\ BodyOf[at[c]] = BodyOf[c]
<1>1. CallerFits(c)
  BY DEF IntakeInv
<1> QED BY <1>1 DEF CallerFits

(* A caller that goes on with the run it has, and that nobody else deals   *)
(* with where it changes what is known of the ticket, keeps the rest.      *)
LEMMA GoingOnKeeps ==
  ASSUME I!CallersAreGiven, IntakeInv, NEW c \in I!Callers, NEW label, NEW says,
         place' = [place EXCEPT ![c] = label], at' = at, answer' = [answer EXCEPT ![c] = says],
         label \notin {"idle", "start"},
         \A r \in I!Starters : run'[r].ref = run[r].ref /\ (run'[r] = I!NoRun <=> run[r] = I!NoRun),
         queued' = queued,
         \/ lock' = I!Released(c)
         \/ lock' = lock /\ (label \in {"run", "note"} \/ place[c] \notin {"start", "run", "note"}),
         label \notin Placing \/ place[c] \in Placing \/ (place[c] = "attempt" /\ message[at[c]] = "none"),
         \/ message' = message /\ placed' = placed
         \/ /\ place[c] \in Placing \/ (place[c] = "attempt" /\ message[at[c]] = "none")
            /\ \A r \in Requests : r # at[c] => message'[r] = message[r] /\ placed'[r] = placed[r],
         I!TypeOK', CallerFits(c)', PlacerFits(c)', \A r \in Requests : TicketFits(r)'
  PROVE  IntakeInv'
<1>1. LocksFit' /\ RunsFit'
  <2>1. queued \subseteq queued'
    OBVIOUS
  <2> QED BY <2>1, RunsStay
<1>2. at \in [I!Callers -> I!Starters \cup {None}] /\ place = [d \in I!Callers |-> place[d]]
  BY DEF IntakeInv, I!TypeOK
<1>3. PICK r : r = at[c] /\ at' = [at EXCEPT ![c] = r]
  BY <1>2
<1>4. \A d \in I!Callers : CallerFits(d)' /\ PlacerFits(d)'
  <2>1. ASSUME NEW d \in I!Callers, d # c PROVE CallerFits(d)' /\ PlacerFits(d)'
    <3>1. place[d] \in Placing \cup Helping => at[d] \in Requests
      BY RequestsDeal DEF OfRequests
    <3>2. ASSUME place[d] \in Placing \cup Helping
          PROVE  message'[at[d]] = message[at[d]] /\ placed'[at[d]] = placed[at[d]]
      BY <2>1, <3>1, <3>2, NobodyElseDeals
    <3>3. /\ place[d] \in Placing => message'[at[d]] = message[at[d]] /\ placed'[at[d]] = placed[at[d]]
          /\ place[d] \in Helping => message'[at[d]] = message[at[d]]
      BY <3>2
    <3>4. \A s \in I!Starters : run[s] # I!NoRun => run'[s] # I!NoRun
      OBVIOUS
    <3>5. at' = [at EXCEPT ![c] = r]
      BY <1>3
    <3> QED BY <2>1, <3>3, <3>4, <3>5, OthersFit
  <2> QED BY <2>1
<1>5. OnePlaces'
  <2>1. place'[c] = label /\ \A d \in I!Callers : d # c => place'[d] = place[d]
    BY <1>2
  <2>2. ASSUME label \in Placing, NEW d \in I!Callers, d # c, place[d] \in Placing PROVE at[d] # at[c]
    BY <2>2, NobodyElseDeals
  <2>3. OnePlaces
    BY DEF IntakeInv
  <2> QED BY <2>1, <2>2, <2>3 DEF OnePlaces
<1>6. queued' \subseteq Heard
  BY DEF IntakeInv
<1> QED BY <1>1, <1>4, <1>5, <1>6 DEF IntakeInv

(* What dies, or raises, leaves its locks.                                 *)
LEMMA DieKeeps ==
  ASSUME I!CallersAreGiven, IntakeInv, NEW c \in I!Callers, I!Die(c)
  PROVE  IntakeInv'
<1>1. /\ place' = [place EXCEPT ![c] = "dead"] /\ lock' = I!Released(c)
      /\ UNCHANGED <<run, event, message, helped, asked, queued, jobDone, placed, at, answer>>
  BY DEF I!Die, I!Goto, I!tableVars
<1>2. PICK label : label = "dead" /\ place' = [place EXCEPT ![c] = label]
  BY <1>1
<1>3. PICK says : says = answer[c] /\ answer' = [answer EXCEPT ![c] = says]
  BY <1>1 DEF IntakeInv, I!TypeOK
<1>4. I!TypeOK'
  BY <1>1 DEF IntakeInv, I!TypeOK, I!Ended, I!Released
<1>5. \A r \in Requests : TicketFits(r)'
  BY <1>1, TicketsStay
<1>6. CallerFits(c)' /\ PlacerFits(c)'
  <2>1. place'[c] = "dead" /\ CallerFits(c)
    BY <1>1 DEF IntakeInv, I!TypeOK
  <2> QED BY <1>1, <2>1 DEF CallerFits, PlacerFits, OfRequests, Placing, Helping
<1>7. /\ place' = [place EXCEPT ![c] = label] /\ answer' = [answer EXCEPT ![c] = says] /\ at' = at
      /\ label \notin {"idle", "start"} /\ queued' = queued /\ label \notin Placing
      /\ message' = message /\ placed' = placed
  BY <1>1, <1>2, <1>3 DEF Placing
<1>8. \A r \in I!Starters : run'[r].ref = run[r].ref /\ (run'[r] = I!NoRun <=> run[r] = I!NoRun)
  BY <1>1
<1> QED BY <1>1, <1>4, <1>5, <1>6, <1>7, <1>8, GoingOnKeeps

(* A pass settles its run, and takes its locks with it.                    *)
LEMMA RunKeeps ==
  ASSUME I!CallersAreGiven, IntakeInv, NEW c \in I!Callers, I!Run(c)
  PROVE  IntakeInv'
<1>1. /\ place[c] = "run" /\ run' = [run EXCEPT ![at[c]].status = "settled"]
      /\ UNCHANGED <<event, message, helped, asked, queued, placed, at, answer>>
  BY DEF I!Run
<1>2. PICK label \in {"note", "returned"} :
         /\ place' = [place EXCEPT ![c] = label]
         /\ label = "note" => c \in Requests /\ lock' = lock /\ jobDone' = jobDone
         /\ label = "returned" => lock' = I!Released(c) /\ c \notin Requests
         /\ \/ jobDone' = jobDone
            \/ c \in JobRuns /\ jobDone' = jobDone \cup {t \in I!Tickets : lock[t] = c}
  BY DEF I!Run, I!Goto
<1>3. at[c] \in I!Starters /\ run[at[c]] # I!NoRun /\ CallerFits(c)
  BY <1>1 DEF IntakeInv, CallerFits
<1>4. run[at[c]] \in [ref : I!Refs \cup I!Tickets, status : {"running", "settled"}] /\ run[at[c]].ref # None
  <2>1. run[at[c]] \in [ref : I!Refs \cup I!Tickets, status : {"running", "settled"}]
    BY <1>3 DEF IntakeInv, I!TypeOK
  <2>2. None \notin I!Refs \cup I!Tickets
    BY DEF I!CallersAreGiven, I!LockNames
  <2> QED BY <2>1, <2>2
<1>5. \A r \in I!Starters : run'[r].ref = run[r].ref /\ (run'[r] = I!NoRun <=> run[r] = I!NoRun)
  <2>1. run'[at[c]] = [run[at[c]] EXCEPT !.status = "settled"] /\ \A r \in I!Starters : r # at[c] => run'[r] = run[r]
    BY <1>1, <1>3 DEF IntakeInv, I!TypeOK
  <2>2. run'[at[c]].ref = run[at[c]].ref
    BY <1>4, <2>1
  <2>3. run'[at[c]] # I!NoRun
    BY <1>4, <2>2 DEF I!NoRun
  <2> QED BY <1>3, <2>1, <2>2, <2>3
<1>6. jobDone' \subseteq queued
  BY <1>2, NamesDiffer DEF IntakeInv, I!TypeOK, LocksFit
<1>7. I!TypeOK'
  <2>1. run' \in [I!Starters -> [ref : I!Refs \cup I!Tickets, status : {"running", "settled"}] \cup {I!NoRun}]
    BY <1>1, <1>3, <1>4 DEF IntakeInv, I!TypeOK
  <2>2. lock' \in [I!LockNames -> I!Starters \cup {None}]
    BY <1>2 DEF IntakeInv, I!TypeOK, I!Released
  <2> QED BY <1>1, <1>2, <1>6, <2>1, <2>2 DEF IntakeInv, I!TypeOK, I!Ended
<1>8. \A r \in Requests : TicketFits(r)'
  BY <1>1, TicketsStay
<1>9. /\ place'[c] = label
      /\ c \in Requests /\ at[c] # None => at[c] \in Requests /\ BodyOf[at[c]] = BodyOf[c]
  BY <1>2, <1>3 DEF IntakeInv, I!TypeOK, CallerFits
<1>10. CallerFits(c)' /\ PlacerFits(c)'
  BY <1>1, <1>2, <1>3, <1>9, NamesDiffer DEF CallerFits, PlacerFits, OfRequests, Placing, Helping, IntakeInv, I!TypeOK
<1>11. PICK says : says = answer[c] /\ answer' = [answer EXCEPT ![c] = says]
  BY <1>1 DEF IntakeInv, I!TypeOK
<1>12. /\ place' = [place EXCEPT ![c] = label] /\ answer' = [answer EXCEPT ![c] = says] /\ at' = at
       /\ label \notin {"idle", "start"} /\ queued' = queued /\ label \notin Placing
       /\ message' = message /\ placed' = placed
  BY <1>1, <1>2, <1>11 DEF Placing
<1>13. \/ lock' = I!Released(c)
       \/ lock' = lock /\ (label \in {"run", "note"} \/ place[c] \notin {"start", "run", "note"})
  BY <1>2
<1> QED BY <1>5, <1>7, <1>8, <1>10, <1>12, <1>13, GoingOnKeeps

(* An event is noted with the run of a request.                            *)
LEMMA NoteKeeps ==
  ASSUME I!CallersAreGiven, IntakeInv, NEW c \in I!Callers, I!Note(c)
  PROVE  IntakeInv'
<1>1. /\ place[c] = "note" /\ lock' = I!Released(c) /\ place' = [place EXCEPT ![c] = "attempt"]
      /\ UNCHANGED <<run, message, helped, asked, queued, jobDone, placed, at, answer>>
  BY DEF I!Note, I!Goto
<1>2. c \in Requests /\ at[c] \in Requests /\ at[c] # None /\ BodyOf[at[c]] = BodyOf[c]
  BY <1>1, RequestsDeal DEF OfRequests
<1>3. I!TypeOK'
  <2>1. event' \in [I!EventKeys -> Requests \cup {None}]
    BY <1>2, NamesDiffer DEF I!Note, IntakeInv, I!TypeOK
  <2>2. lock' \in [I!LockNames -> I!Starters \cup {None}]
    BY <1>1 DEF IntakeInv, I!TypeOK, I!Released
  <2> QED BY <1>1, <2>1, <2>2 DEF IntakeInv, I!TypeOK, I!Ended
<1>4. PICK label : label = "attempt" /\ place' = [place EXCEPT ![c] = label]
  BY <1>1
<1>5. PICK says : says = answer[c] /\ answer' = [answer EXCEPT ![c] = says]
  BY <1>1 DEF IntakeInv, I!TypeOK
<1>6. \A r \in Requests : TicketFits(r)'
  BY <1>1, TicketsStay
<1>7. place'[c] = "attempt"
  BY <1>1 DEF IntakeInv, I!TypeOK
<1>8. CallerFits(c)' /\ PlacerFits(c)'
  BY <1>1, <1>2, <1>7 DEF CallerFits, PlacerFits, OfRequests, Placing, Helping
<1>9. /\ place' = [place EXCEPT ![c] = label] /\ answer' = [answer EXCEPT ![c] = says] /\ at' = at
      /\ label \notin {"idle", "start"} /\ queued' = queued /\ label \notin Placing
      /\ message' = message /\ placed' = placed
  BY <1>1, <1>4, <1>5 DEF Placing
<1>10. \A r \in I!Starters : run'[r].ref = run[r].ref /\ (run'[r] = I!NoRun <=> run[r] = I!NoRun)
  BY <1>1
<1> QED BY <1>1, <1>3, <1>6, <1>8, <1>9, <1>10, GoingOnKeeps

(* The first to write down that it will try finds no ticket placed; the    *)
(* second is told what is written.                                         *)
LEMMA AttemptKeeps ==
  ASSUME I!CallersAreGiven, IntakeInv, NEW c \in I!Callers, I!Attempt(c)
  PROVE  IntakeInv'
<1>1. /\ place[c] = "attempt"
      /\ UNCHANGED <<run, event, helped, asked, queued, jobDone, placed, lock, at>>
  BY DEF I!Attempt
<1>2. c \in Requests /\ at[c] \in Requests /\ at[c] # None /\ BodyOf[at[c]] = BodyOf[c]
  BY <1>1, RequestsDeal DEF OfRequests
<1>3. TicketFits(at[c]) /\ \A r \in Requests : TicketFits(r)
  BY <1>2 DEF IntakeInv
<1>4. PICK label \in {"returned", "place"}, says \in I!TicketStatus :
         /\ place' = [place EXCEPT ![c] = label] /\ answer' = [answer EXCEPT ![c] = says]
         /\ label = "returned" => message' = message
         /\ label = "place" => message[at[c]] = "none" /\ message' = [message EXCEPT ![at[c]] = "attempted"]
  <2>1. answer = [answer EXCEPT ![c] = answer[c]] /\ answer[c] \in I!TicketStatus /\ message[at[c]] \in I!TicketStatus
    BY <1>2 DEF IntakeInv, I!TypeOK
  <2> QED BY <2>1 DEF I!Attempt, I!Goto
<1>5. /\ place'[c] = label
      /\ label = "place" => message'[at[c]] = "attempted" /\ \A r \in Requests : r # at[c] => message'[r] = message[r]
  BY <1>2, <1>4 DEF IntakeInv, I!TypeOK
<1>6. I!TypeOK'
  BY <1>1, <1>2, <1>4 DEF IntakeInv, I!TypeOK, I!Ended, I!TicketStatus
<1>7. \A r \in Requests : TicketFits(r)'
  BY <1>1, <1>3, <1>4, <1>5 DEF TicketFits
<1>8. CallerFits(c)' /\ PlacerFits(c)'
  BY <1>1, <1>2, <1>3, <1>4, <1>5 DEF CallerFits, PlacerFits, OfRequests, Placing, Helping, TicketFits
<1>9. /\ label \notin {"idle", "start"} /\ queued' = queued /\ at' = at
      /\ label \notin Placing \/ place[c] \in Placing \/ (place[c] = "attempt" /\ message[at[c]] = "none")
      /\ lock' = lock /\ place[c] \notin {"start", "run", "note"}
  BY <1>1, <1>4 DEF Placing
<1>10. \A r \in I!Starters : run'[r].ref = run[r].ref /\ (run'[r] = I!NoRun <=> run[r] = I!NoRun)
  BY <1>1
<1>11. \/ message' = message /\ placed' = placed
       \/ /\ place[c] \in Placing \/ (place[c] = "attempt" /\ message[at[c]] = "none")
          /\ \A r \in Requests : r # at[c] => message'[r] = message[r] /\ placed'[r] = placed[r]
  BY <1>1, <1>4, <1>5
<1> QED BY <1>4, <1>6, <1>7, <1>8, <1>9, <1>10, <1>11, GoingOnKeeps

(* The one who attempted it places a ticket, or none.                      *)
LEMMA PlaceKeeps ==
  ASSUME I!CallersAreGiven, IntakeInv, NEW c \in I!Callers, I!Place(c)
  PROVE  IntakeInv'
<1>1. /\ place[c] = "place" /\ UNCHANGED <<run, event, message, helped, asked, queued, jobDone, lock, at>>
  BY DEF I!Place, I!tableVars
<1>2. c \in Requests /\ at[c] \in Requests /\ at[c] # None /\ BodyOf[at[c]] = BodyOf[c]
  BY <1>1, RequestsDeal DEF OfRequests, Placing
<1>3. /\ TicketFits(at[c]) /\ \A r \in Requests : TicketFits(r)
      /\ message[at[c]] = "attempted" /\ placed[at[c]] = 0
  BY <1>1, <1>2 DEF IntakeInv, PlacerFits, Placing
<1>4. PICK label \in {"readback", "record"}, says \in I!TicketStatus, n \in {0, 1} :
         /\ place' = [place EXCEPT ![c] = label] /\ answer' = [answer EXCEPT ![c] = says]
         /\ placed' = [placed EXCEPT ![at[c]] = n]
         /\ label = "record" => says \in {"unknown", "blocked"}
  <2>1. answer = [answer EXCEPT ![c] = answer[c]] /\ answer[c] \in I!TicketStatus
    BY DEF IntakeInv, I!TypeOK
  <2>2. PICK out \in I!PlaceOutcomes :
           /\ placed' = [placed EXCEPT ![at[c]] = placed[at[c]] + out.places]
           /\ \/ out.says = "answered" /\ I!Goto(c, "readback") /\ UNCHANGED answer
              \/ out.says # "answered" /\ I!Goto(c, "record") /\ answer' = [answer EXCEPT ![c] = out.says]
    BY DEF I!Place
  <2>3. out.places \in {0, 1} /\ out.says \in {"answered", "unknown", "blocked"}
    BY DEF I!PlaceOutcomes
  <2>4. placed[at[c]] + out.places = out.places
    BY <1>3, <2>3
  <2>5. placed' = [placed EXCEPT ![at[c]] = out.places]
    BY <2>2, <2>4
  <2>6. CASE out.says = "answered"
    BY <2>1, <2>2, <2>3, <2>5, <2>6 DEF I!Goto
  <2>7. CASE out.says # "answered"
    <3>1. out.says \in I!TicketStatus /\ out.says \in {"unknown", "blocked"}
      BY <2>3, <2>7 DEF I!TicketStatus
    <3> QED BY <2>2, <2>3, <2>5, <2>7, <3>1 DEF I!Goto
  <2> QED BY <2>6, <2>7
<1>5. /\ place'[c] = label /\ answer'[c] = says
      /\ placed'[at[c]] = n /\ \A r \in Requests : r # at[c] => placed'[r] = placed[r]
  BY <1>2, <1>4 DEF IntakeInv, I!TypeOK
<1>6. I!TypeOK'
  BY <1>1, <1>2, <1>4 DEF IntakeInv, I!TypeOK, I!Ended
<1>7. \A r \in Requests : TicketFits(r)'
  BY <1>1, <1>3, <1>4, <1>5 DEF TicketFits
<1>8. CallerFits(c)' /\ PlacerFits(c)'
  BY <1>1, <1>2, <1>3, <1>4, <1>5 DEF CallerFits, PlacerFits, OfRequests, Placing, Helping
<1>9. /\ label \notin {"idle", "start"} /\ queued' = queued /\ at' = at /\ place[c] \in Placing
      /\ lock' = lock /\ place[c] \notin {"start", "run", "note"}
      /\ \A r \in Requests : r # at[c] => message'[r] = message[r] /\ placed'[r] = placed[r]
  BY <1>1, <1>4, <1>5 DEF Placing
<1>10. \A r \in I!Starters : run'[r].ref = run[r].ref /\ (run'[r] = I!NoRun <=> run[r] = I!NoRun)
  BY <1>1
<1> QED BY <1>4, <1>6, <1>7, <1>8, <1>9, <1>10, GoingOnKeeps

(* Only a ticket that is there is read back as verified.                   *)
LEMMA ReadbackKeeps ==
  ASSUME I!CallersAreGiven, IntakeInv, NEW c \in I!Callers, I!Readback(c)
  PROVE  IntakeInv'
<1>1. /\ place[c] = "readback" /\ place' = [place EXCEPT ![c] = "record"]
      /\ UNCHANGED <<run, event, message, helped, asked, queued, jobDone, placed, lock, at>>
  BY DEF I!Readback, I!Goto, I!tableVars
<1>2. c \in Requests /\ at[c] \in Requests /\ at[c] # None /\ BodyOf[at[c]] = BodyOf[c]
  BY <1>1, RequestsDeal DEF OfRequests, Placing
<1>3. message[at[c]] = "attempted"
  BY <1>1, <1>2 DEF IntakeInv, PlacerFits, Placing
<1>4. PICK says \in {"unverified", "blocked", "verified"} :
         answer' = [answer EXCEPT ![c] = says] /\ (says = "verified" => placed[at[c]] > 0)
  BY DEF I!Readback, I!ReadbackOutcomes
<1>5. PICK label : label = "record" /\ place' = [place EXCEPT ![c] = label]
  BY <1>1
<1>6. place'[c] = "record" /\ answer'[c] = says
  BY <1>1, <1>4 DEF IntakeInv, I!TypeOK
<1>7. I!TypeOK'
  BY <1>1, <1>4 DEF IntakeInv, I!TypeOK, I!Ended, I!TicketStatus
<1>8. \A r \in Requests : TicketFits(r)'
  BY <1>1, TicketsStay
<1>9. CallerFits(c)' /\ PlacerFits(c)'
  BY <1>1, <1>2, <1>3, <1>4, <1>6 DEF CallerFits, PlacerFits, OfRequests, Placing, Helping
<1>10. /\ place' = [place EXCEPT ![c] = label] /\ label \notin {"idle", "start"} /\ queued' = queued
       /\ at' = at /\ place[c] \in Placing /\ lock' = lock /\ place[c] \notin {"start", "run", "note"}
       /\ message' = message /\ placed' = placed
  BY <1>1, <1>5 DEF Placing
<1>11. \A r \in I!Starters : run'[r].ref = run[r].ref /\ (run'[r] = I!NoRun <=> run[r] = I!NoRun)
  BY <1>1
<1> QED BY <1>4, <1>7, <1>8, <1>9, <1>10, <1>11, GoingOnKeeps

(* The row says what was found, and approvers are sent where a ticket is.  *)
LEMMA RecordKeeps ==
  ASSUME I!CallersAreGiven, IntakeInv, NEW c \in I!Callers, I!Record(c)
  PROVE  IntakeInv'
<1>1. /\ place[c] = "record" /\ message' = [message EXCEPT ![at[c]] = answer[c]]
      /\ asked' = IF answer[c] = "verified" THEN asked \cup {at[c]} ELSE asked
      /\ UNCHANGED <<run, event, helped, queued, jobDone, placed, lock, at, answer>>
  BY DEF I!Record
<1>2. c \in Requests /\ at[c] \in Requests /\ at[c] # None /\ BodyOf[at[c]] = BodyOf[c]
  BY <1>1, RequestsDeal DEF OfRequests, Placing
<1>3. /\ TicketFits(at[c]) /\ \A r \in Requests : TicketFits(r)
      /\ answer[c] \in {"verified", "unverified", "unknown", "blocked"}
      /\ answer[c] = "verified" => placed[at[c]] > 0
      /\ message[at[c]] = "attempted"
  BY <1>1, <1>2 DEF IntakeInv, PlacerFits, Placing
<1>4. PICK label \in {"tasks", "returned"} :
         /\ place' = [place EXCEPT ![c] = label]
         /\ label = "tasks" => answer[c] = "verified" /\ at[c] \in Onboarding
  BY DEF I!Record, I!Goto
<1>5. /\ place'[c] = label
      /\ message'[at[c]] = answer[c] /\ \A r \in Requests : r # at[c] => message'[r] = message[r]
  BY <1>1, <1>2, <1>4 DEF IntakeInv, I!TypeOK
<1>6. I!TypeOK'
  BY <1>1, <1>2, <1>3, <1>4 DEF IntakeInv, I!TypeOK, I!Ended, I!TicketStatus
<1>7. \A r \in Requests : TicketFits(r)'
  BY <1>1, <1>3, <1>5 DEF TicketFits
<1>8. CallerFits(c)' /\ PlacerFits(c)'
  BY <1>1, <1>2, <1>4, <1>5 DEF CallerFits, PlacerFits, OfRequests, Placing, Helping
<1>9. PICK says : says = answer[c] /\ answer' = [answer EXCEPT ![c] = says]
  BY <1>1 DEF IntakeInv, I!TypeOK
<1>10. /\ place' = [place EXCEPT ![c] = label] /\ label \notin {"idle", "start"} /\ queued' = queued
       /\ answer' = [answer EXCEPT ![c] = says]
       /\ at' = at /\ place[c] \in Placing /\ lock' = lock /\ place[c] \notin {"start", "run", "note"}
       /\ \A r \in Requests : r # at[c] => message'[r] = message[r] /\ placed'[r] = placed[r]
  BY <1>1, <1>4, <1>5, <1>9 DEF Placing
<1>11. \A r \in I!Starters : run'[r].ref = run[r].ref /\ (run'[r] = I!NoRun <=> run[r] = I!NoRun)
  BY <1>1
<1> QED BY <1>6, <1>7, <1>8, <1>10, <1>11, GoingOnKeeps

(* Tasks and a note are put on the verified ticket of an onboarding.       *)
LEMMA HelpKeeps ==
  ASSUME I!CallersAreGiven, IntakeInv, NEW c \in I!Callers, I!Tasks(c) \/ I!Procedure(c)
  PROVE  IntakeInv'
<1>1. /\ place[c] \in Helping
      /\ UNCHANGED <<run, event, message, asked, queued, jobDone, placed, lock, at, answer>>
  BY DEF I!Tasks, I!Procedure, I!Help, Helping
<1>2. PICK label \in {"procedure", "returned"}, what \in {"tasks", "procedure"}, outcome \in I!Outcomes :
         /\ place' = [place EXCEPT ![c] = label]
         /\ helped' = [helped EXCEPT ![at[c]][what] = outcome]
  <2>1. CASE I!Tasks(c)
    BY <2>1 DEF I!Tasks, I!Help, I!Goto, I!Outcomes
  <2>2. CASE I!Procedure(c)
    BY <2>2 DEF I!Procedure, I!Help, I!Goto, I!Outcomes
  <2> QED BY <2>1, <2>2
<1>3. c \in Requests /\ at[c] \in Requests /\ at[c] # None /\ BodyOf[at[c]] = BodyOf[c]
  BY <1>1, RequestsDeal DEF OfRequests
<1>4. /\ message[at[c]] = "verified" /\ at[c] \in Onboarding
      /\ \A r \in Requests : TicketFits(r)
  BY <1>1, <1>3 DEF IntakeInv, PlacerFits
<1>5. /\ place'[c] = label
      /\ helped' \in [Requests -> [{"tasks", "procedure"} -> I!Outcomes \cup {"none"}]]
      /\ \A r \in Requests : r # at[c] => helped'[r] = helped[r]
  BY <1>2, <1>3 DEF IntakeInv, I!TypeOK
<1>6. I!TypeOK'
  BY <1>1, <1>2, <1>5 DEF IntakeInv, I!TypeOK, I!Ended
<1>7. \A r \in Requests : TicketFits(r)'
  BY <1>1, <1>4, <1>5 DEF TicketFits
<1>8. CallerFits(c)' /\ PlacerFits(c)'
  BY <1>1, <1>2, <1>3, <1>4, <1>5 DEF CallerFits, PlacerFits, OfRequests, Placing, Helping
<1>9. PICK says : says = answer[c] /\ answer' = [answer EXCEPT ![c] = says]
  BY <1>1 DEF IntakeInv, I!TypeOK
<1>10. /\ place' = [place EXCEPT ![c] = label] /\ label \notin {"idle", "start"} /\ queued' = queued
       /\ answer' = [answer EXCEPT ![c] = says] /\ label \notin Placing
       /\ at' = at /\ lock' = lock /\ place[c] \notin {"start", "run", "note"}
       /\ message' = message /\ placed' = placed
  BY <1>1, <1>2, <1>9 DEF Placing, Helping
<1>11. \A r \in I!Starters : run'[r].ref = run[r].ref /\ (run'[r] = I!NoRun <=> run[r] = I!NoRun)
  BY <1>1
<1> QED BY <1>6, <1>7, <1>8, <1>10, <1>11, GoingOnKeeps

(* Every step keeps the invariant.                                         *)
LEMMA IntakeKeeps == I!CallersAreGiven /\ IntakeInv /\ [I!Next]_(I!vars) => IntakeInv'
<1> SUFFICES ASSUME I!CallersAreGiven, IntakeInv, [I!Next]_(I!vars) PROVE IntakeInv'
  OBVIOUS
<1>1. ASSUME NEW c \in I!Callers, I!Step(c) PROVE IntakeInv'
  <2>1. CASE I!Start(c)
    <3>1. c \in I!Starters
      BY <2>1, NamesDiffer DEF I!Start, IntakeInv, I!TypeOK, LocksFit
    <3> QED BY <2>1, <3>1, StartKeeps
  <2> QED BY <1>1, <2>1, RunKeeps, NoteKeeps, AttemptKeeps, PlaceKeeps, ReadbackKeeps, RecordKeeps, HelpKeeps DEF I!Step
<1>2. ASSUME NEW c \in I!Callers, I!Enter(c) PROVE IntakeInv'
  BY <1>2, WebhookKeeps, OpenTicketKeeps, OpenRequestKeeps DEF I!Enter
<1>3. CASE UNCHANGED I!vars
  BY <1>3 DEF I!vars, I!tableVars, I!callerVars, IntakeInv, I!TypeOK, LocksFit, RunsFit, I!RunsOf,
              CallerFits, PlacerFits, TicketFits, OnePlaces
<1> QED BY <1>1, <1>2, <1>3, DieKeeps DEF I!Next

-----------------------------------------------------------------------------
(* One event, one run: the first caller notes the event before it lets go  *)
(* of its lock, unless it dies; a run that was begun is in the table       *)
(* already, and is found by the message it came with.                      *)
Noted(c) == EventOf[c] = None \/ event[EventOf[c]] # None

(* The run of d was begun for the event of c, by a caller that died, and   *)
(* under another reference than that of c.                                 *)
Lost(d, c) == place[d] = "dead" /\ RefOf[d] # RefOf[c]

EventInv ==
    /\ \A c \in Requests : place[c] \in {"start", "run", "note"} => lock[I!LockOf(c)] = c
    /\ \A c \in Requests : run[c] # I!NoRun => place[c] \in {"run", "note", "dead"} \/ Noted(c)
    /\ \A c, d \in Requests : I!SameEvent(c, d) /\ c # d /\ run[d] # I!NoRun =>
          /\ place[c] = "start" => Lost(d, c)
          /\ run[c] # I!NoRun => Lost(d, c) \/ Lost(c, d)

(* What a step of a caller leaves to the others.                           *)
LEMMA StepsLeave ==
  ASSUME I!CallersAreGiven, IntakeInv, NEW c \in I!Callers, I!Step(c) \/ I!Enter(c) \/ I!Die(c)
  PROVE  /\ place[c] \notin I!Ended /\ \A d \in I!Callers : d # c => place'[d] = place[d]
         /\ \A n \in I!LockNames : lock[n] \notin {None, c} => lock'[n] = lock[n]
         /\ \A k \in I!EventKeys : event[k] # None => event'[k] # None
         /\ ~I!Note(c) => event' = event
         /\ \A r \in I!Starters : ~(I!Start(c) /\ r = c) => (run'[r] = I!NoRun <=> run[r] = I!NoRun)
<1> USE DEF I!Goto, I!Take, I!Ended, I!Released, I!tableVars
<1>1. /\ place[c] \notin I!Ended /\ \E label : place' = [place EXCEPT ![c] = label]
  BY DEF I!Step, I!Enter, I!Die, I!Start, I!Run, I!Note, I!Attempt, I!Place, I!Readback, I!Record,
     I!Tasks, I!Procedure, I!Help, I!Webhook, I!OpenTicket, I!FirstOfTicket, I!ContinueOf, I!DuplicateOf, I!OpenRequest
<1>2. \/ lock' = lock \/ lock' = I!Released(c)
      \/ \E n \in I!LockNames : lock[n] = None /\ lock' = [lock EXCEPT ![n] = c]
  BY NamesDiffer DEF I!Step, I!Enter, I!Die, I!Start, I!Run, I!Note, I!Attempt, I!Place, I!Readback, I!Record,
     I!Tasks, I!Procedure, I!Help, I!Webhook, I!OpenTicket, I!FirstOfTicket, I!ContinueOf, I!DuplicateOf, I!OpenRequest
<1>3. ~I!Note(c) => event' = event
  BY DEF I!Step, I!Enter, I!Die, I!Start, I!Run, I!Attempt, I!Place, I!Readback, I!Record,
     I!Tasks, I!Procedure, I!Help, I!Webhook, I!OpenTicket, I!FirstOfTicket, I!ContinueOf, I!DuplicateOf, I!OpenRequest
<1>4. \A n \in I!LockNames : lock[n] \notin {None, c} => lock'[n] = lock[n]
  BY <1>2 DEF IntakeInv, I!TypeOK
<1>5. \A k \in I!EventKeys : event[k] # None => event'[k] # None
  <2>1. CASE I!Note(c)
    BY <2>1 DEF I!Note, IntakeInv, I!TypeOK
  <2> QED BY <1>3, <2>1
<1>6. ASSUME NEW r \in I!Starters, ~(I!Start(c) /\ r = c)
      PROVE  run'[r] = I!NoRun <=> run[r] = I!NoRun
  <2>1. CASE I!Start(c)
    BY <1>6, <2>1 DEF I!Start, IntakeInv, I!TypeOK
  <2>2. CASE I!Run(c)
    <3>1. place[c] = "run" /\ run' = [run EXCEPT ![at[c]].status = "settled"]
      BY <2>2 DEF I!Run
    <3>2. at[c] \in I!Starters /\ run[at[c]] # I!NoRun
      BY <3>1 DEF IntakeInv, CallerFits
    <3>3. run[at[c]] \in [ref : I!Refs \cup I!Tickets, status : {"running", "settled"}]
      BY <3>2 DEF IntakeInv, I!TypeOK
    <3>4. run'[at[c]] = [run[at[c]] EXCEPT !.status = "settled"] /\ (r # at[c] => run'[r] = run[r])
      BY <3>1, <3>2 DEF IntakeInv, I!TypeOK
    <3>5. run'[at[c]].ref \in I!Refs \cup I!Tickets /\ None \notin I!Refs \cup I!Tickets
      BY <3>3, <3>4 DEF I!CallersAreGiven, I!LockNames
    <3> QED BY <3>2, <3>4, <3>5 DEF I!NoRun
  <2>3. CASE ~I!Start(c) /\ ~I!Run(c)
    <3>1. run' = run
      BY <2>3 DEF I!Step, I!Enter, I!Die, I!Note, I!Attempt, I!Place, I!Readback, I!Record,
         I!Tasks, I!Procedure, I!Help, I!Webhook, I!OpenTicket, I!FirstOfTicket, I!ContinueOf, I!DuplicateOf, I!OpenRequest
    <3> QED BY <3>1
  <2> QED BY <2>1, <2>2, <2>3
<1>7. \A d \in I!Callers : d # c => place'[d] = place[d]
  BY <1>1 DEF IntakeInv, I!TypeOK
<1> QED BY <1>1, <1>3, <1>4, <1>5, <1>6, <1>7

(* A step that begins no run, and none to be begun.                        *)
LEMMA EventStays ==
  ASSUME EventInv,
         \A d \in Requests : /\ run'[d] = I!NoRun <=> run[d] = I!NoRun
                             /\ place[d] = "dead" => place'[d] = "dead"
                             /\ place'[d] = "start" => place[d] = "start"
                             /\ place'[d] \in {"start", "run", "note"} => lock'[I!LockOf(d)] = d
                             /\ run[d] # I!NoRun /\ place'[d] \notin {"run", "note", "dead"} => Noted(d)'
  PROVE  EventInv'
BY DEF EventInv, Lost, I!SameEvent, I!LockOf

(* What a step leaves to the other requests.                               *)
LEMMA OthersNote ==
  ASSUME I!CallersAreGiven, IntakeInv, EventInv, NEW c \in I!Callers, I!Step(c) \/ I!Enter(c) \/ I!Die(c)
  PROVE  \A d \in Requests : d # c =>
            /\ run'[d] = I!NoRun <=> run[d] = I!NoRun
            /\ place'[d] = place[d]
            /\ place[d] \in {"start", "run", "note"} => lock'[I!LockOf(d)] = d
            /\ run[d] # I!NoRun /\ place[d] \notin {"run", "note", "dead"} => Noted(d)'
<1> SUFFICES ASSUME NEW d \in Requests, d # c
             PROVE  /\ run'[d] = I!NoRun <=> run[d] = I!NoRun
                    /\ place'[d] = place[d]
                    /\ place[d] \in {"start", "run", "note"} => lock'[I!LockOf(d)] = d
                    /\ run[d] # I!NoRun /\ place[d] \notin {"run", "note", "dead"} => Noted(d)'
  OBVIOUS
<1>1. /\ d \in I!Starters /\ d \in I!Callers /\ I!LockOf(d) \in I!LockNames /\ d # None
      /\ EventOf[d] # None => EventOf[d] \in I!EventKeys
  BY NamesDiffer
<1>2. place[d] \in {"start", "run", "note"} => lock'[I!LockOf(d)] = d
  BY <1>1, StepsLeave DEF EventInv
<1>3. run[d] # I!NoRun /\ place[d] \notin {"run", "note", "dead"} => Noted(d)'
  BY <1>1, StepsLeave DEF EventInv, Noted
<1> QED BY <1>1, <1>2, <1>3, StepsLeave

(* A request finds the run of its event, unless that was lost.             *)
LEMMA FoundOrLost ==
  ASSUME I!CallersAreGiven, IntakeInv, EventInv, NEW c \in Requests, lock[I!LockOf(c)] = None, I!Found(c) = {},
         NEW d \in Requests, I!SameEvent(c, d), run[d] # I!NoRun
  PROVE  Lost(d, c)
<1>1. /\ d \in I!Starters /\ run[d].ref = RefOf[d] /\ RefOf[d] \in I!Refs /\ RefOf[c] \in I!Refs /\ d # None
      /\ I!LockOf(c) = I!LockOf(d)
  BY NamesDiffer DEF IntakeInv, RunsFit, I!SameEvent
<1>2. ~(EventOf[c] # None /\ event[EventOf[c]] # None) /\ I!RunsOf(RefOf[c]) = {}
  BY DEF I!Found
<1>3. RefOf[d] # RefOf[c]
  BY <1>1, <1>2 DEF I!RunsOf
<1>4. EventOf[c] # None /\ EventOf[d] = EventOf[c]
  BY <1>1, <1>3, NamesDiffer DEF I!LockOf, I!CallersAreGiven
<1>5. place[d] \notin {"run", "note"}
  BY <1>1 DEF EventInv
<1> QED BY <1>2, <1>3, <1>4, <1>5 DEF EventInv, Noted, Lost

(* Whatever a caller does, and its death, leaves so what is known of the   *)
(* events: who begins a run found none, and notes it before it lets go.    *)
LEMMA EventSteps ==
  ASSUME I!CallersAreGiven, IntakeInv, EventInv, NEW c \in I!Callers, I!Step(c) \/ I!Enter(c) \/ I!Die(c)
  PROVE  EventInv'
<1>1. CASE c \notin Requests
  BY <1>1, OthersNote, EventStays
<1>2. ASSUME c \in Requests PROVE /\ c \in I!Starters /\ I!LockOf(c) \in I!LockNames
                                  /\ EventOf[c] # None => EventOf[c] \in I!EventKeys
                                  /\ c \notin Posts \cup JobRuns \cup Webhooks
  BY <1>2, NamesDiffer
<1>3. CASE I!Start(c) /\ c \in Requests
  <2>1. place[c] = "start" /\ place'[c] = "run" /\ lock' = lock
    BY <1>3 DEF I!Start, I!Goto, IntakeInv, I!TypeOK
  <2>2. \A d \in Requests : I!SameEvent(c, d) /\ c # d /\ run[d] # I!NoRun => Lost(d, c)
    BY <1>3, <2>1 DEF EventInv
  <2> QED BY <1>3, <2>1, <2>2, OthersNote DEF EventInv, Lost, I!SameEvent, I!LockOf
<1>4. CASE I!OpenRequest(c) /\ place'[c] = "start"
  <2>1. /\ c \in Requests /\ place[c] = "idle" /\ I!Found(c) = {} /\ lock[I!LockOf(c)] = None
        /\ lock' = [lock EXCEPT ![I!LockOf(c)] = c] /\ run' = run
    BY <1>4 DEF I!OpenRequest, I!Goto, I!Take, I!tableVars, IntakeInv, I!TypeOK
  <2>2. lock'[I!LockOf(c)] = c /\ run[c] = I!NoRun
    BY <1>2, <2>1 DEF IntakeInv, I!TypeOK, RunsFit
  <2>3. \A d \in Requests : I!SameEvent(c, d) /\ run[d] # I!NoRun => Lost(d, c)
    BY <2>1, FoundOrLost
  <2> QED BY <1>4, <2>1, <2>2, <2>3, OthersNote DEF EventInv, Lost, I!SameEvent, I!LockOf
<1>5. CASE c \in Requests /\ ~I!Start(c) /\ ~(I!OpenRequest(c) /\ place'[c] = "start")
  <2>1. place[c] # "dead" /\ (run'[c] = I!NoRun <=> run[c] = I!NoRun)
    BY <1>2, <1>5, StepsLeave DEF I!Ended
  <2>2. CASE I!OpenRequest(c)
    <3>1. place[c] = "idle" /\ run[c] = I!NoRun
      BY <1>2, <1>5, <2>2 DEF I!OpenRequest, IntakeInv, RunsFit
    <3>2. place'[c] \in {"note", "conflict"} /\ (place'[c] = "note" => lock'[I!LockOf(c)] = c)
      BY <1>2, <1>5, <2>2 DEF I!OpenRequest, I!Goto, I!Take, IntakeInv, I!TypeOK
    <3> QED BY <2>1, <2>2, <3>1, <3>2, OthersNote, EventStays
  <2>3. CASE I!Run(c)
    <3>1. place[c] = "run" /\ place'[c] = "note" /\ lock' = lock
      BY <1>5, <2>3 DEF I!Run, I!Goto, IntakeInv, I!TypeOK
    <3>2. lock'[I!LockOf(c)] = c
      BY <1>5, <3>1 DEF EventInv
    <3> QED BY <2>1, <2>3, <3>1, <3>2, OthersNote, EventStays
  <2>4. CASE I!Note(c)
    <3>1. place[c] = "note" /\ place'[c] = "attempt" /\ at[c] # None
      BY <1>5, <2>4, RequestsDeal DEF I!Note, I!Goto, OfRequests, IntakeInv, I!TypeOK
    <3>2. Noted(c)'
      BY <1>2, <1>5, <2>4, <3>1 DEF I!Note, Noted, IntakeInv, I!TypeOK
    <3> QED BY <2>1, <2>4, <3>1, <3>2, OthersNote, EventStays
  <2>5. CASE I!Attempt(c) \/ I!Place(c) \/ I!Readback(c) \/ I!Record(c) \/ I!Tasks(c) \/ I!Procedure(c)
    <3>1. place[c] \in {"attempt", "place", "readback", "record", "tasks", "procedure"} /\ event' = event
      BY <2>5 DEF I!Attempt, I!Place, I!Readback, I!Record, I!Tasks, I!Procedure, I!Help, I!tableVars
    <3>2. place'[c] \in {"place", "readback", "record", "tasks", "procedure", "returned"}
      BY <2>5 DEF I!Attempt, I!Place, I!Readback, I!Record, I!Tasks, I!Procedure, I!Help, I!Goto, IntakeInv, I!TypeOK
    <3>3. run[c] # I!NoRun => Noted(c)'
      BY <1>5, <3>1 DEF EventInv, Noted
    <3> QED BY <2>1, <2>5, <3>2, <3>3, OthersNote, EventStays
  <2>6. CASE I!Die(c)
    <3>1. place'[c] = "dead"
      BY <2>6 DEF I!Die, I!Goto, IntakeInv, I!TypeOK
    <3> QED BY <2>1, <2>6, <3>1, OthersNote, EventStays
  <2>7. \A t \in I!Tickets : ~I!Webhook(c, t) /\ ~I!OpenTicket(c, t)
    BY <1>2, <1>5 DEF I!Webhook, I!OpenTicket
  <2> QED BY <1>5, <2>2, <2>3, <2>4, <2>5, <2>6, <2>7 DEF I!Step, I!Enter
<1> QED BY <1>1, <1>3, <1>4, <1>5

(* No step leaves an event with two runs but where one was lost.           *)
LEMMA EventNext == I!CallersAreGiven /\ IntakeInv /\ EventInv /\ [I!Next]_(I!vars) => EventInv'
<1>1. UNCHANGED I!vars /\ EventInv => EventInv'
  BY DEF I!vars, I!tableVars, I!callerVars, EventInv, Lost, Noted, I!SameEvent, I!LockOf
<1> QED BY <1>1, EventSteps DEF I!Next

(* A ticket has at most one run of its own.                                *)
LEMMA OneRunEach ==
  ASSUME I!CallersAreGiven, IntakeInv, NEW t \in I!Tickets
  PROVE  /\ Cardinality(I!RunsOf(t)) <= 1
         /\ t \notin Heard => I!RunsOf(t) = {}
<1>1. (\A x : Cardinality({x}) = 1) /\ Cardinality({}) = 0
  BY FS_Singleton, FS_EmptySet
<1>2. ASSUME t \notin Heard, NEW r \in I!RunsOf(t) PROVE FALSE
  <2>1. r \in I!Starters /\ run[r].ref = t /\ t # None
    BY NamesDiffer DEF I!RunsOf
  <2>2. run[r] # I!NoRun
    BY <2>1 DEF I!NoRun
  <2>3. r \in Requests => RefOf[r] \notin I!Tickets
    BY NamesDiffer
  <2> QED BY <1>2, <2>1, <2>2, <2>3 DEF IntakeInv, RunsFit
<1>3. \A r, s \in I!RunsOf(t) : r = s
  BY <1>2 DEF IntakeInv, RunsFit
<1>4. I!RunsOf(t) = {} \/ \E x : I!RunsOf(t) = {x}
  BY <1>3
<1>5. Cardinality(I!RunsOf(t)) = 0 \/ Cardinality(I!RunsOf(t)) = 1
  BY <1>1, <1>4, Zenon
<1> QED BY <1>2, <1>5

(* A ticket is the matter of one run, as long as nothing reports a ticket  *)
(* that was placed for one.                                                *)
LEMMA OneMatterEach ==
  ASSUME I!CallersAreGiven, ~Echo, IntakeInv, NEW t \in I!Tickets
  PROVE  Cardinality(I!Matter(t)) <= 1
<1>1. CASE t \in Raised
  <2>1. I!Matter(t) = I!RunsOf(t)
    BY <1>1, NamesDiffer DEF I!Matter
  <2> QED BY <2>1, OneRunEach
<1>2. CASE t \notin Raised
  <2>1. t \in Requests /\ t \notin Heard
    BY <1>2, NamesDiffer DEF I!Tickets
  <2>2. I!Matter(t) = {} \/ I!Matter(t) = {t}
    BY <2>1, OneRunEach DEF I!Matter
  <2>3. Cardinality({t}) = 1 /\ Cardinality({}) = 0
    BY FS_Singleton, FS_EmptySet
  <2>4. Cardinality(I!Matter(t)) = 0 \/ Cardinality(I!Matter(t)) = 1
    BY <2>2, <2>3, Zenon
  <2> QED BY <2>4
<1> QED BY <1>1, <1>2

(* What is served once, whatever is reported or repeated: a run gets at    *)
(* most one ticket and a ticket at most one run of its own; an event has   *)
(* two runs only where one of its deliveries died before it noted the      *)
(* event, and another brought a new reference.                             *)
ServedOnce ==
    /\ I!OneTicketPerRun
    /\ \A t \in I!Tickets : Cardinality(I!RunsOf(t)) <= 1
    /\ \A c, d \in Requests :
          I!SameEvent(c, d) /\ c # d /\ run[c] # I!NoRun /\ run[d] # I!NoRun =>
              RefOf[c] # RefOf[d] /\ "dead" \in {place[c], place[d]}

(* What the invariants come to.                                            *)
LEMMA IntakeInvShows ==
  ASSUME I!CallersAreGiven, IntakeInv
  PROVE  I!TypeOK /\ I!RequestsStayApart
<1>1. I!NobodyElses
  BY NamesDiffer DEF IntakeInv, I!NobodyElses, CallerFits
<1>2. I!AskedAtARealTicket
  BY DEF IntakeInv, I!AskedAtARealTicket, TicketFits, I!TypeOK
<1> QED BY <1>1, <1>2 DEF I!RequestsStayApart, IntakeInv

(* What is served once follows: where two runs are of one event, a caller  *)
(* died and another came under a new reference.                            *)
LEMMA EventInvShows ==
  ASSUME I!CallersAreGiven, IntakeInv, EventInv
  PROVE  ServedOnce /\ (I!KeysKeepRefs /\ ~Echo => I!OneOfEach)
<1>1. I!OneTicketPerRun
  BY DEF IntakeInv, I!OneTicketPerRun, TicketFits
<1>2. ServedOnce
  BY <1>1, OneRunEach DEF ServedOnce, EventInv, Lost
<1>3. ASSUME I!KeysKeepRefs, ~Echo PROVE I!OneOfEach
  <2>1. I!OneRunPerEvent
    <3> SUFFICES ASSUME NEW c \in Requests, NEW d \in Requests, I!SameEvent(c, d),
                        run[c] # I!NoRun, run[d] # I!NoRun, c # d
                 PROVE  FALSE
      BY DEF I!OneRunPerEvent
    <3>1. RefOf[c] = RefOf[d]
      BY <1>3, OneLockOneRef DEF I!SameEvent
    <3> QED BY <1>2, <3>1 DEF ServedOnce
  <2> QED BY <1>1, <1>3, <2>1, OneMatterEach, IntakeCounts DEF I!OneOfEach, I!OneRunPerTicket
<1> QED BY <1>2, <1>3

(* What is written of a ticket after it was tried is not written again.    *)
LEMMA OutcomeStays ==
  ASSUME I!CallersAreGiven, IntakeInv, [I!Next]_(I!vars)
  PROVE  \A r \in Requests : message[r] \notin {"none", "attempted"} => message'[r] = message[r]
<1>1. ASSUME NEW c \in I!Callers, I!Attempt(c), NEW r \in Requests, message[r] \notin {"none", "attempted"}
      PROVE  message'[r] = message[r]
  BY <1>1 DEF I!Attempt, IntakeInv, I!TypeOK
<1>2. ASSUME NEW c \in I!Callers, I!Record(c), NEW r \in Requests, message[r] \notin {"none", "attempted"}
      PROVE  message'[r] = message[r]
  <2>1. message[at[c]] = "attempted"
    BY <1>2 DEF I!Record, IntakeInv, PlacerFits, Placing
  <2> QED BY <1>2, <2>1 DEF I!Record, IntakeInv, I!TypeOK
<1>3. ASSUME NEW c \in I!Callers, I!Step(c), ~I!Attempt(c), ~I!Record(c) PROVE message' = message
  BY <1>3 DEF I!Step, I!Start, I!Run, I!Note, I!Place, I!Readback, I!Tasks, I!Procedure, I!Help, I!tableVars
<1>4. ASSUME NEW c \in I!Callers, I!Enter(c) \/ I!Die(c) PROVE message' = message
  BY <1>4 DEF I!Enter, I!Webhook, I!OpenTicket, I!FirstOfTicket, I!ContinueOf, I!DuplicateOf, I!OpenRequest, I!Die, I!tableVars
<1>5. UNCHANGED I!vars => message' = message
  BY DEF I!vars, I!tableVars
<1> QED BY <1>1, <1>2, <1>3, <1>4, <1>5 DEF I!Next

(* Requests, tickets and runs in every behaviour.                          *)
LEMMA IntakeHolds ==
  ASSUME I!CallersAreGiven
  PROVE  /\ I!Spec => [](I!TypeOK /\ I!RequestsStayApart) /\ I!OutcomeStands /\ []ServedOnce
         /\ I!KeysKeepRefs /\ ~Echo => (I!Spec => []I!OneOfEach)
<1>1. I!Spec => []IntakeInv
  BY IntakeStarts, IntakeKeeps, PTL DEF I!Spec
<1>2. I!Spec => [](I!TypeOK /\ I!RequestsStayApart)
  BY <1>1, IntakeInvShows, PTL
<1>3. I!Spec => I!OutcomeStands
  <2>1. IntakeInv /\ [I!Next]_(I!vars) =>
          [\A r \in Requests : message[r] \notin {"none", "attempted"} => message'[r] = message[r]]_(I!vars)
    BY OutcomeStays
  <2> QED BY <1>1, <2>1, PTL DEF I!Spec, I!OutcomeStands
<1>4. I!Spec => []EventInv
  <2>1. I!Init => EventInv
    BY NamesDiffer DEF I!Init, EventInv
  <2> QED BY <1>1, <2>1, EventNext, PTL DEF I!Spec
<1>5. I!Spec => []ServedOnce
  BY <1>1, <1>4, EventInvShows, PTL
<1>6. ASSUME I!KeysKeepRefs, ~Echo PROVE I!Spec => []I!OneOfEach
  <2>1. IntakeInv /\ EventInv => I!OneOfEach
    BY <1>6, EventInvShows
  <2> QED BY <1>1, <1>4, <2>1, PTL
<1> QED BY <1>2, <1>3, <1>5, <1>6

(* A request is served once, whatever is delivered again and wherever a    *)
(* caller dies: its run has at most one ticket, a ticket at most one run   *)
(* of its own, and a retry of its event gets the run that the event has,   *)
(* under a new reference too, unless the first caller died before it had   *)
(* noted the event.  Where a retry keeps its reference and nothing reports *)
(* the engine's tickets back, there is one of each without exception       *)
(* (intake.py, ticket_requests.py, webhook.py, jobs.py).                   *)
THEOREM RequestsAreServedOnce ==
  I!CallersAreGiven => /\ WorkSpec => []ServedOnce
                       /\ I!KeysKeepRefs /\ ~Echo => (WorkSpec => []OneOfEach)
<1>1. I!CallersAreGiven => (I!Spec => []ServedOnce)
  BY IntakeHolds
<1>2. I!CallersAreGiven => (WorkSpec => []ServedOnce)
  BY <1>1, EachKeepsToItself, PTL
<1>3. I!CallersAreGiven /\ I!KeysKeepRefs /\ ~Echo => (I!Spec => [](I!OneOfEach))
  BY IntakeHolds
<1>4. I!CallersAreGiven /\ I!KeysKeepRefs /\ ~Echo => (WorkSpec => []OneOfEach)
  BY <1>3, EachKeepsToItself, PTL DEF OneOfEach
<1> QED BY <1>2, <1>4

(* Whatever is delivered, echoed or repeated, a request works on a run of  *)
(* its own reference, and its row names a ticket that exists.              *)
THEOREM RequestsKeepApart == I!CallersAreGiven => (WorkSpec => []RequestsStayApart)
<1>1. I!CallersAreGiven => (I!Spec => [](I!TypeOK /\ I!RequestsStayApart))
  BY IntakeHolds
<1> QED BY <1>1, EachKeepsToItself, PTL DEF RequestsStayApart

(* No step takes back what a row says of a ticket.                         *)
THEOREM OutcomesStand == I!CallersAreGiven => (WorkSpec => OutcomeStands)
<1>1. I!CallersAreGiven => (I!Spec => I!OutcomeStands)
  BY IntakeHolds
<1> QED BY <1>1, EachKeepsToItself, PTL DEF OutcomeStands

-----------------------------------------------------------------------------
(* Discovery: a run is about the people that were meant.  Whoever was      *)
(* found answers to what was written, and the names written are nobody     *)
(* else's while the records stay.                                          *)

(* The module counts as FiniteSets does.                                   *)
LEMMA DiscoveryCounts == \A U : D!Cardinality(U) = Cardinality(U) /\ D!IsFiniteSet(U) = IsFiniteSet(U)
  BY DEF D!Cardinality, Cardinality, D!IsFiniteSet, IsFiniteSet

(* Of a mail only what its sender wrote has been read.                     *)
ReadsSender ==
    text.door = "email" =>
        intent["subject"] \in text.own.says \cup {None} /\ intent["peer"] \in text.own.says \cup {None}

(* Once a subject has been looked for: it was meant, if there is one, and  *)
(* a request that needs one has one or asks.                               *)
SubjectIsMeant ==
    stage \in {"peer", "record", "compile"} =>
        /\ found["subject"] # None => D!Meant("subject", found["subject"])
        /\ D!NeedsSubject /\ needs = {} => found["subject"] # None

(* The same of a peer, who is somebody else.                               *)
PeerIsMeant ==
    /\ stage \in {"read", "subject", "peer"} => found["peer"] = None
    /\ stage \in {"record", "compile"} =>
          /\ found["peer"] # None =>
                /\ D!Meant("peer", found["peer"]) /\ found["peer"] # found["subject"]
                /\ intent.intent = "access.same_as_peer"
          /\ intent.intent = "access.same_as_peer" /\ needs = {} => found["peer"] # None

(* While the records stay as they were, whoever was found was the only one *)
(* to be found, and nobody is asked for who was named by id.               *)
FoundAlone == \A r \in D!Roles : found[r] # None => D!Records(r) = {found[r]}
Unanswered(n) == n.role \in D!Roles /\ pins[n.role] # None => n.reason = "same_person"
WhileRecordsStay ==
    changes = 0 =>
        /\ directory = People /\ FoundAlone
        /\ \A n \in needs : Unanswered(n)
        /\ status = "needs_input" => \A n \in asking : Unanswered(n)

(* What a pass has made out at each of its stages; a run which is compiled *)
(* asks nothing and is about somebody.                                     *)
DiscoveryInv ==
    /\ D!TypeOK
    /\ ReadsSender /\ SubjectIsMeant /\ PeerIsMeant /\ WhileRecordsStay
    /\ stage = "compile" => needs = {} /\ found["subject"] # None
    /\ status # "running" => stage = "rest"

-----------------------------------------------------------------------------
(* The patterns take what they find, or nothing.                           *)
LEMMA HeuristicReads ==
  ASSUME NEW p
  PROVE  /\ D!Heuristic(p)["subject"] \in {p.subject, p.id, None}
         /\ D!Heuristic(p)["peer"] \in {p.peer, None}
         /\ D!Heuristic(p)["intent"] \in D!Intents
         /\ D!Heuristic(p) = [intent |-> D!Heuristic(p)["intent"], subject |-> D!Heuristic(p)["subject"],
                            peer |-> D!Heuristic(p)["peer"]]
  BY DEF D!Heuristic, D!Fields, D!Intents

(* What is made out of a text stands in it.                                *)
LEMMA ExtractedIsTyped == ASSUME D!Given, text \in Texts, NEW f \in D!Extracted PROVE f \in D!Intent
<1>1. D!ExtractorInput \in {text.own, text.whole}
  BY DEF D!ExtractorInput
<1>2. PICK p : p = D!ExtractorInput /\ {p.subject, p.peer, p.id} \cup p.says \subseteq D!Mentions \cup {None}
  BY <1>1 DEF D!Given
<1>3. CASE f = D!Heuristic(p)
  BY <1>2, <1>3, HeuristicReads DEF D!Intent
<1>4. CASE f \in D!Read(p)
  <2>1. f \in [intent : D!Intents, subject : p.says \cup {None}, peer : p.says \cup {None}]
    BY <1>4 DEF D!Read
  <2> QED BY <1>2, <2>1 DEF D!Intent
<1> QED BY <1>2, <1>3, <1>4 DEF D!Extracted

(* Nothing is made out of the quoted history of a mail.                    *)
LEMMA OnlyTheSender ==
  ASSUME D!Given, text \in Texts, text.door = "email", NEW f \in D!Extracted
  PROVE  f["subject"] \in text.own.says \cup {None} /\ f["peer"] \in text.own.says \cup {None}
<1>1. D!ExtractorInput = text.own
  BY DEF D!ExtractorInput
<1>2. CASE f = D!Heuristic(text.own)
  BY <1>2, HeuristicReads DEF D!Given
<1>3. CASE f \in D!Read(text.own)
  BY <1>3 DEF D!Read
<1> QED BY <1>1, <1>2, <1>3 DEF D!Extracted

(* Whoever is found is on record.                                          *)
LEMMA RecordsAreOfPeople ==
  ASSUME D!Given, DiscoveryInv, NEW r \in D!Roles
  PROVE  D!Records(r) \subseteq directory /\ D!Records(r) \subseteq People /\ IsFiniteSet(D!Records(r))
<1>1. D!Records(r) \subseteq directory
  BY DEF D!Records, D!Lookup
<1>2. directory \subseteq People
  BY DEF DiscoveryInv, D!TypeOK
<1> QED BY <1>1, <1>2, FS_Subset, DiscoveryCounts DEF D!Given

(* Exactly one record for a role is a record that was asked for.           *)
LEMMA FoundIsMeant ==
  ASSUME D!Given, DiscoveryInv, NEW r \in D!Roles
  PROVE  /\ D!One(r) # None => D!Meant(r, D!One(r)) /\ D!Records(r) = {D!One(r)} /\ D!One(r) \in People
         /\ \A p : D!Records(r) = {p} => D!One(r) = p
<1>1. ASSUME D!One(r) # None PROVE D!Meant(r, D!One(r)) /\ D!Records(r) = {D!One(r)} /\ D!One(r) \in People
  <2>1. Cardinality(D!Records(r)) = 1 /\ D!One(r) = CHOOSE p \in D!Records(r) : TRUE
    BY <1>1, DiscoveryCounts DEF D!One
  <2>2. PICK p : D!Records(r) = {p}
    BY <2>1, RecordsAreOfPeople, FS_Singleton
  <2>3. D!One(r) = p /\ p \in People
    BY <2>1, <2>2, RecordsAreOfPeople
  <2>4. D!Sought(r) # None /\ D!One(r) \in D!Lookup(D!Sought(r))
    BY <2>2, <2>3 DEF D!Records
  <2>5. D!One(r) = D!Sought(r) \/ FullName[D!One(r)] = D!Sought(r) \/ FirstName[D!One(r)] = D!Sought(r)
    BY <2>4 DEF D!Lookup
  <2>6. CASE pins[r] # None
    <3>1. pins[r] \in People /\ D!Sought(r) = pins[r]
      BY <2>6 DEF DiscoveryInv, D!TypeOK, D!Pin, D!Sought
    <3> QED BY <2>2, <2>3, <2>4, <2>6, <3>1 DEF D!Lookup, D!Meant
  <2>7. CASE pins[r] = None
    <3>1. D!Sought(r) = intent[r]
      BY <2>7 DEF D!Sought
    <3>2. text.door = "email" => intent[r] \in text.own.says
      BY <2>4, <3>1 DEF DiscoveryInv, ReadsSender, D!Roles
    <3> QED BY <2>2, <2>3, <2>5, <2>7, <3>1, <3>2 DEF D!Meant
  <2> QED BY <2>6, <2>7
<1>2. ASSUME NEW p, D!Records(r) = {p} PROVE D!One(r) = p
  <2>1. Cardinality(D!Records(r)) = 1
    BY <1>2, FS_Singleton
  <2> QED BY <1>2, <2>1, DiscoveryCounts DEF D!One
<1> QED BY <1>1, <1>2

(* Somebody named by id is found, as long as the records stay.             *)
LEMMA PinnedIsFound ==
  ASSUME D!Given, DiscoveryInv, changes = 0, NEW r \in D!Roles, pins[r] # None
  PROVE  D!One(r) # None
<1>1. pins[r] \in People /\ directory = People /\ D!Sought(r) = pins[r]
  BY DEF DiscoveryInv, D!TypeOK, D!Pin, D!Sought, WhileRecordsStay
<1>2. D!Records(r) = {pins[r]}
  BY <1>1 DEF D!Records, D!Lookup
<1> QED BY <1>2, FoundIsMeant

-----------------------------------------------------------------------------
(* Runs start with everybody on record and with nothing made out.          *)
LEMMA DiscoveryStarts == D!Given /\ D!Init => DiscoveryInv
<1> SUFFICES ASSUME D!Given, D!Init PROVE DiscoveryInv
  OBVIOUS
<1>1. pins \in D!Pin /\ found \in D!Pin
  BY DEF D!Init, D!NoOne, D!Pin
<1>2. intent \in D!Intent
  BY DEF D!Init, D!NotRead, D!Intent, D!Intents
<1>3. D!TypeOK
  BY <1>1, <1>2 DEF D!Init, D!TypeOK, D!Given
<1>4. \A r \in D!Roles : found[r] = None
  BY DEF D!Init, D!NoOne
<1> QED BY <1>3, <1>4 DEF D!Init, DiscoveryInv, D!NotRead, D!Roles, ReadsSender, SubjectIsMeant, PeerIsMeant, WhileRecordsStay, FoundAlone

(* A pass that begins has made nothing out.                                *)
LEMMA BeginsBlank ==
  ASSUME D!Given, DiscoveryInv, D!Anew, text' = text, directory' \subseteq People, pins' \in D!Pin, asking' = asking,
         status' = "running", changes' \in 0..MaxChanges, changes' = 0 => changes = 0 /\ directory' = directory,
         answered' \subseteq D!Roles
  PROVE  DiscoveryInv'
<1>1. found' \in D!Pin /\ \A r \in D!Roles : found'[r] = None
  BY DEF D!Anew, D!NoOne, D!Pin
<1>2. intent' \in D!Intent
  BY DEF D!Anew, D!NotRead, D!Intent, D!Intents
<1>3. D!TypeOK'
  BY <1>1, <1>2 DEF D!Anew, DiscoveryInv, D!TypeOK
<1>4. WhileRecordsStay'
  BY <1>1 DEF D!Anew, DiscoveryInv, WhileRecordsStay, FoundAlone
<1> QED BY <1>1, <1>3, <1>4 DEF D!Anew, DiscoveryInv, D!NotRead, D!Roles, ReadsSender, SubjectIsMeant, PeerIsMeant

(* Reading a request.                                                      *)
LEMMA Extracting == ASSUME D!Given, DiscoveryInv, D!Extract PROVE DiscoveryInv'
<1>1. /\ stage = "read" /\ stage' = "subject" /\ intent' \in D!Extracted /\ found' = D!NoOne
      /\ UNCHANGED <<text, directory, changes, status, pins, asking, answered>>
      /\ needs' \in {{}, {[role |-> "request", who |-> {}, reason |-> "unclear_request"]}}
  BY DEF D!Extract, D!given
<1>2. ReadsSender'
  BY <1>1, OnlyTheSender DEF DiscoveryInv, ReadsSender, D!TypeOK
<1>3. intent' \in D!Intent
  BY <1>1, ExtractedIsTyped DEF DiscoveryInv, D!TypeOK
<1>4. found' \in D!Pin /\ \A r \in D!Roles : found'[r] = None
  BY <1>1 DEF D!NoOne, D!Pin
<1>5. needs' \subseteq D!Need /\ \A n \in needs' : n.role \notin D!Roles
  BY <1>1 DEF D!Need, D!Roles
<1>6. D!TypeOK'
  BY <1>1, <1>3, <1>4, <1>5 DEF DiscoveryInv, D!TypeOK
<1>7. WhileRecordsStay'
  BY <1>1, <1>4, <1>5 DEF DiscoveryInv, WhileRecordsStay, FoundAlone, Unanswered
<1> QED BY <1>1, <1>2, <1>4, <1>6, <1>7 DEF DiscoveryInv, D!Roles, SubjectIsMeant, PeerIsMeant

(* What is asked is asked about people on record.                          *)
LEMMA NeedsArePeople == ASSUME D!Given, DiscoveryInv, NEW r \in D!Roles PROVE D!NeedOf(r) \in D!Need /\ D!NeedOf(r).role = r
  BY RecordsAreOfPeople DEF D!NeedOf, D!Need

(* Looking for the subject.                                                *)
LEMMA FindingSubject == ASSUME D!Given, DiscoveryInv, D!FindSubject PROVE DiscoveryInv'
<1>0. "subject" \in D!Roles /\ "peer" \in D!Roles /\ D!Roles = {"subject", "peer"}
  BY DEF D!Roles
<1>1. /\ stage = "subject" /\ stage' = "peer"
      /\ UNCHANGED <<text, directory, changes, status, pins, intent, asking, answered>>
      /\ found' = [found EXCEPT !["subject"] = D!One("subject")]
      /\ D!One("subject") # None => needs' = needs
      /\ needs' \in {needs, needs \cup {D!NeedOf("subject")}}
  BY DEF D!FindSubject, D!given
<1>2. D!One("subject") \in People \cup {None}
  BY <1>0, FoundIsMeant
<1>3. found'["subject"] = D!One("subject") /\ found'["peer"] = None /\ found' \in D!Pin
  BY <1>0, <1>1, <1>2 DEF DiscoveryInv, D!TypeOK, D!Pin, PeerIsMeant
<1>4. SubjectIsMeant'
  <2>1. ASSUME D!NeedsSubject, needs' = {} PROVE D!One("subject") # None
    BY <2>1 DEF D!FindSubject
  <2> QED BY <1>0, <1>1, <1>3, <2>1, FoundIsMeant DEF SubjectIsMeant, D!NeedsSubject, D!Meant
<1>5. D!TypeOK'
  BY <1>0, <1>1, <1>3, NeedsArePeople DEF DiscoveryInv, D!TypeOK
<1>6. WhileRecordsStay'
  <2> SUFFICES ASSUME changes' = 0
               PROVE  /\ directory' = People /\ FoundAlone'
                      /\ \A n \in needs' : Unanswered(n)'
                      /\ status' = "needs_input" => \A n \in asking' : Unanswered(n)'
    BY DEF WhileRecordsStay
  <2>1. \A r \in D!Roles : D!Records(r)' = D!Records(r)
    BY <1>1 DEF D!Records, D!Sought, D!Lookup
  <2>2. FoundAlone'
    <3>1. found'["subject"] # None => D!Records("subject") = {found'["subject"]}
      BY <1>0, <1>3, FoundIsMeant
    <3> QED BY <1>0, <1>3, <2>1, <3>1 DEF FoundAlone
  <2>3. pins["subject"] # None => needs' = needs
    BY <1>0, <1>1, PinnedIsFound
  <2>4. D!NeedOf("subject").role = "subject"
    BY DEF D!NeedOf
  <2> QED BY <1>1, <2>2, <2>3, <2>4 DEF DiscoveryInv, WhileRecordsStay, Unanswered
<1>7. PeerIsMeant' /\ ReadsSender'
  BY <1>1, <1>3 DEF DiscoveryInv, PeerIsMeant, ReadsSender
<1>8. status = "running"
  BY <1>1 DEF DiscoveryInv
<1> QED BY <1>1, <1>4, <1>5, <1>6, <1>7, <1>8 DEF DiscoveryInv

(* Looking for the peer.                                                   *)
LEMMA FindingPeer == ASSUME D!Given, DiscoveryInv, D!FindPeer PROVE DiscoveryInv'
<1>0. "subject" \in D!Roles /\ "peer" \in D!Roles /\ D!Roles = {"subject", "peer"}
  BY DEF D!Roles
<1>1. /\ stage = "peer" /\ stage' = "record"
      /\ UNCHANGED <<text, directory, changes, status, pins, intent, asking, answered>>
  BY DEF D!FindPeer, D!given
<1>2. found["peer"] = None /\ found \in D!Pin
  BY <1>1 DEF DiscoveryInv, PeerIsMeant, D!TypeOK
<1>3. \/ found' = found /\ (intent.intent = "access.same_as_peer" => D!One("peer") = None \/ D!SamePerson \in needs')
      \/ /\ found' = [found EXCEPT !["peer"] = D!One("peer")] /\ D!One("peer") # found["subject"]
         /\ D!One("peer") # None /\ intent.intent = "access.same_as_peer"
  BY DEF D!FindPeer
<1>4. /\ needs' \in {needs, needs \cup {D!NeedOf("peer")}, needs \cup {D!SamePerson}}
      /\ D!One("peer") # None => needs' \in {needs, needs \cup {D!SamePerson}}
      /\ intent.intent = "access.same_as_peer" /\ found' = found => needs' # {}
  <2>1. D!NeedOf("peer") \in needs \cup {D!NeedOf("peer")} /\ D!SamePerson \in needs \cup {D!SamePerson}
    OBVIOUS
  <2>2. D!One("peer") # None /\ found' = [found EXCEPT !["peer"] = D!One("peer")] => found' # found
    BY <1>2 DEF D!Pin, D!Roles
  <2> QED BY <2>1, <2>2 DEF D!FindPeer
<1>5. D!One("peer") \in People \cup {None}
  BY <1>0, FoundIsMeant
<1>6. found'["subject"] = found["subject"] /\ found' \in D!Pin
  BY <1>0, <1>2, <1>3, <1>5 DEF D!Pin
<1>7. SubjectIsMeant'
  BY <1>1, <1>4, <1>6 DEF DiscoveryInv, SubjectIsMeant, D!NeedsSubject, D!Meant
<1>8. PeerIsMeant'
  <2>1. CASE found' = found
    BY <1>1, <1>2, <1>4, <2>1 DEF PeerIsMeant
  <2>2. CASE found' = [found EXCEPT !["peer"] = D!One("peer")] /\ D!One("peer") # found["subject"]
             /\ D!One("peer") # None /\ intent.intent = "access.same_as_peer"
    <3>1. found'["peer"] = D!One("peer")
      BY <1>0, <1>2, <2>2 DEF D!Pin
    <3>2. D!Meant("peer", found'["peer"])
      BY <1>0, <2>2, <3>1, FoundIsMeant
    <3> QED BY <1>1, <1>6, <2>2, <3>1, <3>2 DEF PeerIsMeant, D!Meant
  <2> QED BY <1>3, <2>1, <2>2
<1>9. D!TypeOK'
  <2>1. D!SamePerson \in D!Need
    BY DEF D!SamePerson, D!Need, D!Roles
  <2>2. D!NeedOf("peer") \in D!Need
    BY <1>0, NeedsArePeople
  <2> QED BY <1>1, <1>4, <1>6, <2>1, <2>2 DEF DiscoveryInv, D!TypeOK
<1>10. WhileRecordsStay'
  <2> SUFFICES ASSUME changes' = 0
               PROVE  /\ directory' = People /\ FoundAlone'
                      /\ \A n \in needs' : Unanswered(n)'
                      /\ status' = "needs_input" => \A n \in asking' : Unanswered(n)'
    BY DEF WhileRecordsStay
  <2>1. \A r \in D!Roles : D!Records(r)' = D!Records(r)
    BY <1>1 DEF D!Records, D!Sought, D!Lookup
  <2>2. FoundAlone'
    <3>1. FoundAlone
      BY <1>1 DEF DiscoveryInv, WhileRecordsStay
    <3>2. found'["peer"] # None => D!Records("peer") = {found'["peer"]}
      BY <1>0, <1>2, <1>3, FoundIsMeant DEF D!Pin
    <3> QED BY <1>0, <1>6, <2>1, <3>1, <3>2 DEF FoundAlone
  <2>3. pins["peer"] # None => needs' \in {needs, needs \cup {D!SamePerson}}
    BY <1>0, <1>1, <1>4, PinnedIsFound
  <2>4. D!NeedOf("peer").role = "peer" /\ D!SamePerson.reason = "same_person"
    BY DEF D!NeedOf, D!SamePerson
  <2> QED BY <1>1, <1>4, <2>2, <2>3, <2>4 DEF DiscoveryInv, WhileRecordsStay, Unanswered
<1>11. status = "running"
  BY <1>1 DEF DiscoveryInv
<1> QED BY <1>1, <1>7, <1>8, <1>9, <1>10, <1>11 DEF DiscoveryInv, ReadsSender

(* Recording the outcome.                                                  *)
LEMMA Recording == ASSUME D!Given, DiscoveryInv, D!Record PROVE DiscoveryInv'
<1>1. /\ stage = "record" /\ asking' = needs
      /\ UNCHANGED <<text, directory, changes, pins, intent, found, needs, answered>>
      /\ \/ status' \in {"needs_input", "done"} /\ stage' = "rest"
         \/ needs = {} /\ found["subject"] # None /\ stage' = "compile" /\ status' = status
  BY DEF D!Record, D!given
<1>2. D!TypeOK'
  BY <1>1 DEF DiscoveryInv, D!TypeOK
<1>3. WhileRecordsStay'
  BY <1>1 DEF DiscoveryInv, WhileRecordsStay, FoundAlone, D!Records, D!Sought, D!Lookup, Unanswered
<1>4. status = "running"
  BY <1>1 DEF DiscoveryInv
<1> QED BY <1>1, <1>2, <1>3, <1>4 DEF DiscoveryInv, ReadsSender, SubjectIsMeant, PeerIsMeant, D!NeedsSubject, D!Meant

(* No step of a pass, of somebody who answers, or of the records breaks    *)
(* the invariant.                                                          *)
LEMMA DiscoveryKeeps == D!Given /\ DiscoveryInv /\ [D!Next]_(D!vars) => DiscoveryInv'
<1> SUFFICES ASSUME D!Given, DiscoveryInv, [D!Next]_(D!vars) PROVE DiscoveryInv'
  OBVIOUS
<1>1. CASE D!Pass
  BY <1>1, Extracting, FindingSubject, FindingPeer, Recording DEF D!Pass
<1>2. ASSUME NEW r \in D!Roles, NEW p \in People, D!Pick(r, p) PROVE DiscoveryInv'
  <2>1. pins' \in D!Pin
    BY <1>2 DEF D!Pick, D!NoOne, D!Pin
  <2>2. /\ D!Anew /\ text' = text /\ directory' = directory /\ changes' = changes /\ asking' = asking
        /\ status' = "running" /\ answered' = answered \cup {r}
    BY <1>2 DEF D!Pick, D!given
  <2>3. directory' \subseteq People /\ changes' \in 0..MaxChanges /\ answered' \subseteq D!Roles
    BY <2>2 DEF DiscoveryInv, D!TypeOK
  <2>4. changes' = 0 => changes = 0 /\ directory' = directory
    BY <2>2
  <2> QED BY <2>1, <2>2, <2>3, <2>4, BeginsBlank
<1>3. CASE D!PressButton
  <2>1. PICK n \in asking : n.role \in D!Roles /\ \E p \in n.who : D!Pick(n.role, p)
    BY <1>3 DEF D!PressButton
  <2>2. n.who \subseteq People
    BY <2>1 DEF DiscoveryInv, D!TypeOK, D!Need
  <2> QED BY <1>2, <2>1, <2>2
<1>4. CASE D!PickById
  BY <1>2, <1>4 DEF D!PickById
<1>5. D!Change => changes' \in 0..MaxChanges /\ changes' # 0
  BY DEF D!Change, DiscoveryInv, D!TypeOK, D!Given
<1>6. ASSUME NEW p \in People, D!RecordsChange(p) PROVE DiscoveryInv'
  <2>1. /\ directory' \subseteq People /\ changes' \in 0..MaxChanges /\ changes' # 0
        /\ UNCHANGED <<text, status, stage, pins, intent, found, needs, asking, answered>>
    BY <1>5, <1>6 DEF D!RecordsChange, DiscoveryInv, D!TypeOK
  <2>2. D!TypeOK'
    BY <2>1 DEF DiscoveryInv, D!TypeOK
  <2> QED BY <2>1, <2>2 DEF DiscoveryInv, WhileRecordsStay, ReadsSender, SubjectIsMeant, PeerIsMeant, D!NeedsSubject, D!Meant
<1>7. CASE D!BeginAgain
  <2>1. pins' \in D!Pin
    BY <1>7 DEF D!BeginAgain, D!NoOne, D!Pin
  <2>2. /\ D!Anew /\ text' = text /\ directory' = directory /\ asking' = asking
        /\ status' = "running" /\ answered' = answered
        /\ changes' \in 0..MaxChanges /\ changes' # 0
    BY <1>5, <1>7 DEF D!BeginAgain
  <2>3. directory' \subseteq People /\ answered' \subseteq D!Roles
    BY <2>2 DEF DiscoveryInv, D!TypeOK
  <2>4. changes' = 0 => changes = 0 /\ directory' = directory
    BY <2>2
  <2> QED BY <2>1, <2>2, <2>3, <2>4, BeginsBlank
<1>8. CASE UNCHANGED D!vars
  BY <1>8 DEF D!vars, DiscoveryInv, D!TypeOK, WhileRecordsStay, FoundAlone, Unanswered, D!Records, D!Sought, D!Lookup,
              ReadsSender, SubjectIsMeant, PeerIsMeant, D!NeedsSubject, D!Meant
<1> QED BY <1>1, <1>3, <1>4, <1>6, <1>7, <1>8 DEF D!Next

(* Who is found alone is not one of several.                               *)
LEMMA NobodyGuesses ==
  ASSUME D!Given, DiscoveryInv, changes = 0, NEW r \in D!Roles, found[r] # None, pins[r] = None,
         NEW p \in directory \ {found[r]}
  PROVE  /\ FullName[p] # intent[r]
         /\ FirstName[p] = intent[r] => intent[r] \in {found[r], FullName[found[r]]}
<1>1. D!Records(r) = {found[r]} /\ found[r] \in directory /\ directory \subseteq People
  BY RecordsAreOfPeople DEF DiscoveryInv, WhileRecordsStay, FoundAlone, D!TypeOK
<1>2. D!Lookup(intent[r]) = {found[r]}
  BY <1>1 DEF D!Records, D!Sought
<1>3. CASE intent[r] \in People
  <2>1. found[r] = intent[r]
    BY <1>2, <1>3 DEF D!Lookup
  <2> QED BY <1>1, <1>3, <2>1 DEF D!Given
<1>4. CASE intent[r] \notin People
  <2> DEFINE full == {q \in directory : FullName[q] = intent[r]}
  <2>1. IF full # {} THEN full = {found[r]} ELSE {q \in directory : FirstName[q] = intent[r]} = {found[r]}
    BY <1>2, <1>4 DEF D!Lookup
  <2> QED BY <2>1
<1> QED BY <1>3, <1>4

(* Who is looked for is who was meant, and nobody is asked twice.          *)
LEMMA DiscoveryHolds == ASSUME D!Given PROVE D!Spec => [](D!TypeOK /\ D!DiscoveryIsSound)
<1>1. DiscoveryInv => D!TypeOK /\ D!DiscoveryIsSound
  <2> SUFFICES ASSUME DiscoveryInv PROVE D!TypeOK /\ D!DiscoveryIsSound
    OBVIOUS
  <2>1. D!RightPeople
    BY DEF DiscoveryInv, SubjectIsMeant, PeerIsMeant, D!RightPeople
  <2>2. D!NobodyIsGuessed
    BY NobodyGuesses DEF D!NobodyIsGuessed
  <2>3. D!AnswersCount
    BY DEF DiscoveryInv, WhileRecordsStay, Unanswered, D!AnswersCount
  <2> QED BY <2>1, <2>2, <2>3 DEF DiscoveryInv, D!DiscoveryIsSound
<1> QED BY <1>1, DiscoveryStarts, DiscoveryKeeps, PTL DEF D!Spec


-----------------------------------------------------------------------------
(* CaseFile: a case has every rule once, with what is old and what is      *)
(* missing among its blockers.  A pass keeps that from stage to stage, for *)
(* the pages its process has loaded.                                       *)

(* The module counts as FiniteSets does.                                   *)
LEMMA CaseCounts == \A U : C!Cardinality(U) = Cardinality(U)
  BY DEF C!Cardinality, Cardinality

(* No two items share an id.                                               *)
Unique(items) == \A e, f \in items : e.id = f.id => e = f

(* An item of evidence, of a kind that has a budget.                       *)
Shaped(e) ==
    /\ e = [id |-> e.id, kind |-> e.kind, day |-> e.day, stale |-> e.stale]
    /\ e.kind \in DOMAIN Budget /\ e.day \in Int /\ e.stale \in BOOLEAN

PageKind(p) == IF p.type = "Precedent" THEN "precedent" ELSE "policy"

(* Where an item comes from: a record, the text of a rule, a page, or what *)
(* others wrote.                                                           *)
FromRecord(e) == (\E x : e.id = <<"hris", x>>) /\ e.kind = "record"
FromRule(e, books) == \E r \in Rules : e.id = <<"rule", r>> /\ e.kind = "policy" /\ e.day = C!RuleEvidence(books, r).day
FromPage(e, books) == \E p \in C!Concepts(books) : e.id = <<"page", p.path>> /\ e.kind = PageKind(p) /\ e.day = p.day
FromOthers(e) == \E x : \/ e.id = <<"sow", x>> /\ e.kind = "document"
                        \/ e.id = <<"message", x>> /\ e.kind = "message"
Sourced(e, books) == FromRecord(e) \/ FromRule(e, books) \/ FromPage(e, books) \/ FromOthers(e)

(* Every rule is there, and whatever is there comes from somewhere.        *)
Complete(items, books) ==
    /\ Unique(items)
    /\ \A e \in items : Shaped(e) /\ Sourced(e, books)
    /\ \A r \in Rules : \E e \in items : e.id = <<"rule", r>>

StaleNotes(items) == {<<"stale", e.id>> : e \in {f \in items : C!Blocks(f)}}

(* What is old has been marked, and blocks if it decides anything.         *)
Weighed(items, books, notes, day) ==
    /\ day \in Days
    /\ \A e \in items : e.stale = C!IsStale(e, day)
    /\ notes = C!MissingPolicy(books) \cup StaleNotes(items)

(* The constraints rest on the record and on the document.                 *)
Grounded(lines) ==
    /\ C!RecordLines(request.subject) \subseteq lines
    /\ \A line \in lines \ C!RecordLines(request.subject) : \E contract \in request.subject.sow : line[2] \in contract.spans

(* What holds of a sealed case, and of a pass at each of its stages.       *)
SealedWell ==
    sealed # C!NoCase =>
        /\ sealed.shelf \in Libraries
        /\ Complete(sealed.evidence, C!Loaded(sealed.shelf))
        /\ Weighed(sealed.evidence, C!Loaded(sealed.shelf), sealed.blockers, sealed.day)
        /\ Grounded(sealed.constraints)

Progress ==
    /\ compiling \in {"retrieve", "judge", "quote", "seal"} => Complete(gathered, C!Books)
    /\ compiling \in {"retrieve", "judge"} => blockers = C!MissingPolicy(C!Books)
    /\ compiling \in {"quote", "seal"} => Weighed(gathered, C!Books, blockers, judged)
    /\ compiling = "seal" => Grounded(quoted)

CaseInv == C!TypeOK /\ Progress /\ SealedWell

-----------------------------------------------------------------------------
(* Equal pairs have equal second members.                                  *)
LEMMA SecondsAgree == \A a, b, c, d : <<a, b>> = <<c, d>> => b = d
OBVIOUS

(* Merging keeps one of each id.                                           *)
LEMMA FirstIsUnique ==
    ASSUME NEW first, NEW then, Unique(first), Unique(then)
    PROVE  Unique(C!KeepFirst(first, then))
BY DEF Unique, C!KeepFirst

(* The records of the people of a case: one of each, of the right form.    *)
LEMMA RecordItems ==
    ASSUME C!Given, C!TypeOK, NEW books
    PROVE  /\ Unique(C!Records)
           /\ \A e \in C!Records : Shaped(e) /\ FromRecord(e)
<1> DEFINE people == {request.subject} \cup request.peers
<1>1. \A p \in people : C!RecordEvidence(p) = [id |-> <<"hris", p.id>>, kind |-> "record",
                                             day |-> IF p.day = C!Undated THEN today ELSE p.day, stale |-> FALSE]
  BY DEF C!RecordEvidence, C!Item
<1>2. \A p, q \in people : p.day \in Int /\ (p.id = q.id => p = q)
  BY DEF C!Given, C!TypeOK
<1>3. today \in Int /\ "record" \in DOMAIN Budget
  BY DEF C!Given, C!TypeOK
<1>4. Unique(C!Records)
  <2> SUFFICES ASSUME NEW e \in C!Records, NEW f \in C!Records, e.id = f.id PROVE e = f
    BY DEF Unique
  <2>1. PICK p \in people : e = C!RecordEvidence(p)
    BY DEF C!Records
  <2>2. PICK q \in people : f = C!RecordEvidence(q)
    BY DEF C!Records
  <2>3. e.id = <<"hris", p.id>> /\ f.id = <<"hris", q.id>>
    BY <1>1, <2>1, <2>2
  <2> QED BY <1>2, <2>1, <2>2, <2>3
<1>5. ASSUME NEW e \in C!Records PROVE Shaped(e) /\ FromRecord(e)
  <2>1. PICK p \in people : e = C!RecordEvidence(p)
    BY DEF C!Records
  <2>2. e.day \in Int
    BY <1>1, <1>2, <1>3, <2>1
  <2>3. e = [id |-> <<"hris", p.id>>, kind |-> "record",
             day |-> IF p.day = C!Undated THEN today ELSE p.day, stale |-> FALSE]
    BY <1>1, <2>1
  <2>4. FromRecord(e)
    BY <2>3 DEF FromRecord
  <2>5. Shaped(e)
    BY <1>3, <2>2, <2>3 DEF Shaped
  <2> QED BY <2>4, <2>5
<1> QED BY <1>4, <1>5

(* The pages that were loaded are those of a directory.                    *)
LEMMA PagesOfADirectory ==
    ASSUME C!Given, NEW library \in Libraries
    PROVE  /\ \A p, q \in C!Loaded(library) : p.day \in Int /\ (p.path = q.path => p = q)
           /\ \A p \in C!Loaded(library) : p.reserved => \A r \in Rules : Cites[r].page # p.path
BY DEF C!Given, C!Loaded

(* The evidence for the rules: one item for each of them.                  *)
LEMMA RuleItems ==
    ASSUME C!Given, NEW library \in Libraries
    PROVE  LET books == C!Loaded(library)
               items == {C!RuleEvidence(books, r) : r \in Rules}
           IN  /\ Unique(items)
               /\ \A e \in items : Shaped(e) /\ FromRule(e, books)
               /\ \A r \in Rules : \E e \in items : e.id = <<"rule", r>>
<1> DEFINE books == C!Loaded(library)
           items == {C!RuleEvidence(books, r) : r \in Rules}
           day(r) == IF C!ClausePages(books, r) = {} THEN C!Undated ELSE (CHOOSE p \in C!ClausePages(books, r) : TRUE).day
<1>1. \A r \in Rules : C!RuleEvidence(books, r) = [id |-> <<"rule", r>>, kind |-> "policy", day |-> day(r), stale |-> FALSE]
  BY DEF C!RuleEvidence, C!Item
<1>2. ASSUME NEW r \in Rules PROVE day(r) \in Int
  <2>1. CASE C!ClausePages(books, r) = {}
    BY <2>1 DEF C!Undated
  <2>2. CASE C!ClausePages(books, r) # {}
    <3>1. (CHOOSE p \in C!ClausePages(books, r) : TRUE) \in C!ClausePages(books, r)
      BY <2>2
    <3>2. (CHOOSE p \in C!ClausePages(books, r) : TRUE) \in books
      BY <3>1 DEF C!ClausePages
    <3> QED BY <2>2, <3>2, PagesOfADirectory
  <2> QED BY <2>1, <2>2
<1>3. "policy" \in DOMAIN Budget
  BY DEF C!Given
<1> HIDE DEF books, day
<1>4. Unique(items)
  <2> SUFFICES ASSUME NEW e \in items, NEW f \in items, e.id = f.id PROVE e = f
    BY DEF Unique
  <2>1. PICK r \in Rules : e = C!RuleEvidence(books, r)
    OBVIOUS
  <2>2. PICK q \in Rules : f = C!RuleEvidence(books, q)
    OBVIOUS
  <2>3. e.id = <<"rule", r>> /\ f.id = <<"rule", q>>
    BY <1>1, <2>1, <2>2
  <2>4. r = q
    BY <2>3, SecondsAgree
  <2> QED BY <2>1, <2>2, <2>4
<1>5. ASSUME NEW e \in items PROVE Shaped(e) /\ FromRule(e, books)
  <2>1. PICK r \in Rules : e = C!RuleEvidence(books, r)
    OBVIOUS
  <2>2. e.id = <<"rule", r>> /\ e.kind = "policy" /\ e.day = day(r) /\ e.stale = FALSE
    BY <1>1, <2>1
  <2>3. Shaped(e)
    BY <1>1, <1>2, <1>3, <2>1, <2>2 DEF Shaped
  <2>4. FromRule(e, books)
    BY <2>1, <2>2 DEF FromRule
  <2> QED BY <2>3, <2>4
<1>6. \A r \in Rules : C!RuleEvidence(books, r) \in items /\ C!RuleEvidence(books, r).id = <<"rule", r>>
  BY <1>1
<1> QED BY <1>4, <1>5, <1>6 DEF books

(* The evidence that pages are: one item for each, of its page's day and   *)
(* kind.                                                                   *)
LEMMA PageItems ==
    ASSUME C!Given, NEW library \in Libraries, NEW pages, pages \subseteq C!Concepts(C!Loaded(library))
    PROVE  LET items == {C!Item(<<"page", p.path>>, PageKind(p), p.day) : p \in pages}
           IN  /\ Unique(items)
               /\ \A e \in items : Shaped(e) /\ FromPage(e, C!Loaded(library))
<1> DEFINE books == C!Loaded(library)
           items == {C!Item(<<"page", p.path>>, PageKind(p), p.day) : p \in pages}
<1>1. \A p, q \in pages : p.day \in Int /\ (p.path = q.path => p = q)
  BY PagesOfADirectory DEF C!Concepts
<1>2. \A p : PageKind(p) \in DOMAIN Budget
  BY DEF C!Given, PageKind
<1>3. \A p : C!Item(<<"page", p.path>>, PageKind(p), p.day)
             = [id |-> <<"page", p.path>>, kind |-> PageKind(p), day |-> p.day, stale |-> FALSE]
  BY DEF C!Item
<1> HIDE DEF books
<1>4. Unique(items)
  <2> SUFFICES ASSUME NEW e \in items, NEW f \in items, e.id = f.id PROVE e = f
    BY DEF Unique
  <2>1. PICK p \in pages : e = C!Item(<<"page", p.path>>, PageKind(p), p.day)
    OBVIOUS
  <2>2. PICK q \in pages : f = C!Item(<<"page", q.path>>, PageKind(q), q.day)
    OBVIOUS
  <2>3. e.id = <<"page", p.path>> /\ f.id = <<"page", q.path>>
    BY <2>1, <2>2 DEF C!Item
  <2>4. p = q
    BY <1>1, <2>3, SecondsAgree
  <2> QED BY <2>1, <2>2, <2>4
<1>5. ASSUME NEW e \in items PROVE Shaped(e) /\ FromPage(e, books)
  <2>1. PICK p \in pages : e = C!Item(<<"page", p.path>>, PageKind(p), p.day)
    OBVIOUS
  <2>2. e.id = <<"page", p.path>> /\ e.kind = PageKind(p) /\ e.day = p.day /\ e.stale = FALSE
    BY <2>1 DEF C!Item
  <2>5. e = [id |-> e.id, kind |-> e.kind, day |-> e.day, stale |-> e.stale]
    BY <2>1 DEF C!Item
  <2>3. Shaped(e)
    BY <1>1, <1>2, <2>2, <2>5 DEF Shaped
  <2>4. FromPage(e, books)
    BY <2>2 DEF FromPage, books
  <2> QED BY <2>3, <2>4
<1> QED BY <1>4, <1>5 DEF books

(* The pages that compile.py takes for precedents are such evidence.       *)
LEMMA PrecedentsAreItems ==
    ASSUME C!Given, NEW library \in Libraries
    PROVE  LET items == C!PrecedentEvidence(C!Loaded(library))
           IN  Unique(items) /\ \A e \in items : Shaped(e) /\ FromPage(e, C!Loaded(library))
<1> DEFINE pages == {q \in C!Concepts(C!Loaded(library)) : q.type = "Precedent" /\ q.rules \cap Rules # {}}
<1>1. \A p \in pages : PageKind(p) = "precedent"
  BY DEF PageKind
<1>2. C!PrecedentEvidence(C!Loaded(library)) = {C!Item(<<"page", p.path>>, PageKind(p), p.day) : p \in pages}
  BY <1>1 DEF C!PrecedentEvidence
<1>3. pages \subseteq C!Concepts(C!Loaded(library))
  OBVIOUS
<1> HIDE DEF pages
<1> QED BY <1>2, <1>3, PageItems

(* So are the pages that query.py finds by their links.                    *)
LEMMA LinkedAreItems ==
    ASSUME C!Given, NEW library \in Libraries, NEW subject, NEW tags
    PROVE  LET items == C!ConceptEvidence(C!Loaded(library), subject, tags)
           IN  Unique(items) /\ \A e \in items : Shaped(e) /\ FromPage(e, C!Loaded(library))
<1> DEFINE pages == C!Linked(C!Loaded(library), subject, tags)
<1>2. C!ConceptEvidence(C!Loaded(library), subject, tags) = {C!Item(<<"page", p.path>>, PageKind(p), p.day) : p \in pages}
  BY DEF C!ConceptEvidence, PageKind
<1>3. pages \subseteq C!Concepts(C!Loaded(library))
  BY DEF C!Linked
<1> HIDE DEF pages
<1> QED BY <1>2, <1>3, PageItems

Apart(x, y) == \A e \in x, f \in y : e.id # f.id

(* Items of two sorts that share no id are unique together.                *)
LEMMA UnionIsUnique ==
    ASSUME NEW x, NEW y, Unique(x), Unique(y), Apart(x, y)
    PROVE  Unique(x \cup y)
BY DEF Unique, Apart

(* Records, rules, pages and what others wrote share no id.                *)
LEMMA KindsApart ==
    ASSUME NEW books, NEW e, NEW f
    PROVE  /\ FromRecord(e) /\ (FromRule(f, books) \/ FromPage(f, books) \/ FromOthers(f)) => e.id # f.id
           /\ FromRule(e, books) /\ (FromPage(f, books) \/ FromOthers(f)) => e.id # f.id
           /\ FromPage(e, books) /\ FromOthers(f) => e.id # f.id
BY DEF FromRecord, FromRule, FromPage, FromOthers

-----------------------------------------------------------------------------
(* Nothing is gathered yet.                                                *)
LEMMA CaseStarts == C!Given /\ C!Init => CaseInv
<1> SUFFICES ASSUME C!Given, C!Init PROVE CaseInv
  OBVIOUS
<1>1. today \in Days
  <2>1. \E d \in Days : \A e \in Days : d <= e
    BY DEF C!Given
  <2>2. (CHOOSE d \in Days : \A e \in Days : d <= e) \in Days
    BY <2>1
  <2> QED BY <2>2 DEF C!Init
<1>2. edits \in 0..MaxEdits
  BY SMT DEF C!Given, C!Init
<1>4. C!TypeOK
  BY <1>1, <1>2 DEF C!Init, C!TypeOK
<1> QED BY <1>4 DEF C!Init, CaseInv, Progress, SealedWell

(* What a pass holds is as good as it was while it stays.                  *)
LEMMA WorldSame ==
    ASSUME request' = request, shelf' = shelf, gathered' = gathered, quoted' = quoted, blockers' = blockers,
           judged' = judged, compiling' = compiling, sealed' = sealed, Progress, SealedWell
    PROVE  Progress' /\ SealedWell'
<1>1. C!Books' = C!Books
  BY DEF C!Books
<1>2. C!RecordLines(request'.subject) = C!RecordLines(request.subject)
  OBVIOUS
<1>3. Progress'
  BY <1>1, <1>2 DEF Progress, Complete, Weighed, Grounded, C!MissingPolicy, StaleNotes, C!Blocks, Sourced, Shaped, Unique
<1>4. SealedWell'
  BY <1>2 DEF SealedWell, Grounded
<1> QED BY <1>3, <1>4

(* A case that is sealed is not touched again.                             *)
LEMMA SealedStays ==
    ASSUME request' = request, sealed' = sealed, SealedWell
    PROVE  SealedWell'
BY DEF SealedWell, Grounded

(* gather_inputs: people, rules and precedents, one of each.               *)
LEMMA GatherKeeps == ASSUME C!Given, CaseInv, C!Gather PROVE CaseInv'
<1>1. /\ compiling' = "retrieve" /\ gathered' = C!Records \cup C!Policy /\ blockers' = C!MissingPolicy(C!Books)
      /\ request' = request /\ files' = files /\ edits' = edits /\ shelf' = shelf /\ today' = today /\ posted' = posted
      /\ quoted' = quoted /\ judged' = judged /\ sealed' = sealed
  BY DEF C!Gather, C!world
<1>2. shelf \in Libraries /\ C!TypeOK
  BY DEF CaseInv, C!TypeOK
<1> DEFINE rules == {C!RuleEvidence(C!Books, r) : r \in Rules}
<1>3. Unique(C!Records) /\ \A e \in C!Records : Shaped(e) /\ FromRecord(e)
  BY <1>2, RecordItems
<1>4. /\ Unique(rules) /\ (\A e \in rules : Shaped(e) /\ FromRule(e, C!Books))
      /\ \A r \in Rules : \E e \in rules : e.id = <<"rule", r>>
  BY <1>2, RuleItems DEF C!Books
<1>5. Unique(C!PrecedentEvidence(C!Books)) /\ \A e \in C!PrecedentEvidence(C!Books) : Shaped(e) /\ FromPage(e, C!Books)
  BY <1>2, PrecedentsAreItems DEF C!Books
<1>6. C!Policy = rules \cup C!PrecedentEvidence(C!Books)
  BY DEF C!Policy
<1> HIDE DEF rules
<1>7. Unique(C!Policy)
  BY <1>4, <1>5, <1>6, UnionIsUnique, KindsApart DEF Apart
<1>8. Apart(C!Records, C!Policy)
  BY <1>3, <1>4, <1>5, <1>6, KindsApart DEF Apart
<1>9. Complete(gathered', C!Books)
  <2>1. Unique(gathered')
    BY <1>1, <1>3, <1>7, <1>8, UnionIsUnique
  <2>2. \A e \in gathered' : Shaped(e) /\ Sourced(e, C!Books)
    BY <1>1, <1>3, <1>4, <1>5, <1>6 DEF Sourced
  <2>3. \A r \in Rules : \E e \in gathered' : e.id = <<"rule", r>>
    BY <1>1, <1>4, <1>6
  <2> QED BY <2>1, <2>2, <2>3 DEF Complete
<1>10. C!Books' = C!Books
  BY <1>1 DEF C!Books
<1>11. Progress'
  BY <1>1, <1>9, <1>10 DEF Progress
<1>12. C!TypeOK'
  BY <1>1, <1>2, <1>9 DEF C!TypeOK, Complete, Shaped
<1> QED BY <1>1, <1>11, <1>12, SealedStays DEF CaseInv

(* retrieve_evidence: what is found besides is merged with what there is.  *)
LEMMA RetrieveKeeps == ASSUME C!Given, CaseInv, C!Retrieve PROVE CaseInv'
<1> DEFINE pages == C!ConceptEvidence(C!Books, request.subject, request.tags)
           sow == C!Sow(request.subject)
           said(hits) == {C!Item(<<"message", m.id>>, "message", m.day) : m \in hits}
<1>1. PICK hits \in C!Hits : gathered' = C!KeepFirst(gathered, pages \cup sow \cup said(hits))
  BY DEF C!Retrieve
<1>2. /\ compiling = "retrieve" /\ compiling' = "judge"
      /\ request' = request /\ files' = files /\ edits' = edits /\ shelf' = shelf /\ today' = today /\ posted' = posted
      /\ quoted' = quoted /\ blockers' = blockers /\ judged' = judged /\ sealed' = sealed
  BY DEF C!Retrieve, C!world
<1>3. shelf \in Libraries /\ C!TypeOK /\ Complete(gathered, C!Books) /\ blockers = C!MissingPolicy(C!Books)
  BY <1>2 DEF CaseInv, C!TypeOK, Progress
<1>4. Unique(pages) /\ \A e \in pages : Shaped(e) /\ FromPage(e, C!Books)
  BY <1>3, LinkedAreItems DEF C!Books
<1>5. Unique(sow) /\ \A e \in sow : Shaped(e) /\ e.id = <<"sow", request.subject.id>> /\ e.kind = "document"
  <2>1. \A a, b \in request.subject.sow : a.day \in Int /\ a = b
    BY <1>3 DEF C!Given, C!TypeOK
  <2>2. \A e \in sow : \E a \in request.subject.sow :
            e = [id |-> <<"sow", request.subject.id>>, kind |-> "document", day |-> a.day, stale |-> FALSE]
    BY DEF C!Sow, C!Item
  <2>3. "document" \in DOMAIN Budget
    BY DEF C!Given
  <2>4. Unique(sow)
    BY <2>1, <2>2 DEF Unique
  <2>5. ASSUME NEW e \in sow PROVE Shaped(e) /\ e.id = <<"sow", request.subject.id>> /\ e.kind = "document"
    <3>1. PICK a \in request.subject.sow :
            e = [id |-> <<"sow", request.subject.id>>, kind |-> "document", day |-> a.day, stale |-> FALSE]
      BY <2>2
    <3> QED BY <2>1, <2>3, <3>1 DEF Shaped
  <2> QED BY <2>4, <2>5
<1>6. Unique(said(hits)) /\ \A e \in said(hits) : Shaped(e) /\ (\E x : e.id = <<"message", x>>) /\ e.kind = "message"
  <2>1. hits \subseteq Messages
    BY <1>3 DEF C!Hits, C!TypeOK
  <2>2. \A e \in said(hits) : \E m \in hits :
            e = [id |-> <<"message", m.id>>, kind |-> "message", day |-> m.day, stale |-> FALSE]
    BY DEF C!Item
  <2>3. "message" \in DOMAIN Budget
    BY DEF C!Given
  <2>4. \A m, n \in hits : m.day \in Int /\ (m.id = n.id => m = n)
    BY <2>1 DEF C!Given
  <2> HIDE DEF said
  <2>5. ASSUME NEW e \in said(hits), NEW f \in said(hits), e.id = f.id PROVE e = f
    <3>1. PICK m \in hits : e = [id |-> <<"message", m.id>>, kind |-> "message", day |-> m.day, stale |-> FALSE]
      BY <2>2
    <3>2. PICK n \in hits : f = [id |-> <<"message", n.id>>, kind |-> "message", day |-> n.day, stale |-> FALSE]
      BY <2>2
    <3>3. e.id = <<"message", m.id>> /\ f.id = <<"message", n.id>>
      BY <3>1, <3>2
    <3>4. m = n
      BY <2>4, <2>5, <3>3, SecondsAgree
    <3> QED BY <3>1, <3>2, <3>4
  <2>6. ASSUME NEW e \in said(hits) PROVE Shaped(e) /\ (\E x : e.id = <<"message", x>>) /\ e.kind = "message"
    <3>1. PICK m \in hits : e = [id |-> <<"message", m.id>>, kind |-> "message", day |-> m.day, stale |-> FALSE]
      BY <2>2
    <3> QED BY <2>3, <2>4, <3>1 DEF Shaped
  <2> QED BY <2>5, <2>6 DEF Unique
<1> HIDE DEF pages, sow, said
<1>7. \A e \in sow \cup said(hits) : FromOthers(e)
  BY <1>5, <1>6 DEF FromOthers
<1>8. Unique(sow \cup said(hits))
  BY <1>5, <1>6, UnionIsUnique DEF Apart
<1>9. Unique(pages \cup sow \cup said(hits))
  <2>1. Apart(pages, sow \cup said(hits))
    BY <1>4, <1>7, KindsApart DEF Apart
  <2>2. pages \cup sow \cup said(hits) = pages \cup (sow \cup said(hits))
    OBVIOUS
  <2> QED BY <1>4, <1>8, <2>1, <2>2, UnionIsUnique
<1>10. Complete(gathered', C!Books)
  <2>1. Unique(gathered')
    BY <1>1, <1>3, <1>9, FirstIsUnique DEF Complete
  <2>2. gathered \subseteq gathered' /\ gathered' \subseteq gathered \cup (pages \cup sow \cup said(hits))
    BY <1>1 DEF C!KeepFirst
  <2>3. \A e \in gathered' : Shaped(e) /\ Sourced(e, C!Books)
    BY <1>3, <1>4, <1>5, <1>6, <1>7, <2>2 DEF Sourced, Complete
  <2> QED BY <1>3, <2>1, <2>2, <2>3 DEF Complete
<1>11. C!Books' = C!Books
  BY <1>2 DEF C!Books
<1>12. Progress'
  BY <1>2, <1>3, <1>10, <1>11 DEF Progress
<1>13. C!TypeOK'
  BY <1>2, <1>3, <1>10 DEF C!TypeOK, Complete, Shaped
<1> QED BY <1>2, <1>12, <1>13, SealedStays DEF CaseInv

(* mark_stale: the same items, judged, and a blocker for each old one.     *)
LEMMA MarkStaleKeeps == ASSUME C!Given, CaseInv, C!MarkStale PROVE CaseInv'
<1>1. /\ compiling = "judge" /\ compiling' = "quote" /\ judged' = today /\ gathered' = C!Judged(gathered, today)
      /\ blockers' = blockers \cup StaleNotes(gathered')
      /\ request' = request /\ files' = files /\ edits' = edits /\ shelf' = shelf /\ today' = today /\ posted' = posted
      /\ quoted' = quoted /\ sealed' = sealed
  BY DEF C!MarkStale, C!world, StaleNotes
<1>2. shelf \in Libraries /\ C!TypeOK /\ Complete(gathered, C!Books) /\ blockers = C!MissingPolicy(C!Books)
  BY <1>1 DEF CaseInv, C!TypeOK, Progress
<1>3. \A e \in gathered : e.kind \in DOMAIN Budget /\ e.day \in Int /\ Shaped(e)
  BY <1>2 DEF Complete, Shaped
<1>4. \A e \in gathered : [e EXCEPT !.stale = C!IsStale(e, today)]
                          = [id |-> e.id, kind |-> e.kind, day |-> e.day, stale |-> C!IsStale(e, today)]
  <2> SUFFICES ASSUME NEW e \in gathered
               PROVE  [e EXCEPT !.stale = C!IsStale(e, today)]
                      = [id |-> e.id, kind |-> e.kind, day |-> e.day, stale |-> C!IsStale(e, today)]
    OBVIOUS
  <2>1. e = [id |-> e.id, kind |-> e.kind, day |-> e.day, stale |-> e.stale]
    BY <1>3 DEF Shaped
  <2> DEFINE i == e.id
             k == e.kind
             d == e.day
             s == e.stale
             t == C!IsStale(e, today)
  <2>2. e = [id |-> i, kind |-> k, day |-> d, stale |-> s]
    BY <2>1
  <2> HIDE DEF i, k, d, s, t
  <2>3. [e EXCEPT !.stale = t] = [id |-> i, kind |-> k, day |-> d, stale |-> t]
    BY <2>2
  <2> QED BY <2>3 DEF i, k, d, t
<1>5. \A f \in gathered' : \E e \in gathered :
          f = [id |-> e.id, kind |-> e.kind, day |-> e.day, stale |-> C!IsStale(e, today)]
  BY <1>1, <1>4 DEF C!Judged
<1>6. \A e \in gathered : \E f \in gathered' :
          f = [id |-> e.id, kind |-> e.kind, day |-> e.day, stale |-> C!IsStale(e, today)]
  <2> SUFFICES ASSUME NEW e \in gathered PROVE \E f \in gathered' :
          f = [id |-> e.id, kind |-> e.kind, day |-> e.day, stale |-> C!IsStale(e, today)]
    OBVIOUS
  <2>1. [e EXCEPT !.stale = C!IsStale(e, today)] \in gathered'
    BY <1>1 DEF C!Judged
  <2> QED BY <1>4, <2>1
<1>7. \A e : C!IsStale(e, today) \in BOOLEAN
  BY DEF C!IsStale
<1>8. ASSUME NEW f \in gathered'
      PROVE  \E e \in gathered : /\ f.id = e.id /\ f.kind = e.kind /\ f.day = e.day /\ f.stale = C!IsStale(e, today)
                                 /\ f = [id |-> e.id, kind |-> e.kind, day |-> e.day, stale |-> C!IsStale(e, today)]
  BY <1>5
<1>9. Complete(gathered', C!Books)
  <2>1. Unique(gathered')
    <3> SUFFICES ASSUME NEW f \in gathered', NEW g \in gathered', f.id = g.id PROVE f = g
      BY DEF Unique
    <3>1. PICK e \in gathered : f.id = e.id /\ f = [id |-> e.id, kind |-> e.kind, day |-> e.day, stale |-> C!IsStale(e, today)]
      BY <1>8
    <3>2. PICK h \in gathered : g.id = h.id /\ g = [id |-> h.id, kind |-> h.kind, day |-> h.day, stale |-> C!IsStale(h, today)]
      BY <1>8
    <3>3. e = h
      BY <1>2, <3>1, <3>2 DEF Complete, Unique
    <3> QED BY <3>1, <3>2, <3>3
  <2>2. ASSUME NEW f \in gathered' PROVE Shaped(f) /\ Sourced(f, C!Books)
    <3>1. PICK e \in gathered : /\ f.id = e.id /\ f.kind = e.kind /\ f.day = e.day /\ f.stale = C!IsStale(e, today)
                                /\ f = [id |-> e.id, kind |-> e.kind, day |-> e.day, stale |-> C!IsStale(e, today)]
      BY <1>8
    <3>2. Shaped(f)
      BY <1>3, <1>7, <3>1 DEF Shaped
    <3>3. Sourced(e, C!Books)
      BY <1>2 DEF Complete
    <3>4. Sourced(f, C!Books)
      BY <3>1, <3>3 DEF Sourced, FromRecord, FromRule, FromPage, FromOthers
    <3> QED BY <3>2, <3>4
  <2>3. ASSUME NEW r \in Rules PROVE \E f \in gathered' : f.id = <<"rule", r>>
    <3>1. PICK e \in gathered : e.id = <<"rule", r>>
      BY <1>2 DEF Complete
    <3>2. PICK f \in gathered' : f = [id |-> e.id, kind |-> e.kind, day |-> e.day, stale |-> C!IsStale(e, today)]
      BY <1>6
    <3> QED BY <3>1, <3>2
  <2> QED BY <2>1, <2>2, <2>3 DEF Complete
<1>10. \A f \in gathered' : f.stale = C!IsStale(f, today)
  BY <1>8 DEF C!IsStale
<1>11. C!Books' = C!Books
  BY <1>1 DEF C!Books
<1>12. Weighed(gathered', C!Books, blockers', judged')
  BY <1>1, <1>2, <1>10 DEF Weighed, C!TypeOK
<1>13. Progress'
  BY <1>1, <1>9, <1>11, <1>12 DEF Progress
<1>14. C!TypeOK'
  BY <1>1, <1>2, <1>9 DEF C!TypeOK, Complete, Shaped
<1> QED BY <1>1, <1>13, <1>14, SealedStays DEF CaseInv

(* extract_constraints: what the record says, and what the document does.  *)
LEMMA ExtractKeeps == ASSUME C!Given, CaseInv, C!ExtractConstraints PROVE CaseInv'
<1>1. /\ compiling = "quote" /\ compiling' = "seal" /\ gathered' = gathered /\ blockers' = blockers /\ judged' = judged
      /\ request' = request /\ files' = files /\ edits' = edits /\ shelf' = shelf /\ today' = today /\ posted' = posted
      /\ sealed' = sealed
  BY DEF C!ExtractConstraints, C!world
<1>2. C!Books' = C!Books
  BY <1>1 DEF C!Books
<1>3. Grounded(quoted')
  <2>1. CASE quoted' = C!RecordLines(request.subject)
    BY <2>1 DEF Grounded
  <2>2. CASE \E contract \in request.subject.sow, items \in SUBSET Spans :
                 quoted' = C!RecordLines(request.subject) \cup {<<"cited", q>> : q \in C!CheckQuotes(items, contract)}
    <3>1. PICK contract \in request.subject.sow, items \in SUBSET Spans :
                 quoted' = C!RecordLines(request.subject) \cup {<<"cited", q>> : q \in C!CheckQuotes(items, contract)}
      BY <2>2
    <3>2. ASSUME NEW line \in quoted' \ C!RecordLines(request.subject) PROVE line[2] \in contract.spans
      BY <3>1 DEF C!CheckQuotes
    <3> QED BY <3>1, <3>2 DEF Grounded
  <2> QED BY <2>1, <2>2 DEF C!ExtractConstraints
<1>4. Grounded(quoted)'
  BY <1>1, <1>3 DEF Grounded
<1>5. Complete(gathered, C!Books) /\ Weighed(gathered, C!Books, blockers, judged)
  BY <1>1 DEF CaseInv, Progress
<1>6. Progress'
  BY <1>1, <1>2, <1>4, <1>5 DEF Progress
<1>7. C!TypeOK'
  BY <1>1 DEF CaseInv, C!TypeOK
<1> QED BY <1>1, <1>6, <1>7, SealedStays DEF CaseInv

(* The case is what the pass has made out.                                 *)
LEMMA SealKeeps == ASSUME C!Given, CaseInv, C!Seal PROVE CaseInv'
<1>1. /\ compiling = "seal" /\ compiling' = "sealed" /\ gathered' = gathered /\ blockers' = blockers /\ judged' = judged
      /\ request' = request /\ files' = files /\ edits' = edits /\ shelf' = shelf /\ today' = today /\ posted' = posted
      /\ quoted' = quoted
      /\ sealed' = [evidence |-> gathered, constraints |-> quoted, blockers |-> blockers, day |-> judged, shelf |-> shelf]
  BY DEF C!Seal, C!world
<1>2. shelf \in Libraries /\ Complete(gathered, C!Books) /\ Weighed(gathered, C!Books, blockers, judged) /\ Grounded(quoted)
  BY <1>1 DEF CaseInv, C!TypeOK, Progress
<1>3. judged \in Days
  BY <1>2 DEF Weighed
<1>4. Grounded(quoted)'
  BY <1>1, <1>2 DEF Grounded
<1>5. SealedWell'
  <2>1. /\ sealed'.shelf = shelf /\ sealed'.evidence = gathered /\ sealed'.blockers = blockers
        /\ sealed'.day = judged /\ sealed'.constraints = quoted
    BY <1>1
  <2>2. Grounded(sealed.constraints)'
    BY <1>1, <1>2, <2>1 DEF Grounded
  <2> QED BY <1>2, <2>1, <2>2 DEF SealedWell, C!Books
<1>6. Progress'
  BY <1>1 DEF Progress
<1>7. C!TypeOK'
  BY <1>1, <1>3 DEF CaseInv, C!TypeOK
<1> QED BY <1>5, <1>6, <1>7 DEF CaseInv

(* The world around the pass does not touch it.                            *)
LEMMA WorldKeeps ==
    ASSUME C!Given, CaseInv, C!Tomorrow \/ (\E m \in Messages : C!PostMessage(m)) \/ (\E l \in Libraries : C!EditPages(l))
    PROVE  CaseInv'
<1>1. /\ request' = request /\ shelf' = shelf /\ gathered' = gathered /\ quoted' = quoted /\ blockers' = blockers
      /\ judged' = judged /\ compiling' = compiling /\ sealed' = sealed
  BY DEF C!Tomorrow, C!PostMessage, C!EditPages
<1>2. files' \in Libraries /\ edits' \in 0..MaxEdits
  <2>1. CASE \E l \in Libraries : C!EditPages(l)
    <3>1. PICK l \in Libraries : edits < MaxEdits /\ edits' = edits + 1 /\ files' = l
      BY <2>1 DEF C!EditPages
    <3>2. edits \in 0..MaxEdits /\ MaxEdits \in Nat
      BY DEF CaseInv, C!TypeOK, C!Given
    <3>3. edits' \in 0..MaxEdits
      BY <3>1, <3>2
    <3> QED BY <3>1, <3>3
  <2>2. CASE C!Tomorrow \/ \E m \in Messages : C!PostMessage(m)
    BY <2>2 DEF C!Tomorrow, C!PostMessage, CaseInv, C!TypeOK
  <2> QED BY <2>1, <2>2
<1>3. today' \in Days /\ posted' \subseteq Messages
  BY DEF C!Tomorrow, C!PostMessage, C!EditPages, CaseInv, C!TypeOK
<1>4. C!TypeOK'
  BY <1>1, <1>2, <1>3 DEF CaseInv, C!TypeOK
<1> QED BY <1>1, <1>4, WorldSame DEF CaseInv

(* A pass that begins again begins with nothing.                           *)
LEMMA RestartKeeps == ASSUME C!Given, CaseInv, C!Restart PROVE CaseInv'
<1>1. /\ request' = request /\ compiling' = "gather" /\ sealed' = sealed
  BY DEF C!Restart
<1>2. Progress'
  BY <1>1 DEF Progress
<1>3. C!TypeOK'
  BY DEF C!Restart, CaseInv, C!TypeOK
<1> QED BY <1>1, <1>2, <1>3, SealedStays DEF CaseInv

(* No step breaks the invariant.                                           *)
LEMMA CaseKeeps == C!Given /\ CaseInv /\ [C!Next]_(C!vars) => CaseInv'
<1> SUFFICES ASSUME C!Given, CaseInv, [C!Next]_(C!vars) PROVE CaseInv'
  OBVIOUS
<1>1. CASE UNCHANGED C!vars
  <2>1. /\ request' = request /\ shelf' = shelf /\ gathered' = gathered /\ quoted' = quoted /\ blockers' = blockers
        /\ judged' = judged /\ compiling' = compiling /\ sealed' = sealed
        /\ files' = files /\ edits' = edits /\ today' = today /\ posted' = posted
    BY <1>1 DEF C!vars
  <2>2. C!TypeOK'
    BY <2>1 DEF CaseInv, C!TypeOK
  <2> QED BY <2>1, <2>2, WorldSame DEF CaseInv
<1> QED BY <1>1, GatherKeeps, RetrieveKeeps, MarkStaleKeeps, ExtractKeeps, SealKeeps, WorldKeeps, RestartKeeps DEF C!Next

-----------------------------------------------------------------------------
(* On a day on which the lint finds nothing, no page is too old for what   *)
(* it is evidence of: the lint gives it no longer than compile.py does.    *)
LEMMA CleanIsFresh ==
    ASSUME C!Given, NEW library \in Libraries, NEW day \in Days, C!LintOK(library, day),
           NEW e, Shaped(e), e.stale = C!IsStale(e, day), C!Blocks(e),
           FromRule(e, C!Loaded(library)) \/ FromPage(e, C!Loaded(library)) \/ FromOthers(e)
    PROVE  FALSE
<1> DEFINE books == C!Loaded(library)
<1>1. e.day # C!Undated /\ day - e.day > Budget[e.kind] /\ e.kind \in C!Deciding
  BY DEF C!Blocks, C!IsStale
<1>2. day \in Int /\ e.day \in Int /\ Budget["policy"] \in Int /\ Budget["precedent"] \in Int
      /\ Budget["precedent"] <= Budget["policy"]
  BY DEF C!Given, Shaped
<1>3. \A p \in C!Concepts(books) : p.day # C!Undated /\ ~(day - p.day > C!LintBudget(p))
  BY DEF C!LintOK, C!OutOfDate
<1>4. \A r \in Rules : C!ClausePages(books, r) # {}
  <2>1. C!BadSources(books) = {}
    BY DEF C!LintOK
  <2> QED BY <2>1 DEF C!BadSources
<1>5. CASE FromRule(e, books)
  <2>1. PICK r \in Rules : e.kind = "policy" /\ e.day = C!RuleEvidence(books, r).day
    BY <1>5 DEF FromRule
  <2> DEFINE p == CHOOSE p \in C!ClausePages(books, r) : TRUE
  <2>2. p \in C!ClausePages(books, r)
    BY <1>4
  <2>3. e.day = p.day
    BY <1>4, <2>1 DEF C!RuleEvidence, C!Item
  <2>4. p \in books /\ p.path = Cites[r].page /\ C!HasMeta(p)
    BY <2>2 DEF C!ClausePages
  <2>5. p \in C!Concepts(books)
    BY <2>4, PagesOfADirectory DEF C!Concepts
  <2>6. ~(day - p.day > C!LintBudget(p))
    BY <1>3, <2>5
  <2>7. C!LintBudget(p) = Budget["policy"] \/ C!LintBudget(p) = Budget["precedent"]
    BY DEF C!LintBudget
  <2> HIDE DEF p
  <2> QED BY <1>1, <1>2, <2>1, <2>3, <2>6, <2>7
<1>6. CASE FromPage(e, books)
  <2>1. PICK p \in C!Concepts(books) : e.kind = PageKind(p) /\ e.day = p.day
    BY <1>6 DEF FromPage
  <2>2. C!LintBudget(p) = Budget[e.kind]
    BY <2>1 DEF C!LintBudget, PageKind
  <2> QED BY <1>1, <1>3, <2>1, <2>2
<1>7. CASE FromOthers(e)
  BY <1>1, <1>7 DEF FromOthers, C!Deciding
<1> QED BY <1>5, <1>6, <1>7

(* What the invariant says of the case.                                    *)
LEMMA CaseInvShows == C!Given /\ CaseInv => C!TypeOK /\ C!CaseIsSound
<1> SUFFICES ASSUME C!Given, CaseInv PROVE C!CaseIsSound
  BY DEF CaseInv
<1>1. CASE sealed = C!NoCase
  BY <1>1 DEF C!CaseIsSound, C!RulesAreQuoted, C!IdsAreUnique, C!OnlyOldEvidenceBlocks, C!CleanPagesNeverBlock,
              C!ConstraintsAreGrounded, C!NoCase
<1>2. CASE sealed # C!NoCase
  <2> DEFINE books == C!Loaded(sealed.shelf)
             items == sealed.evidence
             notes == sealed.blockers
             day == sealed.day
  <2>1. /\ sealed.shelf \in Libraries /\ Complete(items, books) /\ Weighed(items, books, notes, day)
        /\ Grounded(sealed.constraints)
    BY <1>2 DEF CaseInv, SealedWell
  <2>2. C!IdsAreUnique
    BY <2>1 DEF C!IdsAreUnique, Complete, Unique
  <2>3. ASSUME NEW r \in Rules
        PROVE  /\ Cardinality({e \in items : e.id = <<"rule", r>>}) = 1
               /\ <<"missing", r>> \in notes <=> C!ClausePages(books, r) = {}
    <3>1. PICK e \in items : e.id = <<"rule", r>>
      BY <2>1 DEF Complete
    <3>2. {f \in items : f.id = <<"rule", r>>} = {e}
      BY <2>1, <3>1 DEF Complete, Unique
    <3>3. Cardinality({e}) = 1
      BY FS_Singleton
    <3>4. notes = C!MissingPolicy(books) \cup StaleNotes(items)
      BY <2>1 DEF Weighed
    <3>5. <<"missing", r>> \notin StaleNotes(items)
      BY DEF StaleNotes
    <3>6. <<"missing", r>> \in C!MissingPolicy(books) <=> C!ClausePages(books, r) = {}
      BY DEF C!MissingPolicy
    <3> QED BY <3>2, <3>3, <3>4, <3>5, <3>6
  <2>4. C!RulesAreQuoted
    BY <2>3, CaseCounts DEF C!RulesAreQuoted
  <2>5. C!OnlyOldEvidenceBlocks
    <3> SUFFICES ASSUME NEW e \in items
                 PROVE  <<"stale", e.id>> \in notes <=>
                            e.kind \notin {"message", "document"} /\ e.day # C!Undated /\ day - e.day > Budget[e.kind]
      BY DEF C!OnlyOldEvidenceBlocks
    <3>1. notes = C!MissingPolicy(books) \cup StaleNotes(items) /\ e.stale = C!IsStale(e, day)
      BY <2>1 DEF Weighed
    <3>2. <<"stale", e.id>> \notin C!MissingPolicy(books)
      BY DEF C!MissingPolicy
    <3>3. <<"stale", e.id>> \in StaleNotes(items) <=> C!Blocks(e)
      <4>1. ASSUME <<"stale", e.id>> \in StaleNotes(items) PROVE C!Blocks(e)
        <5>1. PICK f \in items : C!Blocks(f) /\ <<"stale", e.id>> = <<"stale", f.id>>
          BY <4>1 DEF StaleNotes
        <5>2. e = f
          BY <2>1, <5>1 DEF Complete, Unique
        <5> QED BY <5>1, <5>2
      <4>2. ASSUME C!Blocks(e) PROVE <<"stale", e.id>> \in StaleNotes(items)
        BY <4>2 DEF StaleNotes
      <4> QED BY <4>1, <4>2
    <3>4. e.kind \in {"record", "policy", "precedent", "document", "message"}
      BY <2>1 DEF Complete, Shaped, C!Given
    <3>5. e.kind \in C!Deciding <=> e.kind \notin {"message", "document"}
      BY <3>4 DEF C!Deciding
    <3> QED BY <3>1, <3>2, <3>3, <3>5 DEF C!Blocks, C!IsStale
  <2>6. C!CleanPagesNeverBlock
    <3> SUFFICES ASSUME C!LintOK(sealed.shelf, day), NEW b \in notes
                 PROVE  b[1] = "stale" /\ b[2][1] = "hris"
      BY DEF C!CleanPagesNeverBlock
    <3>1. notes = C!MissingPolicy(books) \cup StaleNotes(items) /\ day \in Days
      BY <2>1 DEF Weighed
    <3>2. C!MissingPolicy(books) = {}
      <4>1. C!BadSources(books) = {}
        BY DEF C!LintOK
      <4> QED BY <4>1 DEF C!BadSources, C!MissingPolicy
    <3>3. PICK e \in items : C!Blocks(e) /\ b = <<"stale", e.id>>
      BY <3>1, <3>2 DEF StaleNotes
    <3>4. Shaped(e) /\ Sourced(e, books) /\ e.stale = C!IsStale(e, day)
      BY <2>1 DEF Complete, Weighed
    <3>5. FromRecord(e)
      BY <2>1, <3>1, <3>3, <3>4, CleanIsFresh DEF Sourced
    <3> QED BY <3>3, <3>5 DEF FromRecord
  <2>7. C!ConstraintsAreGrounded
    BY <2>1 DEF C!ConstraintsAreGrounded, Grounded
  <2> QED BY <2>2, <2>4, <2>5, <2>6, <2>7 DEF C!CaseIsSound
<1> QED BY <1>1, <1>2

(* Cases in every behaviour.                                               *)
LEMMA CaseHolds == C!Given => (C!Spec => [](C!TypeOK /\ C!CaseIsSound))
<1> SUFFICES ASSUME C!Given PROVE C!Spec => [](C!TypeOK /\ C!CaseIsSound)
  OBVIOUS
<1>1. C!Init => CaseInv
  BY CaseStarts
<1>2. CaseInv /\ [C!Next]_(C!vars) => CaseInv'
  BY CaseKeeps
<1>3. CaseInv => C!TypeOK /\ C!CaseIsSound
  BY CaseInvShows
<1> QED BY <1>1, <1>2, <1>3, PTL DEF C!Spec

(* A compiled run is about the people who were meant, and asks rather than *)
(* guesses; its case quotes every rule once or says that it is missing,    *)
(* blocks on old evidence and on nothing else, and takes a constraint only *)
(* from the record or out of the document (discover.py, compile.py).       *)
THEOREM CasesHold == D!Given /\ C!Given => (WorkSpec => []CasesAreSound)
<1>1. D!Given => (D!Spec => [](D!TypeOK /\ D!DiscoveryIsSound))
  BY DiscoveryHolds
<1>2. C!Given => (C!Spec => [](C!TypeOK /\ C!CaseIsSound))
  BY CaseHolds
<1> QED BY <1>1, <1>2, EachKeepsToItself, PTL DEF CasesAreSound

-----------------------------------------------------------------------------
(* Database: the audit chain, the locks and the connections.  Between the  *)
(* lock and the row the hash that was read is the last; what a session     *)
(* holds is what its script has by then, so that the order in which the    *)
(* scripts take their locks is the order in which sessions do.             *)

(* The module counts as FiniteSets does.                                   *)
LEMMA DatabaseCounts == \A U : B!Cardinality(U) = Cardinality(U)
  BY DEF B!Cardinality, Cardinality

-----------------------------------------------------------------------------
(* The inductive invariant.                                                *)

(* A lock comes with the transaction that took it.                         *)
ChainTypes ==
    /\ stmt \in [Sessions -> Int] /\ conns \in [Sessions -> Int] /\ seq \in Nat
    /\ DOMAIN held = Sessions /\ DOMAIN pending = Sessions /\ DOMAIN head = Sessions
    /\ \A s \in Sessions : \A k \in held[s] : k = <<k[1], k[2]>>

(* One transaction at most has the lock on the chain, ...                  *)
OneAppends ==
    \A s, t \in Sessions : \A k \in held[s], l \in held[t] :
        k[1] = B!Chain /\ l[1] = B!Chain => s = t /\ k[2] = l[2]

(* ... nobody else has rows that are not committed, ...                    *)
HasChainLock(s) == \E k \in held[s] : k[1] = B!Chain
PendingIsLocked == \A s \in Sessions : pending[s] # {} => HasChainLock(s)

(* ... and between the lock and the row the hash that was read is the      *)
(* last.                                                                   *)
Past(s, statement) == B!Running(s) /\ Script[s][stmt[s] - 1] = statement /\ stmt[s] > 1
RowsSeen(s) == audit \cup pending[s]
HeadIsLast ==
    \A s \in Sessions :
        /\ Past(s, B!Lock(B!Chain)) => <<B!Chain, conns[s]>> \in held[s]
        /\ Past(s, B!ReadHead) => <<B!Chain, conns[s]>> \in held[s] /\ B!IsLast(head[s], RowsSeen(s))

(* The sequence is beyond every row.                                       *)
RowsCounted ==
    /\ \A r \in audit : r.seq \in Nat /\ r.seq <= seq
    /\ \A s \in Sessions : \A r \in pending[s] : r.seq \in Nat /\ r.seq <= seq

(* What is committed is a chain, and so is what it would be with the rows  *)
(* of any one transaction.                                                 *)
Chained == B!Linear(audit) /\ \A s \in Sessions : B!Linear(RowsSeen(s))

ChainInv == ChainTypes /\ OneAppends /\ PendingIsLocked /\ HeadIsLast /\ RowsCounted /\ Chained

-----------------------------------------------------------------------------
(* Where a session comes to: past the statement it carried out.            *)
LEMMA StatementOver ==
    ASSUME ChainTypes, NEW s \in Sessions, NEW what, B!Comes(s, what), NEW t \in Sessions, NEW statement
    PROVE /\ Past(t, statement)' /\ t # s => Past(t, statement)
          /\ Past(s, statement)' => Script[s][stmt[s]] = statement /\ statement.do = what
  BY SMT DEF ChainTypes, B!Comes, Past, B!Running

(* Statements differ.                                                      *)
LEMMA StatementKinds == B!Lock(B!Chain).do = "lock" /\ B!ReadHead.do = "read" /\ B!Lock(B!Chain).on = B!Chain
  BY DEF B!Lock, B!ReadHead

(* A row after the last makes a chain of a chain.                          *)
LEMMA LongerChain ==
    ASSUME NEW rows, B!Linear(rows), NEW h, B!IsLast(h, rows), NEW n \in Nat,
           \A r \in rows : r.seq \in Nat /\ r.seq < n
    PROVE B!Linear(rows \cup {[seq |-> n, prev |-> h]})
<1> DEFINE new == [seq |-> n, prev |-> h]
           more == rows \cup {new}
<1>1. new.seq = n /\ new.prev = h
  OBVIOUS
<1>2. {q \in more : q.seq < new.seq} = rows
  BY <1>1, SMT
<1>3. ASSUME NEW r \in rows PROVE {q \in more : q.seq < r.seq} = {q \in rows : q.seq < r.seq}
  BY <1>1, <1>3, SMT
<1>4. ASSUME NEW r \in more PROVE B!IsLast(r.prev, {q \in more : q.seq < r.seq})
  <2>1. CASE r \in rows
    BY <2>1, <1>3 DEF B!Linear
  <2>2. CASE r = new
    BY <2>2, <1>1, <1>2
  <2> QED BY <2>1, <2>2
<1> QED BY <1>4 DEF B!Linear

-----------------------------------------------------------------------------
(* Nobody is connected, and the table is empty.                            *)
LEMMA ChainStarts == B!Init => ChainInv
<1> SUFFICES ASSUME B!Init PROVE ChainInv
  OBVIOUS
<1>1. ChainTypes /\ OneAppends /\ PendingIsLocked /\ RowsCounted
  BY DEF B!Init, ChainTypes, OneAppends, PendingIsLocked, HasChainLock, RowsCounted
<1>2. HeadIsLast
  BY SMT DEF B!Init, HeadIsLast, Past
<1>3. Chained
  BY DEF B!Init, Chained, B!Linear, RowsSeen
<1> QED BY <1>1, <1>2, <1>3 DEF ChainInv

(* A transaction more locks nothing.                                       *)
LEMMA ConnectKeeps == ASSUME ChainInv, NEW s \in Sessions, B!Connect(s) PROVE ChainInv'
<1>1. ChainTypes'
  BY SMT DEF ChainInv, ChainTypes, B!Connect, B!Comes
<1>2. OneAppends' /\ PendingIsLocked' /\ RowsCounted' /\ Chained'
  BY DEF ChainInv, B!Connect, OneAppends, PendingIsLocked, HasChainLock, RowsCounted, Chained, B!Linear, B!IsLast, RowsSeen
<1>3. HeadIsLast'
  <2> SUFFICES ASSUME NEW t \in Sessions PROVE
        /\ Past(t, B!Lock(B!Chain))' => <<B!Chain, conns'[t]>> \in held'[t]
        /\ Past(t, B!ReadHead)' => <<B!Chain, conns'[t]>> \in held'[t] /\ B!IsLast(head'[t], RowsSeen(t)')
    BY DEF HeadIsLast
  <2>1. CASE t = s
    BY <2>1, StatementOver, StatementKinds DEF ChainInv, B!Connect
  <2>2. CASE t # s
    <3>1. conns'[t] = conns[t] /\ held' = held /\ head' = head /\ RowsSeen(t)' = RowsSeen(t)
      BY <2>2 DEF ChainInv, ChainTypes, B!Connect, RowsSeen
    <3>2. Past(t, B!Lock(B!Chain))' => Past(t, B!Lock(B!Chain))
      BY <2>2, StatementOver DEF ChainInv, B!Connect
    <3>3. Past(t, B!ReadHead)' => Past(t, B!ReadHead)
      BY <2>2, StatementOver DEF ChainInv, B!Connect
    <3> QED BY <3>1, <3>2, <3>3 DEF ChainInv, HeadIsLast
  <2> QED BY <2>1, <2>2
<1> QED BY <1>1, <1>2, <1>3 DEF ChainInv

(* The lock on the chain is taken when nobody has it.                      *)
LEMMA TakeLockKeeps == ASSUME ChainInv, NEW s \in Sessions, B!TakeLock(s) PROVE ChainInv'
<1> DEFINE l == Script[s][stmt[s]].on
<1>1. /\ held' = [held EXCEPT ![s] = @ \cup {<<l, conns[s]>>}]
      /\ conns' = conns /\ audit' = audit /\ pending' = pending /\ head' = head /\ seq' = seq
      /\ \A t \in Sessions : \A k \in held[t] : k[1] = l => t = s /\ k[2] = conns[s]
  BY DEF B!TakeLock, B!Free
<1>2. held'[s] = held[s] \cup {<<l, conns[s]>>} /\ \A t \in Sessions \ {s} : held'[t] = held[t]
  BY <1>1 DEF ChainInv, ChainTypes
<1>3. ChainTypes'
  BY <1>1, SMT DEF ChainInv, ChainTypes, B!TakeLock, B!Comes
<1>4. OneAppends'
  <2> SUFFICES ASSUME NEW t \in Sessions, NEW u \in Sessions, NEW k \in held'[t], NEW m \in held'[u],
                      k[1] = B!Chain, m[1] = B!Chain
               PROVE t = u /\ k[2] = m[2]
    BY DEF OneAppends
  <2>1. k \in held[t] \/ (t = s /\ k = <<l, conns[s]>>)
    BY <1>2
  <2>2. m \in held[u] \/ (u = s /\ m = <<l, conns[s]>>)
    BY <1>2
  <2>3. CASE k \in held[t] /\ m \in held[u]
    BY <2>3 DEF ChainInv, OneAppends
  <2>4. CASE t = s /\ k = <<l, conns[s]>>
    BY <2>4, <2>2, <1>1
  <2>5. CASE u = s /\ m = <<l, conns[s]>>
    BY <2>5, <2>1, <1>1
  <2> QED BY <2>1, <2>2, <2>3, <2>4, <2>5
<1>5. PendingIsLocked'
  BY <1>1, <1>2 DEF ChainInv, PendingIsLocked, HasChainLock
<1>6. HeadIsLast'
  <2> SUFFICES ASSUME NEW t \in Sessions PROVE
        /\ Past(t, B!Lock(B!Chain))' => <<B!Chain, conns'[t]>> \in held'[t]
        /\ Past(t, B!ReadHead)' => <<B!Chain, conns'[t]>> \in held'[t] /\ B!IsLast(head'[t], RowsSeen(t)')
    BY DEF HeadIsLast
  <2>1. CASE t = s
    <3>1. ~Past(s, B!ReadHead)'
      BY StatementOver, StatementKinds DEF ChainInv, B!TakeLock
    <3>2. Past(s, B!Lock(B!Chain))' => l = B!Chain
      BY StatementOver, StatementKinds DEF ChainInv, B!TakeLock
    <3> QED BY <2>1, <3>1, <3>2, <1>1, <1>2
  <2>2. CASE t # s
    <3>1. RowsSeen(t)' = RowsSeen(t)
      BY <1>1 DEF RowsSeen
    <3>2. Past(t, B!Lock(B!Chain))' => Past(t, B!Lock(B!Chain))
      BY <2>2, StatementOver DEF ChainInv, B!TakeLock
    <3>3. Past(t, B!ReadHead)' => Past(t, B!ReadHead)
      BY <2>2, StatementOver DEF ChainInv, B!TakeLock
    <3> QED BY <1>1, <1>2, <2>2, <3>1, <3>2, <3>3 DEF ChainInv, HeadIsLast
  <2> QED BY <2>1, <2>2
<1>7. RowsCounted' /\ Chained'
  BY <1>1 DEF ChainInv, RowsCounted, Chained, B!Linear, B!IsLast, RowsSeen
<1> QED BY <1>3, <1>4, <1>5, <1>6, <1>7 DEF ChainInv

(* Who reads the last hash has the lock, and takes what is last.           *)
LEMMA SeeHeadKeeps == ASSUME B!AppendsUnderLock, ChainInv, NEW s \in Sessions, B!SeeHead(s) PROVE ChainInv'
<1>1. /\ held' = held /\ conns' = conns /\ audit' = audit /\ pending' = pending /\ seq' = seq
      /\ \A t \in Sessions \ {s} : head'[t] = head[t]
      /\ B!IsLast(head'[s], RowsSeen(s)) /\ DOMAIN head' = Sessions
  BY DEF B!SeeHead, RowsSeen, ChainInv, ChainTypes
<1>2. ChainTypes'
  BY <1>1, SMT DEF ChainInv, ChainTypes, B!SeeHead, B!Comes
<1>3. OneAppends' /\ PendingIsLocked' /\ RowsCounted' /\ Chained'
  BY <1>1 DEF ChainInv, OneAppends, PendingIsLocked, HasChainLock, RowsCounted, Chained, B!Linear, B!IsLast, RowsSeen
<1>4. <<B!Chain, conns[s]>> \in held[s]
  <2>1. B!Running(s) /\ Script[s][stmt[s]].do = "read"
    BY DEF B!SeeHead, B!Comes
  <2>2. stmt[s] > 1 /\ Script[s][stmt[s] - 1] = B!Lock(B!Chain)
    BY <2>1 DEF B!AppendsUnderLock, B!Running
  <2> QED BY <2>1, <2>2 DEF ChainInv, HeadIsLast, Past
<1>5. HeadIsLast'
  <2> SUFFICES ASSUME NEW t \in Sessions PROVE
        /\ Past(t, B!Lock(B!Chain))' => <<B!Chain, conns'[t]>> \in held'[t]
        /\ Past(t, B!ReadHead)' => <<B!Chain, conns'[t]>> \in held'[t] /\ B!IsLast(head'[t], RowsSeen(t)')
    BY DEF HeadIsLast
  <2>1. RowsSeen(t)' = RowsSeen(t)
    BY <1>1 DEF RowsSeen
  <2>2. CASE t = s
    BY <2>1, <2>2, <1>1, <1>4
  <2>3. CASE t # s
    <3>1. Past(t, B!Lock(B!Chain))' => Past(t, B!Lock(B!Chain))
      BY <2>3, StatementOver DEF ChainInv, B!SeeHead
    <3>2. Past(t, B!ReadHead)' => Past(t, B!ReadHead)
      BY <2>3, StatementOver DEF ChainInv, B!SeeHead
    <3> QED BY <1>1, <2>1, <2>3, <3>1, <3>2 DEF ChainInv, HeadIsLast
  <2> QED BY <2>2, <2>3
<1> QED BY <1>2, <1>3, <1>5 DEF ChainInv

(* Whoever has rows, or the lock, is the only one.                         *)
LEMMA OneHasRows ==
    ASSUME ChainInv, NEW s \in Sessions, HasChainLock(s), NEW t \in Sessions \ {s}
    PROVE ~HasChainLock(t) /\ pending[t] = {}
  BY DEF ChainInv, OneAppends, HasChainLock, PendingIsLocked

(* A row is inserted after the last, whatever becomes of the transaction.  *)
LEMMA InsertKeeps == ASSUME B!AppendsUnderLock, ChainInv, NEW s \in Sessions, B!Insert(s) PROVE ChainInv'
<1> DEFINE new == [seq |-> seq + 1, prev |-> head[s]]
<1>1. /\ held' = held /\ conns' = conns /\ audit' = audit /\ head' = head
      /\ pending'[s] = pending[s] \cup {new} /\ \A t \in Sessions \ {s} : pending'[t] = pending[t]
      /\ DOMAIN pending' = Sessions /\ seq' = seq + 1
  BY DEF B!Insert, ChainInv, ChainTypes
<1>2. ChainTypes'
  BY <1>1, SMT DEF ChainInv, ChainTypes, B!Insert, B!Comes
<1>3. <<B!Chain, conns[s]>> \in held[s] /\ B!IsLast(head[s], RowsSeen(s))
  <2>1. B!Running(s) /\ Script[s][stmt[s]].do = "insert"
    BY DEF B!Insert, B!Comes
  <2>2. stmt[s] > 1 /\ Script[s][stmt[s] - 1] = B!ReadHead
    BY <2>1 DEF B!AppendsUnderLock, B!Running
  <2> QED BY <2>1, <2>2 DEF ChainInv, HeadIsLast, Past
<1>4. HasChainLock(s)
  BY <1>3 DEF HasChainLock
<1>5. OneAppends' /\ PendingIsLocked'
  BY <1>1, <1>4 DEF ChainInv, OneAppends, PendingIsLocked, HasChainLock
<1>6. HeadIsLast'
  <2> SUFFICES ASSUME NEW t \in Sessions PROVE
        /\ Past(t, B!Lock(B!Chain))' => <<B!Chain, conns'[t]>> \in held'[t]
        /\ Past(t, B!ReadHead)' => <<B!Chain, conns'[t]>> \in held'[t] /\ B!IsLast(head'[t], RowsSeen(t)')
    BY DEF HeadIsLast
  <2>1. CASE t = s
    BY <2>1, StatementOver, StatementKinds DEF ChainInv, B!Insert
  <2>2. CASE t # s
    <3>1. RowsSeen(t)' = RowsSeen(t)
      BY <1>1, <2>2 DEF RowsSeen
    <3>2. Past(t, B!Lock(B!Chain))' => Past(t, B!Lock(B!Chain))
      BY <2>2, StatementOver DEF ChainInv, B!Insert
    <3>3. Past(t, B!ReadHead)' => Past(t, B!ReadHead)
      BY <2>2, StatementOver DEF ChainInv, B!Insert
    <3> QED BY <1>1, <3>1, <3>2, <3>3 DEF ChainInv, HeadIsLast
  <2> QED BY <2>1, <2>2
<1>7. RowsCounted'
  <2>1. new.seq = seq + 1 /\ seq \in Nat
    BY DEF ChainInv, ChainTypes
  <2>2. ASSUME NEW r \in audit' PROVE r.seq \in Nat /\ r.seq <= seq'
    BY <1>1, <2>1, SMT DEF ChainInv, RowsCounted
  <2>3. ASSUME NEW t \in Sessions, NEW r \in pending'[t] PROVE r.seq \in Nat /\ r.seq <= seq'
    <3>1. CASE r \in pending[t]
      BY <3>1, <1>1, <2>1, SMT DEF ChainInv, RowsCounted
    <3>2. CASE r = new
      BY <3>2, <1>1, <2>1, SMT
    <3> QED BY <1>1, <3>1, <3>2
  <2> QED BY <2>2, <2>3 DEF RowsCounted
<1>8. Chained'
  <2>1. B!Linear(audit')
    BY <1>1 DEF ChainInv, Chained
  <2>2. RowsSeen(s)' = RowsSeen(s) \cup {new}
    BY <1>1 DEF RowsSeen
  <2>3. \A r \in RowsSeen(s) : r.seq \in Nat /\ r.seq < seq + 1
    BY SMT DEF ChainInv, ChainTypes, RowsCounted, RowsSeen
  <2>4. B!Linear(RowsSeen(s) \cup {new})
    <3>1. B!Linear(RowsSeen(s)) /\ seq + 1 \in Nat
      BY SMT DEF ChainInv, ChainTypes, Chained
    <3> QED BY <3>1, <2>3, <1>3, LongerChain
  <2>5. ASSUME NEW t \in Sessions \ {s} PROVE RowsSeen(t)' = RowsSeen(t)
    BY <1>1 DEF RowsSeen
  <2>6. ASSUME NEW t \in Sessions PROVE B!Linear(RowsSeen(t)')
    BY <2>2, <2>4, <2>5 DEF ChainInv, Chained
  <2> QED BY <2>1, <2>6 DEF Chained, B!Linear
<1> QED BY <1>2, <1>5, <1>6, <1>7, <1>8 DEF ChainInv

(* A commit shows the rows of the one transaction that has any.            *)
LEMMA CommitKeeps == ASSUME ChainInv, NEW s \in Sessions, B!Commit(s) PROVE ChainInv'
<1>1. /\ held'[s] = held[s] \ B!Innermost(s) /\ \A t \in Sessions \ {s} : held'[t] = held[t]
      /\ \A t \in Sessions \ {s} : conns'[t] = conns[t] /\ pending'[t] = pending[t]
      /\ head' = head /\ seq' = seq
  BY DEF B!Commit, ChainInv, ChainTypes
<1>3. \A t \in Sessions : held'[t] \subseteq held[t]
  BY <1>1
<1>2. ChainTypes'
  BY <1>3, SMT DEF ChainInv, ChainTypes, B!Commit, B!Comes
<1>4. OneAppends'
  BY <1>3 DEF ChainInv, OneAppends
<1>5. \/ <<B!Chain, conns[s]>> \in held[s] /\ audit' = audit \cup pending[s] /\ pending'[s] = {}
      \/ <<B!Chain, conns[s]>> \notin held[s] /\ audit' = audit /\ pending' = pending
  BY DEF B!Commit, ChainInv, ChainTypes
<1>6. PendingIsLocked'
  <2> SUFFICES ASSUME NEW t \in Sessions, pending'[t] # {} PROVE \E k \in held'[t] : k[1] = B!Chain
    BY DEF PendingIsLocked, HasChainLock
  <2>1. CASE t # s
    BY <1>1, <2>1 DEF ChainInv, PendingIsLocked, HasChainLock
  <2>2. CASE t = s
    <3>1. <<B!Chain, conns[s]>> \notin held[s] /\ pending[s] # {}
      BY <1>5, <2>2
    <3>2. PICK k \in held[s] : k[1] = B!Chain
      BY <3>1 DEF ChainInv, PendingIsLocked, HasChainLock
    <3>3. k = <<B!Chain, k[2]>>
      BY <3>2 DEF ChainInv, ChainTypes
    <3>4. k \notin B!Innermost(s)
      BY <3>1, <3>3 DEF B!Innermost
    <3> QED BY <1>1, <2>2, <3>2, <3>4
  <2> QED BY <2>1, <2>2
<1>7. ASSUME NEW t \in Sessions, HasChainLock(t), t # s PROVE audit' = audit
  <2>1. ~HasChainLock(s)
    BY <1>7, OneHasRows
  <2> QED BY <2>1, <1>5 DEF HasChainLock
<1>8. HeadIsLast'
  <2> SUFFICES ASSUME NEW t \in Sessions PROVE
        /\ Past(t, B!Lock(B!Chain))' => <<B!Chain, conns'[t]>> \in held'[t]
        /\ Past(t, B!ReadHead)' => <<B!Chain, conns'[t]>> \in held'[t] /\ B!IsLast(head'[t], RowsSeen(t)')
    BY DEF HeadIsLast
  <2>1. CASE t = s
    BY <2>1, StatementOver, StatementKinds DEF ChainInv, B!Commit
  <2>2. CASE t # s
    <3>1. Past(t, B!Lock(B!Chain))' => Past(t, B!Lock(B!Chain))
      BY <2>2, StatementOver DEF ChainInv, B!Commit
    <3>2. Past(t, B!ReadHead)' => Past(t, B!ReadHead)
      BY <2>2, StatementOver DEF ChainInv, B!Commit
    <3>3. <<B!Chain, conns[t]>> \in held[t] => RowsSeen(t)' = RowsSeen(t)
      BY <1>1, <1>7, <2>2 DEF HasChainLock, RowsSeen
    <3> QED BY <1>1, <2>2, <3>1, <3>2, <3>3 DEF ChainInv, HeadIsLast
  <2> QED BY <2>1, <2>2
<1>9. RowsCounted'
  BY <1>1, <1>5 DEF ChainInv, RowsCounted
<1>10. Chained'
  <2>1. audit' = audit \/ audit' = RowsSeen(s)
    BY <1>5 DEF RowsSeen
  <2>2. B!Linear(audit')
    BY <2>1 DEF ChainInv, Chained
  <2>3. ASSUME NEW t \in Sessions PROVE B!Linear(RowsSeen(t)')
    <3>1. CASE RowsSeen(t)' = RowsSeen(t)
      BY <3>1 DEF ChainInv, Chained
    <3>2. CASE pending'[t] = {}
      BY <3>2, <2>2 DEF RowsSeen
    <3>3. CASE t # s /\ pending'[t] # {}
      <4>1. pending[t] # {} /\ HasChainLock(t)
        BY <3>3, <1>1 DEF ChainInv, PendingIsLocked
      <4> QED BY <4>1, <3>3, <3>1, <1>1, <1>7 DEF RowsSeen
    <3>4. CASE t = s /\ pending' = pending /\ audit' = audit
      BY <3>4, <3>1 DEF RowsSeen
    <3> QED BY <1>5, <3>2, <3>3, <3>4
  <2> QED BY <2>2, <2>3 DEF Chained, B!Linear
<1> QED BY <1>2, <1>4, <1>6, <1>8, <1>9, <1>10 DEF ChainInv

(* What is rolled back was never seen.                                     *)
LEMMA RollBackKeeps == ASSUME ChainInv, NEW s \in Sessions, B!RollBack(s) PROVE ChainInv'
<1>1. /\ held'[s] = {} /\ \A t \in Sessions \ {s} : held'[t] = held[t]
      /\ pending'[s] = {} /\ \A t \in Sessions \ {s} : pending'[t] = pending[t]
      /\ \A t \in Sessions \ {s} : conns'[t] = conns[t]
      /\ audit' = audit /\ head' = head /\ seq' = seq /\ stmt' = stmt /\ failed' = failed \cup {s}
  BY DEF B!RollBack, ChainInv, ChainTypes
<1>2. ChainTypes'
  BY <1>1, SMT DEF ChainInv, ChainTypes, B!RollBack
<1>3. OneAppends' /\ PendingIsLocked' /\ RowsCounted'
  BY <1>1 DEF ChainInv, OneAppends, PendingIsLocked, HasChainLock, RowsCounted
<1>4. ASSUME NEW t \in Sessions \ {s} PROVE RowsSeen(t)' = RowsSeen(t)
  BY <1>1 DEF RowsSeen
<1>5. HeadIsLast'
  <2> SUFFICES ASSUME NEW t \in Sessions PROVE
        /\ Past(t, B!Lock(B!Chain))' => <<B!Chain, conns'[t]>> \in held'[t]
        /\ Past(t, B!ReadHead)' => <<B!Chain, conns'[t]>> \in held'[t] /\ B!IsLast(head'[t], RowsSeen(t)')
    BY DEF HeadIsLast
  <2>1. CASE t = s
    BY <2>1, <1>1 DEF Past, B!Running
  <2>2. CASE t # s
    <3>1. Past(t, B!Lock(B!Chain))' => Past(t, B!Lock(B!Chain))
      BY <2>2, <1>1 DEF Past, B!Running
    <3>2. Past(t, B!ReadHead)' => Past(t, B!ReadHead)
      BY <2>2, <1>1 DEF Past, B!Running
    <3> QED BY <1>1, <1>4, <2>2, <3>1, <3>2 DEF ChainInv, HeadIsLast
  <2> QED BY <2>1, <2>2
<1>6. Chained'
  <2>1. RowsSeen(s)' = audit /\ audit' = audit
    BY <1>1 DEF RowsSeen
  <2>2. ASSUME NEW t \in Sessions PROVE B!Linear(RowsSeen(t)')
    BY <2>1, <1>4 DEF ChainInv, Chained
  <2> QED BY <2>1, <2>2 DEF ChainInv, Chained, B!Linear
<1> QED BY <1>2, <1>3, <1>5, <1>6 DEF ChainInv

(* No step breaks the invariant.                                           *)
LEMMA ChainKeeps == B!AppendsUnderLock /\ ChainInv /\ [B!Next]_(B!vars) => ChainInv'
<1> SUFFICES ASSUME B!AppendsUnderLock, ChainInv, [B!Next]_(B!vars) PROVE ChainInv'
  OBVIOUS
<1>1. ASSUME NEW s \in Sessions, B!Step(s) PROVE ChainInv'
  <2>1. CASE B!Connect(s)
    BY <2>1, ConnectKeeps
  <2>2. CASE B!TakeLock(s)
    BY <2>2, TakeLockKeeps
  <2>3. CASE B!SeeHead(s)
    BY <2>3, SeeHeadKeeps
  <2>4. CASE B!Insert(s)
    BY <2>4, InsertKeeps
  <2>5. CASE B!Commit(s)
    BY <2>5, CommitKeeps
  <2>6. CASE B!GiveUp(s) \/ B!Abort(s)
    BY <2>6, RollBackKeeps DEF B!GiveUp, B!Abort
  <2> QED BY <1>1, <2>1, <2>2, <2>3, <2>4, <2>5, <2>6 DEF B!Step
<1>2. ASSUME NEW s \in Sessions, B!Break(s) PROVE ChainInv'
  BY <1>2, RollBackKeeps DEF B!Break
<1>3. CASE UNCHANGED B!vars
  BY <1>3 DEF B!vars, ChainInv, ChainTypes, OneAppends, PendingIsLocked, HasChainLock, HeadIsLast, Past, B!Running, RowsSeen,
              RowsCounted, Chained, B!Linear, B!IsLast
<1> QED BY <1>1, <1>2, <1>3 DEF B!Next

-----------------------------------------------------------------------------
(* Any set of natural numbers with an element has a least one.             *)
LEMMA Least ==
  ASSUME NEW U, U \subseteq Nat, U # {}
  PROVE  \E i \in U : \A j \in U : i <= j
<1> DEFINE Below == OpToRel(<, Nat)
<1>1. IsWellFoundedOn(Below, Nat)
  BY Zenon, NatLessThanWellFounded
<1> HIDE DEF Below
<1>2. PICK x \in U : \A y \in U : ~ (<<y, x>> \in Below)
  BY <1>1, WFMin
<1>3. \A y \in U : y < x => <<y, x>> \in Below
  BY DEF Below, OpToRel
<1>4. x \in Nat /\ \A y \in U : y \in Nat
  OBVIOUS
<1>5. \A y \in U : ~(y < x)
  BY <1>2, <1>3
<1>6. \A y \in U : x <= y
  BY <1>4, <1>5, SMT
<1> QED BY <1>6


-----------------------------------------------------------------------------
(* How many statements of a kind there are before the statement n.         *)
Count(s, what, n) == Cardinality({j \in 1 .. n - 1 : Script[s][j].do = what})

(* One statement more is counted, or it is not.                            *)
LEMMA CountSteps ==
    ASSUME NEW s, NEW what, NEW i \in Nat \ {0}
    PROVE  /\ Count(s, what, 1) = 0 /\ Count(s, what, i) \in Nat
           /\ Script[s][i].do = what => Count(s, what, i + 1) = Count(s, what, i) + 1
           /\ Script[s][i].do # what => Count(s, what, i + 1) = Count(s, what, i)
<1> DEFINE before(n) == {j \in 1 .. n - 1 : Script[s][j].do = what}
<1>0. \A n : Count(s, what, n) = Cardinality(before(n))
  BY DEF Count
<1>1. before(1) = {}
  OBVIOUS
<1>2. IsFiniteSet(before(i)) /\ Cardinality(before(i)) \in Nat /\ i \notin before(i)
  <2>1. IsFiniteSet(1 .. i - 1)
    BY FS_Interval
  <2>2. before(i) \subseteq 1 .. i - 1
    OBVIOUS
  <2>3. IsFiniteSet(before(i))
    BY <2>1, <2>2, FS_Subset
  <2> QED BY <2>3, FS_CardinalityType
<1>3. 1 .. (i + 1) - 1 = (1 .. i - 1) \cup {i}
  OBVIOUS
<1>4. CASE Script[s][i].do = what
  <2>1. before(i + 1) = before(i) \cup {i}
    BY <1>3, <1>4
  <2> HIDE DEF before
  <2>2. Cardinality(before(i + 1)) = Cardinality(before(i)) + 1
    BY <1>2, <2>1, FS_AddElement
  <2>3. Cardinality(before(1)) = 0
    BY <1>1, FS_EmptySet
  <2> QED BY <1>0, <1>2, <1>4, <2>2, <2>3
<1>5. CASE Script[s][i].do # what
  <2>1. before(i + 1) = before(i)
    BY <1>3, <1>5
  <2>2. Cardinality(before(1)) = 0
    BY <1>1, FS_EmptySet
  <2> HIDE DEF before
  <2> QED BY <1>0, <1>2, <1>5, <2>1, <2>2
<1> QED BY <1>4, <1>5

(* How many connections a script has after a statement.                    *)
LEMMA DepthSteps ==
    ASSUME NEW s, NEW i \in Nat \ {0}
    PROVE  /\ B!Depth(s, 1) = 0 /\ B!Depth(s, i) \in Int
           /\ Script[s][i].do = "open" => B!Depth(s, i + 1) = B!Depth(s, i) + 1
           /\ Script[s][i].do = "close" => B!Depth(s, i + 1) = B!Depth(s, i) - 1
           /\ Script[s][i].do \notin {"open", "close"} => B!Depth(s, i + 1) = B!Depth(s, i)
<1>1. /\ Count(s, "open", 1) = 0 /\ Count(s, "open", i) \in Nat
      /\ Script[s][i].do = "open" => Count(s, "open", i + 1) = Count(s, "open", i) + 1
      /\ Script[s][i].do # "open" => Count(s, "open", i + 1) = Count(s, "open", i)
  BY CountSteps
<1>2. /\ Count(s, "close", 1) = 0 /\ Count(s, "close", i) \in Nat
      /\ Script[s][i].do = "close" => Count(s, "close", i + 1) = Count(s, "close", i) + 1
      /\ Script[s][i].do # "close" => Count(s, "close", i + 1) = Count(s, "close", i)
  BY CountSteps
<1>3. \A n : B!Depth(s, n) = Count(s, "open", n) - Count(s, "close", n)
  BY DatabaseCounts DEF B!Depth, Count
<1> QED BY <1>1, <1>2, <1>3

(* The lock that statement j took lasts until statement i.                 *)
Lasts(s, i, j) ==
    j \in 1 .. i - 1 /\ Script[s][j].do = "lock" /\ \A k \in j .. i - 1 : B!Depth(s, k + 1) >= B!Depth(s, j)

(* The locks a script has are those that last.                             *)
LEMMA KeptIsLasting ==
    ASSUME NEW s, NEW i
    PROVE  \A k : k \in B!Kept(s, i) <=> \E j : Lasts(s, i, j) /\ k = <<Script[s][j].on, B!Depth(s, j)>>
<1>1. ASSUME NEW k PROVE k \in B!Kept(s, i) <=> \E j : Lasts(s, i, j) /\ k = <<Script[s][j].on, B!Depth(s, j)>>
  <2>1. ASSUME k \in B!Kept(s, i) PROVE \E j : Lasts(s, i, j) /\ k = <<Script[s][j].on, B!Depth(s, j)>>
    BY <2>1 DEF B!Kept, Lasts
  <2>2. ASSUME NEW j, Lasts(s, i, j), k = <<Script[s][j].on, B!Depth(s, j)>> PROVE k \in B!Kept(s, i)
    BY <2>2 DEF B!Kept, Lasts
  <2> QED BY <2>1, <2>2
<1> QED BY <1>1

(* What lasts beyond a statement: what lasted, unless the statement ends   *)
(* its transaction, and the lock it takes.                                 *)
LEMMA LastsSteps ==
    ASSUME NEW s, NEW i \in Nat \ {0}, NEW j
    PROVE  Lasts(s, i + 1, j) <=>
               \/ Lasts(s, i, j) /\ B!Depth(s, i + 1) >= B!Depth(s, j)
               \/ j = i /\ Script[s][i].do = "lock"
<1>1. ASSUME Lasts(s, i + 1, j), j # i PROVE Lasts(s, i, j) /\ B!Depth(s, i + 1) >= B!Depth(s, j)
  <2>1. j \in 1 .. i - 1
    BY <1>1, SMT DEF Lasts
  <2>2. \A k \in j .. i : B!Depth(s, k + 1) >= B!Depth(s, j)
    <3>1. (i + 1) - 1 = i
      OBVIOUS
    <3> QED BY <1>1, <3>1 DEF Lasts
  <2>3. \A k \in j .. i - 1 : k \in j .. i
    OBVIOUS
  <2>4. i \in j .. i
    BY <2>1
  <2> QED BY <1>1, <2>1, <2>2, <2>3, <2>4 DEF Lasts
<1>2. ASSUME Lasts(s, i, j), B!Depth(s, i + 1) >= B!Depth(s, j) PROVE Lasts(s, i + 1, j)
  <2>1. j \in 1 .. i - 1 /\ j \in 1 .. (i + 1) - 1
    BY <1>2, SMT DEF Lasts
  <2>2. ASSUME NEW k \in j .. (i + 1) - 1 PROVE k = i \/ k \in j .. i - 1
    BY <2>1
  <2> QED BY <1>2, <2>1, <2>2 DEF Lasts
<1>3. ASSUME j = i, Script[s][i].do = "lock" PROVE Lasts(s, i + 1, j)
  <2>1. i \in 1 .. (i + 1) - 1
    OBVIOUS
  <2>2. \A k \in i .. (i + 1) - 1 : k = i
    OBVIOUS
  <2>3. B!Depth(s, i + 1) = B!Depth(s, i) /\ B!Depth(s, i) \in Int
    BY <1>3, DepthSteps
  <2>4. B!Depth(s, i + 1) >= B!Depth(s, i)
    BY <2>3
  <2> QED BY <1>3, <2>1, <2>2, <2>4 DEF Lasts
<1>4. Lasts(s, i + 1, j) /\ j = i => Script[s][i].do = "lock"
  BY DEF Lasts
<1> QED BY <1>1, <1>2, <1>3, <1>4

(* A lock that lasts was taken by a transaction that is not over.          *)
LEMMA LastingIsBelow ==
    ASSUME NEW s, NEW i \in Nat \ {0}, NEW j, Lasts(s, i, j)
    PROVE  B!Depth(s, j) \in Int /\ B!Depth(s, j) <= B!Depth(s, i) /\ j \in 1 .. i - 1
<1>1. j \in 1 .. i - 1 /\ i - 1 \in j .. i - 1 /\ (i - 1) + 1 = i /\ j \in Nat \ {0}
  BY SMT DEF Lasts
<1>2. B!Depth(s, (i - 1) + 1) >= B!Depth(s, j)
  BY <1>1 DEF Lasts
<1>3. B!Depth(s, j) \in Int /\ B!Depth(s, i) \in Int
  BY <1>1, DepthSteps
<1> QED BY <1>1, <1>2, <1>3

(* Which locks a script has after a statement.                             *)
LEMMA KeptSteps ==
    ASSUME NEW s, NEW i \in Nat \ {0}
    PROVE  /\ B!Kept(s, 1) = {}
           /\ Script[s][i].do \notin {"lock", "close"} => B!Kept(s, i + 1) = B!Kept(s, i)
           /\ Script[s][i].do = "lock" => B!Kept(s, i + 1) = B!Kept(s, i) \cup {<<Script[s][i].on, B!Depth(s, i)>>}
           /\ Script[s][i].do = "close" => B!Kept(s, i + 1) = B!Kept(s, i) \ {k \in B!Kept(s, i) : k[2] = B!Depth(s, i)}
<1>1. B!Kept(s, 1) = {}
  BY DEF B!Kept
<1>2. B!Depth(s, i) \in Int
  BY DepthSteps
<1>3. ASSUME Script[s][i].do # "close", NEW j, Lasts(s, i, j) PROVE B!Depth(s, i + 1) >= B!Depth(s, j)
  <2>1. B!Depth(s, i + 1) = B!Depth(s, i) \/ B!Depth(s, i + 1) = B!Depth(s, i) + 1
    BY <1>3, DepthSteps
  <2>2. B!Depth(s, j) \in Int /\ B!Depth(s, j) <= B!Depth(s, i)
    BY <1>3, LastingIsBelow
  <2> QED BY <1>2, <2>1, <2>2
<1>4. ASSUME Script[s][i].do \notin {"lock", "close"} PROVE B!Kept(s, i + 1) = B!Kept(s, i)
  <2>1. \A j : Lasts(s, i + 1, j) <=> Lasts(s, i, j)
    BY <1>3, <1>4, LastsSteps
  <2>2. \A k : k \in B!Kept(s, i + 1) <=> k \in B!Kept(s, i)
    BY <2>1, KeptIsLasting
  <2> QED BY <2>2
<1>5. ASSUME Script[s][i].do = "lock"
      PROVE  B!Kept(s, i + 1) = B!Kept(s, i) \cup {<<Script[s][i].on, B!Depth(s, i)>>}
  <2>1. \A j : Lasts(s, i + 1, j) <=> Lasts(s, i, j) \/ j = i
    BY <1>3, <1>5, LastsSteps
  <2>2. \A k : k \in B!Kept(s, i + 1) <=> k \in B!Kept(s, i) \/ k = <<Script[s][i].on, B!Depth(s, i)>>
    BY <2>1, KeptIsLasting
  <2> QED BY <2>2
<1>6. ASSUME Script[s][i].do = "close"
      PROVE  B!Kept(s, i + 1) = B!Kept(s, i) \ {k \in B!Kept(s, i) : k[2] = B!Depth(s, i)}
  <2>1. B!Depth(s, i + 1) = B!Depth(s, i) - 1
    BY <1>6, DepthSteps
  <2>2. ASSUME NEW j PROVE Lasts(s, i + 1, j) <=> Lasts(s, i, j) /\ B!Depth(s, j) # B!Depth(s, i)
    <3>1. Lasts(s, i, j) => (B!Depth(s, i + 1) >= B!Depth(s, j) <=> B!Depth(s, j) # B!Depth(s, i))
      BY <1>2, <2>1, LastingIsBelow
    <3>2. Lasts(s, i + 1, j) <=> Lasts(s, i, j) /\ B!Depth(s, i + 1) >= B!Depth(s, j)
      BY <1>6, LastsSteps
    <3> QED BY <3>1, <3>2
  <2>3. ASSUME NEW k PROVE k \in B!Kept(s, i + 1) <=> k \in B!Kept(s, i) /\ k[2] # B!Depth(s, i)
    <3>1. ASSUME k \in B!Kept(s, i + 1) PROVE k \in B!Kept(s, i) /\ k[2] # B!Depth(s, i)
      <4>1. PICK j : Lasts(s, i + 1, j) /\ k = <<Script[s][j].on, B!Depth(s, j)>>
        BY <3>1, KeptIsLasting
      <4>2. Lasts(s, i, j) /\ B!Depth(s, j) # B!Depth(s, i)
        BY <2>2, <4>1
      <4>3. k[2] = B!Depth(s, j)
        BY <4>1
      <4> QED BY <4>1, <4>2, <4>3, KeptIsLasting
    <3>2. ASSUME k \in B!Kept(s, i), k[2] # B!Depth(s, i) PROVE k \in B!Kept(s, i + 1)
      <4>1. PICK j : Lasts(s, i, j) /\ k = <<Script[s][j].on, B!Depth(s, j)>>
        BY <3>2, KeptIsLasting
      <4>2. k[2] = B!Depth(s, j)
        BY <4>1
      <4>3. Lasts(s, i + 1, j)
        BY <2>2, <3>2, <4>1, <4>2
      <4> QED BY <4>1, <4>3, KeptIsLasting
    <3> QED BY <3>1, <3>2
  <2> QED BY <2>3
<1> QED BY <1>1, <1>4, <1>5, <1>6

-----------------------------------------------------------------------------
(* A session has the connections and the locks that its script has at the  *)
(* statement it has come to, or none any more.                             *)
InStep(s) ==
    /\ stmt[s] \in 1 .. Len(Script[s]) + 1
    /\ s \notin failed => conns[s] = B!Depth(s, stmt[s]) /\ held[s] = B!Kept(s, stmt[s])
    /\ s \in failed => conns[s] = 0 /\ held[s] = {}
    /\ \A k \in held[s] : k[2] \in 1 .. conns[s] /\ \E i \in DOMAIN Script[s] : Script[s][i] = B!Lock(k[1])

(* One session at most has a lock.                                         *)
Exclusive == \A s, t \in Sessions : \A k \in held[s], l \in held[t] : k[1] = l[1] => s = t

(* The connections in use.                                                 *)
Slots == UNION {{s} \X (1 .. conns[s]) : s \in Sessions}

(* Rows, and what is read of them, are numbered by the sequence.           *)
RowNumbers ==
    /\ audit \subseteq B!Numbered
    /\ \A s \in Sessions : pending[s] \subseteq B!Numbered /\ head[s] \in 0 .. seq

LockInv ==
    /\ ChainTypes /\ failed \subseteq Sessions
    /\ \A s \in Sessions : InStep(s)
    /\ Exclusive
    /\ IsFiniteSet(Slots) /\ Cardinality(Slots) <= PoolSize
    /\ RowNumbers

(* Nobody has a connection yet.                                            *)
LEMMA LockStarts == B!Given /\ B!Init => LockInv
<1> SUFFICES ASSUME B!Given, B!Init PROVE LockInv
  OBVIOUS
<1>1. ChainTypes
  BY ChainStarts DEF ChainInv
<1>2. ASSUME NEW s \in Sessions PROVE InStep(s)
  <2>1. B!Depth(s, 1) = 0 /\ B!Kept(s, 1) = {}
    BY DepthSteps, KeptSteps
  <2>2. stmt[s] = 1 /\ conns[s] = 0 /\ held[s] = {} /\ failed = {}
    BY DEF B!Init
  <2>3. 1 \in 1 .. Len(Script[s]) + 1
    BY DEF B!Given, B!LocksInTransactions
  <2> QED BY <2>1, <2>2, <2>3 DEF InStep
<1>3. Exclusive
  BY DEF B!Init, Exclusive
<1>4. Slots = {}
  BY DEF B!Init, Slots
<1>5. IsFiniteSet(Slots) /\ Cardinality(Slots) = 0
  BY <1>4, FS_EmptySet
<1>6. RowNumbers
  <2>1. \A s \in Sessions : pending[s] = {} /\ head[s] = 0
    BY DEF B!Init
  <2>2. audit = {} /\ seq = 0
    BY DEF B!Init
  <2>3. 0 \in 0 .. seq
    BY <2>2
  <2> QED BY <2>1, <2>2, <2>3 DEF RowNumbers
<1> QED BY <1>1, <1>2, <1>3, <1>5, <1>6 DEF B!Init, LockInv, B!Given, B!LocksInTransactions

(* Who gives connections back does not exceed the pool.                    *)
LEMMA FewerSlots ==
    ASSUME LockInv, Slots' \subseteq Slots, PoolSize \in Nat
    PROVE  IsFiniteSet(Slots') /\ Cardinality(Slots') <= PoolSize
<1>1. IsFiniteSet(Slots') /\ Cardinality(Slots') <= Cardinality(Slots)
  BY FS_Subset DEF LockInv
<1>2. Cardinality(Slots') \in Nat /\ Cardinality(Slots) \in Nat
  BY <1>1, FS_CardinalityType DEF LockInv
<1> QED BY <1>1, <1>2 DEF LockInv

(* A statement takes its session to the next.                              *)
LEMMA NextStatement ==
    ASSUME B!Given, LockInv, NEW s \in Sessions, NEW what, B!Comes(s, what)
    PROVE  /\ stmt[s] \in DOMAIN Script[s] /\ stmt[s] \in Nat \ {0} /\ Script[s][stmt[s]].do = what
           /\ s \notin failed /\ failed' = failed
           /\ stmt'[s] = stmt[s] + 1 /\ stmt'[s] \in 1 .. Len(Script[s]) + 1
           /\ \A t \in Sessions \ {s} : stmt'[t] = stmt[t]
           /\ conns[s] = B!Depth(s, stmt[s]) /\ held[s] = B!Kept(s, stmt[s]) /\ conns[s] \in Int
<1>1. stmt[s] \in DOMAIN Script[s] /\ Script[s][stmt[s]].do = what /\ s \notin failed /\ failed' = failed
      /\ stmt' = [stmt EXCEPT ![s] = @ + 1]
  BY DEF B!Comes, B!Running
<1>2. stmt \in [Sessions -> Int] /\ conns \in [Sessions -> Int] /\ InStep(s)
  BY DEF LockInv, ChainTypes
<1>3. stmt'[s] = stmt[s] + 1 /\ \A t \in Sessions \ {s} : stmt'[t] = stmt[t]
  BY <1>1, <1>2
<1>4. DOMAIN Script[s] = 1 .. Len(Script[s]) /\ Len(Script[s]) \in Nat
  BY DEF B!Given, B!LocksInTransactions
<1>5. stmt[s] \in Nat \ {0} /\ stmt[s] + 1 \in 1 .. Len(Script[s]) + 1
  BY <1>1, <1>4
<1> QED BY <1>1, <1>2, <1>3, <1>5 DEF InStep

(* The others stay where they are.                                         *)
LEMMA OthersInStep ==
    ASSUME LockInv, NEW t \in Sessions, stmt'[t] = stmt[t], conns'[t] = conns[t], held'[t] = held[t],
           t \in failed' <=> t \in failed
    PROVE  InStep(t)'
BY DEF LockInv, InStep

(* Rows keep their numbers.                                                *)
LEMMA RowsStay ==
    ASSUME LockInv, audit' \subseteq audit \cup UNION {pending[s] : s \in Sessions}, seq' = seq,
           \A s \in Sessions : pending'[s] \subseteq pending[s] /\ head'[s] \in 0 .. seq
    PROVE  RowNumbers'
<1>1. B!Numbered' = B!Numbered
  BY DEF B!Numbered
<1> QED BY <1>1 DEF LockInv, RowNumbers

(* The pool hands out a connection only while it has one.                  *)
LEMMA ConnectIsOrdered == ASSUME B!Given, LockInv, ChainTypes', NEW s \in Sessions, B!Connect(s) PROVE LockInv'
<1>1. /\ B!Comes(s, "open") /\ Cardinality(Slots) < PoolSize /\ conns' = [conns EXCEPT ![s] = @ + 1]
      /\ held' = held /\ audit' = audit /\ pending' = pending /\ head' = head /\ seq' = seq
  BY DatabaseCounts DEF B!Connect, B!Connections, Slots
<1>2. conns'[s] = conns[s] + 1 /\ \A t \in Sessions \ {s} : conns'[t] = conns[t]
  BY <1>1 DEF LockInv, ChainTypes
<1>3. ASSUME NEW t \in Sessions PROVE InStep(t)'
  <2>1. CASE t = s
    <3>1. B!Depth(s, stmt'[s]) = conns'[s] /\ B!Kept(s, stmt'[s]) = held'[s]
      BY <1>1, <1>2, NextStatement, DepthSteps, KeptSteps
    <3>2. \A k \in held[s] : k[2] \in 1 .. conns'[s]
      <4>1. \A k \in held[s] : k[2] \in 1 .. conns[s]
        BY DEF LockInv, InStep
      <4>2. conns[s] \in Int
        BY DEF LockInv, ChainTypes
      <4> QED BY <1>2, <4>1, <4>2
    <3>3. \A k \in held[s] : \E i \in DOMAIN Script[s] : Script[s][i] = B!Lock(k[1])
      BY DEF LockInv, InStep
    <3> QED BY <1>1, <2>1, <3>1, <3>2, <3>3, NextStatement DEF InStep
  <2>2. CASE t # s
    BY <1>1, <1>2, <2>2, NextStatement, OthersInStep
  <2> QED BY <2>1, <2>2
<1>4. Exclusive'
  BY <1>1 DEF LockInv, Exclusive
<1>5. IsFiniteSet(Slots') /\ Cardinality(Slots') <= PoolSize
  <2> DEFINE more == Slots \cup {<<s, conns'[s]>>}
  <2>1. Slots' \subseteq more
    <3> SUFFICES ASSUME NEW x \in Slots' PROVE x \in more
      OBVIOUS
    <3>1. PICK t \in Sessions : x \in {t} \X (1 .. conns'[t])
      BY DEF Slots
    <3>2. PICK n \in 1 .. conns'[t] : x = <<t, n>>
      BY <3>1
    <3>3. n \in 1 .. conns[t] \/ (t = s /\ n = conns'[s])
      <4>1. conns[s] \in Int
        BY DEF LockInv, ChainTypes
      <4> QED BY <1>2, <3>2, <4>1
    <3>4. n \in 1 .. conns[t] => x \in Slots
      BY <3>2 DEF Slots
    <3> QED BY <3>2, <3>3, <3>4
  <2>2. IsFiniteSet(Slots) /\ Cardinality(Slots) \in Nat
    BY FS_CardinalityType DEF LockInv
  <2>3. IsFiniteSet(more) /\ Cardinality(more) <= Cardinality(Slots) + 1 /\ Cardinality(more) \in Nat
    <3>1. IsFiniteSet(more) /\ (Cardinality(more) = Cardinality(Slots) \/ Cardinality(more) = Cardinality(Slots) + 1)
      BY <2>2, FS_AddElement
    <3> QED BY <2>2, <3>1
  <2> HIDE DEF more
  <2>4. IsFiniteSet(Slots') /\ Cardinality(Slots') <= Cardinality(more)
    BY <2>1, <2>3, FS_Subset
  <2>5. Cardinality(Slots') \in Nat
    BY <2>4, FS_CardinalityType
  <2> QED BY <1>1, <2>2, <2>3, <2>4, <2>5 DEF B!Given, B!LocksInTransactions
<1>6. RowNumbers'
  BY <1>1 DEF LockInv, RowNumbers, B!Numbered
<1>7. failed' \subseteq Sessions
  BY <1>1, NextStatement DEF LockInv
<1> QED BY <1>3, <1>4, <1>5, <1>6, <1>7 DEF LockInv

(* A lock is taken when nobody else has it.                                *)
LEMMA TakeLockIsOrdered == ASSUME B!Given, LockInv, ChainTypes', NEW s \in Sessions, B!TakeLock(s) PROVE LockInv'
<1> DEFINE l == Script[s][stmt[s]].on
<1>1. /\ B!Comes(s, "lock") /\ held' = [held EXCEPT ![s] = @ \cup {<<l, conns[s]>>}]
      /\ conns' = conns /\ audit' = audit /\ pending' = pending /\ head' = head /\ seq' = seq
      /\ \A t \in Sessions : \A k \in held[t] : k[1] = l => t = s /\ k[2] = conns[s]
  BY DEF B!TakeLock, B!Free
<1>2. held'[s] = held[s] \cup {<<l, conns[s]>>} /\ \A t \in Sessions \ {s} : held'[t] = held[t]
  BY <1>1 DEF LockInv, ChainTypes
<1>3. ASSUME NEW t \in Sessions PROVE InStep(t)'
  <2>1. CASE t = s
    <3>4. B!Depth(s, stmt[s] + 1) = B!Depth(s, stmt[s]) /\ B!Kept(s, stmt[s] + 1) = B!Kept(s, stmt[s]) \cup {<<l, B!Depth(s, stmt[s])>>}
      BY <1>1, NextStatement, DepthSteps, KeptSteps
    <3>1. B!Depth(s, stmt'[s]) = conns'[s] /\ B!Kept(s, stmt'[s]) = held'[s]
      <4> HIDE DEF l
      <4> QED BY <1>1, <1>2, <3>4, NextStatement
    <3>2. Script[s][stmt[s]] = B!Lock(l) /\ stmt[s] \in DOMAIN Script[s] /\ conns[s] >= 1 /\ conns[s] \in Int
      BY <1>1, NextStatement DEF B!Given, B!LocksInTransactions
    <3>3. ASSUME NEW k \in held'[s]
          PROVE  k[2] \in 1 .. conns[s] /\ \E i \in DOMAIN Script[s] : Script[s][i] = B!Lock(k[1])
      <4>1. CASE k \in held[s]
        BY <4>1 DEF LockInv, InStep
      <4>2. CASE k = <<l, conns[s]>>
        <5>1. k[1] = l /\ k[2] = conns[s] /\ conns[s] \in 1 .. conns[s]
          BY <3>2, <4>2
        <5> QED BY <3>2, <5>1
      <4> QED BY <1>2, <4>1, <4>2
    <3> QED BY <1>1, <2>1, <3>1, <3>3, NextStatement DEF InStep
  <2>2. CASE t # s
    BY <1>1, <1>2, <2>2, NextStatement, OthersInStep
  <2> QED BY <2>1, <2>2
<1>4. Exclusive'
  <2> SUFFICES ASSUME NEW t \in Sessions, NEW u \in Sessions, NEW k \in held'[t], NEW m \in held'[u], k[1] = m[1]
               PROVE t = u
    BY DEF Exclusive
  <2>1. k \in held[t] \/ (t = s /\ k[1] = l)
    BY <1>2
  <2>2. m \in held[u] \/ (u = s /\ m[1] = l)
    BY <1>2
  <2>3. k \in held[t] /\ m \in held[u] => t = u
    BY DEF LockInv, Exclusive
  <2> QED BY <1>1, <2>1, <2>2, <2>3
<1>5. Slots' = Slots
  BY <1>1 DEF Slots
<1>6. RowNumbers'
  BY <1>1 DEF LockInv, RowNumbers, B!Numbered
<1>7. failed' \subseteq Sessions
  BY <1>1, NextStatement DEF LockInv
<1> QED BY <1>3, <1>4, <1>5, <1>6, <1>7 DEF LockInv

(* Reading and inserting need no connection and no lock.                   *)
LEMMA OtherStatementIsOrdered ==
    ASSUME B!Given, LockInv, ChainTypes', NEW s \in Sessions, NEW what, B!Comes(s, what),
           what \notin {"open", "lock", "close"}, conns' = conns, held' = held, RowNumbers'
    PROVE  LockInv'
<1>1. ASSUME NEW t \in Sessions PROVE InStep(t)'
  <2>1. CASE t = s
    <3>1. B!Depth(s, stmt'[s]) = conns'[s] /\ B!Kept(s, stmt'[s]) = held'[s]
      BY NextStatement, DepthSteps, KeptSteps
    <3>2. \A k \in held[s] : k[2] \in 1 .. conns[s] /\ \E i \in DOMAIN Script[s] : Script[s][i] = B!Lock(k[1])
      BY DEF LockInv, InStep
    <3> QED BY <2>1, <3>1, <3>2, NextStatement DEF InStep
  <2>2. CASE t # s
    BY <2>2, NextStatement, OthersInStep
  <2> QED BY <2>1, <2>2
<1>2. Exclusive' /\ Slots' = Slots
  BY DEF LockInv, Exclusive, Slots
<1>3. failed' \subseteq Sessions
  BY NextStatement DEF LockInv
<1> QED BY <1>1, <1>2, <1>3 DEF LockInv

(* What is read is the number of a row.                                    *)
LEMMA SeeHeadIsOrdered == ASSUME B!Given, LockInv, ChainTypes', NEW s \in Sessions, B!SeeHead(s) PROVE LockInv'
<1>1. PICK h \in {0} \cup {r.seq : r \in audit \cup pending[s]} : head' = [head EXCEPT ![s] = h]
  BY DEF B!SeeHead
<1>2. /\ B!Comes(s, "read") /\ conns' = conns /\ held' = held /\ audit' = audit /\ pending' = pending /\ seq' = seq
  BY DEF B!SeeHead
<1>3. h \in 0 .. seq
  <2>1. seq \in Nat /\ audit \cup pending[s] \subseteq B!Numbered
    BY DEF LockInv, ChainTypes, RowNumbers
  <2>2. \A r \in B!Numbered : r.seq \in 1 .. seq
    BY DEF B!Numbered
  <2> QED BY <2>1, <2>2
<1>4. \A t \in Sessions : head'[t] \in 0 .. seq
  BY <1>1, <1>3 DEF LockInv, ChainTypes, RowNumbers
<1>5. RowNumbers'
  BY <1>2, <1>4, RowsStay
<1> QED BY <1>2, <1>5, OtherStatementIsOrdered

(* A row is given the next number.                                         *)
LEMMA InsertIsOrdered == ASSUME B!Given, LockInv, ChainTypes', NEW s \in Sessions, B!Insert(s) PROVE LockInv'
<1> DEFINE new == [seq |-> seq + 1, prev |-> head[s]]
<1>1. /\ B!Comes(s, "insert") /\ conns' = conns /\ held' = held /\ audit' = audit /\ head' = head /\ seq' = seq + 1
      /\ pending' = [pending EXCEPT ![s] = @ \cup {new}]
  BY DEF B!Insert
<1>2. seq \in Nat /\ head[s] \in 0 .. seq
  BY DEF LockInv, ChainTypes, RowNumbers
<1>3. B!Numbered \subseteq [seq : 1 .. seq + 1, prev : 0 .. seq + 1]
  BY <1>2, SMT DEF B!Numbered
<1>4. new \in [seq : 1 .. seq + 1, prev : 0 .. seq + 1]
  BY <1>2
<1>5. B!Numbered' = [seq : 1 .. seq + 1, prev : 0 .. seq + 1]
  BY <1>1 DEF B!Numbered
<1>6. \A t \in Sessions : pending'[t] \subseteq pending[t] \cup {new}
  BY <1>1 DEF LockInv, ChainTypes
<1>7. \A t \in Sessions : head'[t] \in 0 .. seq'
  BY <1>1, <1>2 DEF LockInv, RowNumbers
<1> HIDE DEF new
<1>8. RowNumbers'
  BY <1>1, <1>3, <1>4, <1>5, <1>6, <1>7 DEF LockInv, RowNumbers
<1> QED BY <1>1, <1>8, OtherStatementIsOrdered

(* A commit ends the innermost transaction, with its locks.                *)
LEMMA CommitIsOrdered == ASSUME B!Given, LockInv, ChainTypes', NEW s \in Sessions, B!Commit(s) PROVE LockInv'
<1>1. /\ B!Comes(s, "close") /\ held' = [held EXCEPT ![s] = @ \ B!Innermost(s)] /\ conns' = [conns EXCEPT ![s] = @ - 1]
      /\ head' = head /\ seq' = seq
  BY DEF B!Commit
<1>2. /\ held'[s] = held[s] \ B!Innermost(s) /\ conns'[s] = conns[s] - 1
      /\ \A t \in Sessions \ {s} : held'[t] = held[t] /\ conns'[t] = conns[t]
  BY <1>1 DEF LockInv, ChainTypes
<1>3. ASSUME NEW t \in Sessions PROVE InStep(t)'
  <2>1. CASE t = s
    <3>3. /\ B!Depth(s, stmt[s] + 1) = B!Depth(s, stmt[s]) - 1
          /\ B!Kept(s, stmt[s] + 1) = B!Kept(s, stmt[s]) \ {k \in B!Kept(s, stmt[s]) : k[2] = B!Depth(s, stmt[s])}
      BY <1>1, NextStatement, DepthSteps, KeptSteps
    <3>1. B!Depth(s, stmt'[s]) = conns'[s] /\ B!Kept(s, stmt'[s]) = held'[s]
      <4>1. stmt'[s] = stmt[s] + 1 /\ conns[s] = B!Depth(s, stmt[s]) /\ held[s] = B!Kept(s, stmt[s])
        BY <1>1, NextStatement
      <4>2. B!Innermost(s) = {k \in B!Kept(s, stmt[s]) : k[2] = B!Depth(s, stmt[s])}
        BY <4>1 DEF B!Innermost
      <4>3. B!Depth(s, stmt'[s]) = conns'[s]
        BY <1>2, <3>3, <4>1
      <4>4. B!Kept(s, stmt'[s]) = held'[s]
        BY <1>2, <3>3, <4>1, <4>2
      <4> QED BY <4>3, <4>4
    <3>2. ASSUME NEW k \in held'[s]
          PROVE  k[2] \in 1 .. conns'[s] /\ \E i \in DOMAIN Script[s] : Script[s][i] = B!Lock(k[1])
      <4>1. k \in held[s] /\ k[2] # conns[s]
        BY <1>2 DEF B!Innermost
      <4>2. k[2] \in 1 .. conns[s] /\ \E i \in DOMAIN Script[s] : Script[s][i] = B!Lock(k[1])
        BY <4>1 DEF LockInv, InStep
      <4>3. conns[s] \in Int
        BY DEF LockInv, ChainTypes
      <4>4. k[2] \in 1 .. conns'[s]
        BY <1>2, <4>1, <4>2, <4>3
      <4> QED BY <4>2, <4>4
    <3> QED BY <1>1, <2>1, <3>1, <3>2, NextStatement DEF InStep
  <2>2. CASE t # s
    BY <1>1, <1>2, <2>2, NextStatement, OthersInStep
  <2> QED BY <2>1, <2>2
<1>4. Exclusive'
  <2>1. \A t \in Sessions : held'[t] \subseteq held[t]
    BY <1>2
  <2> QED BY <2>1 DEF LockInv, Exclusive
<1>5. Slots' \subseteq Slots
  <2> SUFFICES ASSUME NEW x \in Slots' PROVE x \in Slots
    OBVIOUS
  <2>1. PICK t \in Sessions : x \in {t} \X (1 .. conns'[t])
    BY DEF Slots
  <2>2. 1 .. conns'[t] \subseteq 1 .. conns[t]
    BY <1>2, SMT DEF LockInv, ChainTypes
  <2> QED BY <2>1, <2>2 DEF Slots
<1>6. RowNumbers'
  <2>1. audit' \subseteq audit \cup pending[s] /\ \A t \in Sessions : pending'[t] \subseteq pending[t]
    BY DEF B!Commit, LockInv, ChainTypes
  <2>2. \A t \in Sessions : head'[t] \in 0 .. seq
    BY <1>1 DEF LockInv, RowNumbers
  <2> QED BY <1>1, <2>1, <2>2, RowsStay
<1>7. failed' \subseteq Sessions
  BY <1>1, NextStatement DEF LockInv
<1> QED BY <1>3, <1>4, <1>5, <1>6, <1>7, FewerSlots DEF LockInv, B!Given, B!LocksInTransactions

(* A session that breaks off has nothing any more.                         *)
LEMMA RollBackIsOrdered == ASSUME B!Given, LockInv, ChainTypes', NEW s \in Sessions, B!RollBack(s) PROVE LockInv'
<1>1. /\ failed' = failed \cup {s} /\ stmt' = stmt /\ audit' = audit /\ head' = head /\ seq' = seq
      /\ conns'[s] = 0 /\ held'[s] = {} /\ pending'[s] = {}
      /\ \A t \in Sessions \ {s} : held'[t] = held[t] /\ conns'[t] = conns[t] /\ pending'[t] = pending[t]
  BY DEF B!RollBack, LockInv, ChainTypes
<1>2. ASSUME NEW t \in Sessions PROVE InStep(t)'
  <2>1. CASE t = s
    <3>1. stmt[s] \in 1 .. Len(Script[s]) + 1
      BY DEF LockInv, InStep
    <3> QED BY <1>1, <2>1, <3>1 DEF InStep
  <2>2. CASE t # s
    BY <1>1, <2>2, OthersInStep
  <2> QED BY <2>1, <2>2
<1>3. Exclusive'
  <2>1. \A t \in Sessions : held'[t] \subseteq held[t]
    BY <1>1
  <2> QED BY <2>1 DEF LockInv, Exclusive
<1>4. Slots' \subseteq Slots
  <2> SUFFICES ASSUME NEW x \in Slots' PROVE x \in Slots
    OBVIOUS
  <2>1. PICK t \in Sessions : x \in {t} \X (1 .. conns'[t])
    BY DEF Slots
  <2>2. 1 .. conns'[t] \subseteq 1 .. conns[t]
    BY <1>1, SMT DEF LockInv, ChainTypes
  <2> QED BY <2>1, <2>2 DEF Slots
<1>5. RowNumbers'
  <2>1. audit' \subseteq audit /\ \A t \in Sessions : pending'[t] \subseteq pending[t]
    BY <1>1
  <2>2. \A t \in Sessions : head'[t] \in 0 .. seq
    BY <1>1 DEF LockInv, RowNumbers
  <2> QED BY <1>1, <2>1, <2>2, RowsStay
<1> QED BY <1>1, <1>2, <1>3, <1>4, <1>5, FewerSlots DEF LockInv, B!Given, B!LocksInTransactions

(* No step breaks the invariant.                                           *)
LEMMA LockKeeps == B!Given /\ ChainInv /\ LockInv /\ [B!Next]_(B!vars) => LockInv'
<1> SUFFICES ASSUME B!Given, ChainInv, LockInv, [B!Next]_(B!vars) PROVE LockInv'
  OBVIOUS
<1>0. ChainTypes'
  BY ChainKeeps DEF B!Given, ChainInv
<1>1. ASSUME NEW s \in Sessions, B!Step(s) PROVE LockInv'
  <2>1. CASE B!GiveUp(s) \/ B!Abort(s)
    BY <1>0, <2>1, RollBackIsOrdered DEF B!GiveUp, B!Abort
  <2> QED BY <1>0, <1>1, <2>1, ConnectIsOrdered, TakeLockIsOrdered, SeeHeadIsOrdered, InsertIsOrdered,
             CommitIsOrdered DEF B!Step
<1>2. ASSUME NEW s \in Sessions, B!Break(s) PROVE LockInv'
  BY <1>0, <1>2, RollBackIsOrdered DEF B!Break
<1>3. CASE UNCHANGED B!vars
  BY <1>3 DEF B!vars, LockInv, ChainTypes, InStep, Exclusive, Slots, RowNumbers, B!Numbered
<1> QED BY <1>1, <1>2, <1>3 DEF B!Next

(* Connections, locks and rows are what they should be.                    *)
LEMMA LocksAreTyped == B!Given /\ LockInv => B!TypeOK
<1> SUFFICES ASSUME B!Given, LockInv PROVE B!TypeOK
  OBVIOUS
<1>1. B!Connections = Cardinality(Slots)
  BY DatabaseCounts DEF B!Connections, Slots
<1> QED BY <1>1 DEF LockInv, B!TypeOK, InStep, RowNumbers, B!Given, B!LocksInTransactions

-----------------------------------------------------------------------------
(* Passes and appends do not wait for each other in a circle. Nobody in    *)
(* such a circle waits for a row: whoever has it has the lock of its run   *)
(* too. So nobody in it waits for the chain, since who has that waits for  *)
(* nothing but a row. And who has the named lock of the highest rank that  *)
(* any of them waits for, waits for none.                                  *)
LEMMA NobodyWaitsInACircle ==
    ASSUME B!Given, LockInv, NEW some, NEW guard, NEW rank, B!TakesInOrder(some, guard, rank)
    PROVE  B!NoDeadlock(some)
<1> SUFFICES ASSUME NEW S \in SUBSET some, S # {}, \A s \in S : \E t \in S \ {s} : B!WaitsFor(s, t) PROVE FALSE
  BY DEF B!NoDeadlock, B!Deadlocked
<1>0. S \subseteq Sessions
  BY DEF B!TakesInOrder
<1> DEFINE l(s) == Script[s][stmt[s]].on
           Has(s, x) == x \in B!Locks(s, stmt[s])
<1>1. ASSUME NEW s \in S
      PROVE  /\ stmt[s] \in 1 .. Len(Script[s]) + 1 /\ stmt[s] \in DOMAIN Script[s] /\ Script[s][stmt[s]].do = "lock"
             /\ held[s] = B!Kept(s, stmt[s])
             /\ \E t \in S \ {s} : Has(t, l(s))
  <2>1. PICK t \in S \ {s} : B!WaitsFor(s, t)
    OBVIOUS
  <2>2. B!Running(s) /\ Script[s][stmt[s]].do = "lock" /\ \E k \in held[t] : k[1] = l(s)
    BY <2>1 DEF B!WaitsFor
  <2>3. PICK u \in S \ {t} : B!WaitsFor(t, u)
    BY <2>1
  <2>4. t \notin failed /\ s \notin failed
    BY <2>2, <2>3 DEF B!WaitsFor, B!Running
  <2>5. held[s] = B!Kept(s, stmt[s]) /\ held[t] = B!Kept(t, stmt[t]) /\ stmt[s] \in 1 .. Len(Script[s]) + 1
    BY <1>0, <2>1, <2>4 DEF LockInv, InStep
  <2>6. Has(t, l(s))
    BY <2>2, <2>5 DEF B!Locks
  <2> QED BY <2>1, <2>2, <2>5, <2>6 DEF B!Running
<1>2. ASSUME NEW s \in S, NEW t \in S, NEW x, Has(s, x), Has(t, x) PROVE s = t
  <2>1. PICK k \in held[s] : k[1] = x
    BY <1>1, <1>2 DEF B!Locks
  <2>2. PICK m \in held[t] : m[1] = x
    BY <1>1, <1>2 DEF B!Locks
  <2> QED BY <1>0, <2>1, <2>2 DEF LockInv, Exclusive
<1>3. ASSUME NEW s \in S
      PROVE  /\ \A x : Has(s, x) /\ x[1] = "row" => Has(s, guard[x])
             /\ \/ l(s) = B!Chain
                \/ l(s)[1] = "row" /\ Has(s, guard[l(s)])
                \/ l(s) \in DOMAIN rank /\ \A m : Has(s, m) => m \in DOMAIN rank /\ rank[m] < rank[l(s)]
  BY <1>1 DEF B!TakesInOrder
<1> HIDE DEF Has, l
<1>4. ASSUME NEW s \in S, l(s)[1] = "row", Has(s, guard[l(s)]) PROVE FALSE
  <2>1. PICK t \in S \ {s} : Has(t, l(s))
    BY <1>1
  <2>2. Has(t, guard[l(s)])
    BY <1>3, <1>4, <2>1
  <2> QED BY <1>2, <1>4, <2>1, <2>2
<1>5. ASSUME NEW s \in S, l(s) = B!Chain PROVE FALSE
  <2>1. PICK t \in S \ {s} : Has(t, B!Chain)
    BY <1>1, <1>5
  <2>2. ASSUME l(t) = B!Chain PROVE FALSE
    <3>1. PICK u \in S \ {t} : Has(u, B!Chain)
      BY <1>1, <2>1, <2>2
    <3> QED BY <1>2, <2>1, <3>1
  <2>3. B!Chain \in DOMAIN rank
    BY <1>3, <1>4, <2>1, <2>2
  <2> QED BY <2>3 DEF B!TakesInOrder
<1>6. ASSUME NEW s \in S
      PROVE  l(s) \in DOMAIN rank /\ \A m : Has(s, m) => m \in DOMAIN rank /\ rank[m] < rank[l(s)]
  BY <1>3, <1>4, <1>5
<1>7. PICK top \in Nat : \A name \in DOMAIN rank : rank[name] \in 0 .. top
  <2>1. PICK top \in {0} \cup {rank[name] : name \in DOMAIN rank} : \A name \in DOMAIN rank : rank[name] <= top
    BY DEF B!TakesInOrder
  <2>2. \A name \in DOMAIN rank : rank[name] \in Nat
    BY DEF B!TakesInOrder
  <2>3. top \in Nat /\ \A name \in DOMAIN rank : rank[name] \in 0 .. top
    BY <2>1, <2>2
  <2> QED BY <2>3
<1> DEFINE below == {top - rank[l(s)] : s \in S}
<1>8. below \subseteq Nat /\ below # {}
  <2>1. ASSUME NEW s \in S PROVE top - rank[l(s)] \in Nat
    <3>1. rank[l(s)] \in 0 .. top
      BY <1>6, <1>7
    <3> QED BY <3>1
  <2> QED BY <2>1
<1>9. PICK n \in below : \A m \in below : n <= m
  <2> HIDE DEF below
  <2> QED BY <1>8, Least
<1>10. PICK s \in S : n = top - rank[l(s)]
  OBVIOUS
<1>11. PICK t \in S : Has(t, l(s))
  BY <1>1
<1>12. rank[l(s)] < rank[l(t)] /\ rank[l(s)] \in 0 .. top /\ rank[l(t)] \in 0 .. top
  BY <1>6, <1>7, <1>11
<1>13. top - rank[l(s)] <= top - rank[l(t)]
  BY <1>9, <1>10
<1> QED BY <1>12, <1>13

(* The types in every behaviour, and the locks and the chain with them.    *)
LEMMA DatabaseIsTyped == B!Given => (B!Spec => [](B!TypeOK /\ ChainInv /\ LockInv))
<1> SUFFICES ASSUME B!Given PROVE B!Spec => [](B!TypeOK /\ ChainInv /\ LockInv)
  OBVIOUS
<1>1. B!Init => ChainInv /\ LockInv
  BY ChainStarts, LockStarts
<1>2. ChainInv /\ LockInv /\ [B!Next]_(B!vars) => (ChainInv /\ LockInv)'
  BY ChainKeeps, LockKeeps DEF B!Given
<1>3. LockInv => B!TypeOK
  BY LocksAreTyped
<1> QED BY <1>1, <1>2, <1>3, PTL DEF B!Spec

(* If no transaction appends without the lock of the chain, the committed  *)
(* rows are one line, each with the hash of the one before, whatever else  *)
(* the scripts do and however many connections there are (audit/chain.py). *)
THEOREM ChainHolds == B!AppendsUnderLock => (WorkSpec => []B!ChainIsLinear)
<1> SUFFICES ASSUME B!AppendsUnderLock PROVE WorkSpec => []B!ChainIsLinear
  OBVIOUS
<1>1. B!Init => ChainInv
  BY ChainStarts
<1>2. ChainInv /\ [B!Next]_(B!vars) => ChainInv'
  BY ChainKeeps
<1>3. ChainInv => B!ChainIsLinear
  BY DEF ChainInv, Chained, B!ChainIsLinear
<1> QED BY <1>1, <1>2, <1>3, EachKeepsToItself, PTL DEF B!Spec

(* The committed audit rows are one chain, whoever appends, breaks off or  *)
(* is aborted; and sessions that take their locks in order, each row under *)
(* the named lock that guards it, never wait for each other in a circle    *)
(* (repo.append_audit, intake.advisory_lock, runner.py).                   *)
THEOREM DatabaseIsKept ==
  ASSUME NEW guard, NEW rank, B!Given, B!TakesInOrder(Orderly, guard, rank)
  PROVE  WorkSpec => []DatabaseIsSound
<1>1. B!Spec => [](B!TypeOK /\ ChainInv /\ LockInv)
  BY DatabaseIsTyped
<1>2. ChainInv /\ LockInv => DatabaseIsSound
  BY NobodyWaitsInACircle DEF ChainInv, Chained, B!ChainIsLinear, DatabaseIsSound
<1> QED BY <1>1, <1>2, EachKeepsToItself, PTL

(* Every part keeps the types of its variables; no more connections are in *)
(* use than the pool has.                                                  *)
THEOREM TypesHold == I!CallersAreGiven /\ D!Given /\ C!Given /\ B!Given => (WorkSpec => []TypesOK)
<1>1. I!CallersAreGiven => (I!Spec => [](I!TypeOK /\ I!RequestsStayApart))
  BY IntakeHolds
<1>2. D!Given => (D!Spec => [](D!TypeOK /\ D!DiscoveryIsSound))
  BY DiscoveryHolds
<1>3. C!Given => (C!Spec => [](C!TypeOK /\ C!CaseIsSound))
  BY CaseHolds
<1>4. B!Given => (B!Spec => [](B!TypeOK /\ ChainInv /\ LockInv))
  BY DatabaseIsTyped
<1> QED BY <1>1, <1>2, <1>3, <1>4, ExecutionIsTyped, EachKeepsToItself, PTL DEF TypesOK
=============================================================================
