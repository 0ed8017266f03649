------------------------------ MODULE Receipts -------------------------------
(***************************************************************************)
(* The receipt of a run (receipts.py, rail/finalize.py, index_receipt in   *)
(* knowledge/rag.py) and the receipt mail (surfaces/email.py).             *)
(*                                                                         *)
(* The run goes through the outcomes of Story.  Each pass commits what it  *)
(* did to the actions first and the run's row last, with one receipt.build *)
(* job for each distinct outcome.  A job reads the run, its actions and    *)
(* the rest in statements of their own, stores what it made of them, and   *)
(* queues the note for the ticket.  Builds and notes of a run take turns   *)
(* at one advisory lock.                                                   *)
(***************************************************************************)
EXTENDS Naturals, FiniteSets, Sequences, SequencesExt

CONSTANTS
    Story,       \* the run's outcomes: status, and the counts verified, failed
    Final,       \* statuses after which nothing more happens
    Workers,
    MaxTries,    \* max_attempts of a job
    MaxFaults    \* bound: crashes, refused calls and lost answers

VARIABLES
    acts, run,     \* how far the actions and the run's row are in the story
    stored,        \* table receipts: what the receipt tells, and whether its note is posted
    indexed,       \* the receipt that questions are answered from
    jobs,          \* table jobs, by dedupe key
    lock, worker,
    notes, mails,  \* on the ticket; to the requester
    faults, lost   \* lost: notes posted whose id was never recorded

vars == <<acts, run, stored, indexed, jobs, lock, worker, notes, mails, faults, lost>>
runVars == <<acts, run>>

None == [run |-> 0, acts |-> 0]
Receipt == [run : 1..Len(Story), acts : 1..Len(Story)]
Idle == [job |-> None, kind |-> "none", at |-> "idle", saw |-> None]

(* Outcomes that the key of a receipt.build job does not tell apart.       *)
Outcome(i) == CHOOSE j \in 1..Len(Story) : Story[j] = Story[i]

BuildKey(i) == [kind |-> "build", of |-> [run |-> Outcome(i), acts |-> Outcome(i)]]
NoteKey(r) == [kind |-> "note", of |-> r]
MailKey == [kind |-> "mail", of |-> None]
Keys == {BuildKey(i) : i \in 1..Len(Story)} \cup {NoteKey(r) : r \in Receipt} \cup {MailKey}

Enqueue(key) == [jobs EXCEPT ![key].state = IF @ = "none" THEN "ready" ELSE @]

(* What is given: a final status ends the story, and a job may be tried.   *)
Given ==
    /\ Len(Story) \in Nat /\ \A i \in 1..Len(Story) : Story[i].status \in Final => i = Len(Story)
    /\ MaxTries \in Nat \ {0} /\ MaxFaults \in Nat /\ "free" \notin Workers

TypeOK ==
    /\ acts \in 0..Len(Story) /\ run \in 0..Len(Story)
    /\ stored \in [is : Receipt \cup {None}, noted : BOOLEAN]
    /\ indexed \in Receipt \cup {None}
    /\ jobs \in [Keys -> [state : {"none", "ready", "held", "done", "dead"}, tries : 0..MaxTries]]
    /\ lock \in Workers \cup {"free"}
    /\ \A w \in Workers : worker[w].saw \in [run : 0..Len(Story), acts : 0..Len(Story)]
    /\ notes \in Seq(Receipt) /\ mails \in Seq(Receipt)
    /\ faults \in 0..MaxFaults /\ lost <= faults

Init ==
    /\ acts = 0 /\ run = 0
    /\ stored = [is |-> None, noted |-> FALSE] /\ indexed = None
    /\ jobs = [k \in Keys |-> [state |-> "none", tries |-> 0]]
    /\ lock = "free" /\ worker = [w \in Workers |-> Idle]
    /\ notes = <<>> /\ mails = <<>> /\ faults = 0 /\ lost = 0

-----------------------------------------------------------------------------
(* The rail                                                                *)

Act ==
    /\ acts = run /\ run < Len(Story)
    /\ acts' = acts + 1
    /\ UNCHANGED <<run, stored, indexed, jobs, lock, worker, notes, mails, faults, lost>>

Finalize ==
    /\ acts = run + 1
    /\ run' = acts
    /\ jobs' = Enqueue(BuildKey(acts))
    /\ UNCHANGED <<acts, stored, indexed, lock, worker, notes, mails, faults, lost>>

(* The mail door is handed the receipt.build of a run as well.             *)
AskForMail ==
    /\ run > 0
    /\ jobs' = Enqueue(MailKey)
    /\ UNCHANGED <<runVars, stored, indexed, lock, worker, notes, mails, faults, lost>>

-----------------------------------------------------------------------------
(* The jobs                                                                *)

At(w, place) == worker[w].at = place
Key(w) == [kind |-> worker[w].kind, of |-> worker[w].job]
Unlocked(w) == IF lock = w THEN "free" ELSE lock
Ended(w, state) ==
    /\ jobs' = [jobs EXCEPT ![Key(w)].state = state]
    /\ worker' = [worker EXCEPT ![w] = Idle]
    /\ lock' = Unlocked(w)
(* The handler is through and its transaction committed: the job is to be  *)
(* reported done.                                                          *)
Through(w) == worker' = [worker EXCEPT ![w].at = "report"] /\ lock' = Unlocked(w)
Fault == faults < MaxFaults /\ faults' = faults + 1
Again(w) == Fault /\ Ended(w, IF jobs[Key(w)].tries < MaxTries THEN "ready" ELSE "dead")

Claim(w, key) ==
    /\ worker[w] = Idle /\ jobs[key].state = "ready"
    /\ jobs' = [jobs EXCEPT ![key] = [state |-> "held", tries |-> @.tries + 1]]
    /\ worker' = [worker EXCEPT ![w] = [job |-> key.of, kind |-> key.kind, at |-> "lock", saw |-> None]]
    /\ UNCHANGED <<runVars, stored, indexed, lock, notes, mails, faults, lost>>

(* A transaction is cut off and leaves nothing behind, or its worker dies  *)
(* before it reports the job done.                                         *)
Crash(w) ==
    /\ worker[w] # Idle /\ Again(w)
    /\ UNCHANGED <<runVars, stored, indexed, notes, mails, lost>>

(* A mutant: the actions are read before the run's row.                    *)
ActionsFirst(w) ==
    /\ At(w, "lock") /\ lock = "free" /\ worker[w].kind = "build"
    /\ lock' = w
    /\ worker' = [worker EXCEPT ![w].at = "actions", ![w].saw.acts = acts]
    /\ UNCHANGED <<runVars, stored, indexed, jobs, notes, mails, faults, lost>>

ReadRun(w) ==
    /\ At(w, "lock") /\ lock = "free" /\ worker[w].kind = "build"
    /\ lock' = w
    /\ worker' = [worker EXCEPT ![w].at = "actions", ![w].saw.run = run]
    /\ UNCHANGED <<runVars, stored, indexed, jobs, notes, mails, faults, lost>>

ReadActions(w) ==
    /\ At(w, "actions")
    /\ worker' = [worker EXCEPT ![w].at = "store",
                                ![w].saw = [run  |-> IF @.run = 0 THEN run ELSE @.run,
                                            acts |-> IF @.acts = 0 THEN acts ELSE @.acts]]
    /\ UNCHANGED <<runVars, stored, indexed, jobs, lock, notes, mails, faults, lost>>

NewReceipt(r) == [is |-> r, noted |-> FALSE]

(* A receipt that tells something new replaces the one stored, and its     *)
(* note is queued with it; the index follows either way.                   *)
StoreReceipt(w) ==
    /\ At(w, "store")
    /\ LET new == stored.is # worker[w].saw
           js  == IF new THEN Enqueue(NoteKey(worker[w].saw)) ELSE jobs IN
       /\ stored' = IF new THEN NewReceipt(worker[w].saw) ELSE stored
       /\ jobs' = js /\ Through(w)
    /\ indexed' = worker[w].saw
    /\ UNCHANGED <<runVars, notes, mails, faults, lost>>

(* The receipt the job is for is the one stored, and has no note.          *)
Wanted(w) == stored.is = worker[w].job /\ ~stored.noted

ReadReceipt(w) ==
    /\ At(w, "lock") /\ lock = "free" /\ worker[w].kind = "note"
    /\ \/ /\ Wanted(w) /\ lock' = w
          /\ worker' = [worker EXCEPT ![w].at = "post", ![w].saw = worker[w].job]
          /\ UNCHANGED jobs
       \/ ~Wanted(w) /\ Ended(w, "done")
    /\ UNCHANGED <<runVars, stored, indexed, notes, mails, faults, lost>>

(* The note is posted and recorded, refused, or posted and lost.           *)
PostNote(w) ==
    /\ At(w, "post")
    /\ \/ /\ notes' = Append(notes, worker[w].saw)
          /\ stored' = [stored EXCEPT !.noted = TRUE]
          /\ Through(w) /\ UNCHANGED <<jobs, faults, lost>>
       \/ Again(w) /\ UNCHANGED <<notes, stored, lost>>
       \/ Again(w) /\ notes' = Append(notes, worker[w].saw) /\ lost' = lost + 1 /\ UNCHANGED stored
    /\ UNCHANGED <<runVars, indexed, mails>>

Ending == run > 0 /\ Story[run].status \in Final

(* The receipt mail goes once, when the run is over.                       *)
MailReceipt(w) ==
    /\ At(w, "lock") /\ worker[w].kind = "mail"
    /\ mails' = IF Ending /\ mails = <<>> THEN Append(mails, [run |-> run, acts |-> acts]) ELSE mails
    /\ Through(w)
    /\ UNCHANGED <<runVars, stored, indexed, jobs, notes, faults, lost>>

Report(w) ==
    /\ At(w, "report") /\ Ended(w, "done")
    /\ UNCHANGED <<runVars, stored, indexed, notes, mails, faults, lost>>

-----------------------------------------------------------------------------
WorkerStep(w) ==
    \/ \E key \in Keys : Claim(w, key)
    \/ ReadRun(w) \/ ReadActions(w) \/ StoreReceipt(w)
    \/ ReadReceipt(w) \/ PostNote(w) \/ MailReceipt(w) \/ Report(w)

Next ==
    \/ Act \/ Finalize \/ AskForMail
    \/ \E w \in Workers : WorkerStep(w) \/ Crash(w)

(* A worker that holds the lock goes on, and who waits gets its turn.      *)
Fairness == WF_vars(Act) /\ WF_vars(Finalize) /\ \A w \in Workers : SF_vars(WorkerStep(w))

Spec == Init /\ [][Next]_vars
FairSpec == Spec /\ Fairness

-----------------------------------------------------------------------------
Over == run = Len(Story)

(* A receipt that says the run is over tells what became of every action,  *)
(* though run and actions are read one after the other.                    *)
FinalReceiptIsWhole == stored.is.run = Len(Story) => stored.is.acts = Len(Story)

(* The notes on the ticket never go back to an older receipt.              *)
NotesGoForward ==
    \A i, j \in DOMAIN notes :
        i < j => notes[i].run <= notes[j].run /\ notes[i].acts <= notes[j].acts

(* A receipt gets a second note only for one whose id was never recorded.  *)
NotesOf(r) == {i \in DOMAIN notes : notes[i] = r}
OneNotePerReceipt == \A r \in Receipt : Cardinality(NotesOf(r)) <= 1 + lost

(* The receipt mail goes once and tells the end of the run.                *)
MailTellsTheEnd == mails # <<>> => mails = <<[run |-> Len(Story), acts |-> Len(Story)]>>

(* Whatever is built, noted or mailed tells a state the run was in.        *)
ReceiptsAreTrue == FinalReceiptIsWhole /\ NotesGoForward /\ OneNotePerReceipt /\ MailTellsTheEnd

(* When the run is over, the stored receipt, the index and the last note   *)
(* come to tell its outcome.                                               *)
ReceiptCatchesUp ==
    Over ~> /\ stored.is = [run |-> run, acts |-> acts]
            /\ indexed = stored.is
            /\ notes # <<>> /\ Last(notes) = stored.is
=============================================================================
