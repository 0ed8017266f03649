--------------------------- MODULE MessagesProofs ---------------------------
(***************************************************************************)
(* Proofs about Messages: an approver is asked once, on the ticket that is *)
(* on record; and receipts, notes and mails tell states the run was in;    *)
(* for any workers, setups, outcomes of the run and faults.                *)
(*                                                                         *)
(* The components share no variable, so a behaviour of all of them is one  *)
(* of each (EachKeepsToItself).  The queue's invariant is in module        *)
(* JobQueueProofs; a section for each of the others states what a worker   *)
(* knows at each of its places, which is what its next step rests on.      *)
(***************************************************************************)
EXTENDS Messages, JobQueueProofs, FiniteSetTheorems, SequenceTheorems

(* Each component takes its own steps or none.                             *)
LEMMA StepsAreTheirs ==
  /\ MessagesInit => Init /\ A!Init /\ R!Init
  /\ [MessagesNext]_messageVars => [Next]_vars /\ [A!Next]_(A!vars) /\ [R!Next]_(R!vars)
<1>1. MessagesInit => Init /\ A!Init /\ R!Init
  BY DEF MessagesInit
<1>2. [MessagesNext]_messageVars => [Next]_vars /\ [A!Next]_aVars /\ [R!Next]_rVars
  BY DEF MessagesNext, messageVars, Working, Approving, Receipting
<1>3. (UNCHANGED aVars => UNCHANGED A!vars) /\ (UNCHANGED rVars => UNCHANGED R!vars)
  BY DEF A!vars, R!vars, aVars, rVars
<1> QED BY <1>1, <1>2, <1>3

(* A behaviour of all of them is a behaviour of each.                      *)
LEMMA EachKeepsToItself == MessagesSpec => Spec /\ A!Spec /\ R!Spec
  BY StepsAreTheirs, PTL DEF MessagesSpec, Spec, A!Spec, R!Spec

-----------------------------------------------------------------------------
(* Approvals: the approver is asked once.  A worker that is about to write *)
(* down a ticket or a mail has asked, and no second worker has the job.    *)

-----------------------------------------------------------------------------
(* The places of each job.                                                 *)
AskPlaces == {"ask", "request", "store", "card", "post", "record", "mail", "send", "commit", "end"}
NotePlaces == {"mirror", "note", "keep"}

(* A ticket, by mode: approvals asked, and notes, of which one is posted.  *)
Tickets == [A!Modes -> [asked : Nat, notes : {<<>>} \cup {<<c>> : c \in Choices \cup {"none"}}]]
References == [approval : {"none"} \cup A!Modes, mirror : BOOLEAN]

(* What a worker knows.                                                    *)
States == [job : A!JobNames \cup {"none"}, at : A!Places, ref : References, saw : 0 .. MaxVersion, told : BOOLEAN]

(* The types, with what the type invariant leaves out.                     *)
AskTypes ==
    /\ A!Given /\ setup \in A!SetupType /\ A!TypeOK
    /\ ticket \in Tickets
    /\ row \in [fs : References, slack : Nat, email : [msg : Nat, bounced : BOOLEAN]]
    /\ worker \in [Messengers -> States]
    /\ lost \in Nat /\ blind \in Nat
    /\ decision # A!NoDecision => decision.choice \in Choices

(* A job is held by one worker at most, and can be tried while it is       *)
(* ready.                                                                  *)
JobsFit ==
    /\ \A w \in Messengers : worker[w].job # "none" => tasks[worker[w].job].state = "held"
    /\ \A v, w \in Messengers : v # w => worker[v].job = "none" \/ worker[v].job # worker[w].job
    /\ \A k \in A!JobNames : /\ tasks[k].state = "ready" => tasks[k].tries < MaxTries
                             /\ tasks[k].state = "none" => tasks[k].tries = 0
    /\ decision = A!NoDecision => tasks["mirror"].state = "none" /\ tasks["update"].state = "none"

(* The approver was asked on a ticket; anywhere.                           *)
OnTicket == \E m \in A!Modes : ticket[m].asked > 0
Reached == OnTicket \/ cards # <<>> \/ mails # <<>>

(* A mail is out, and its row is about to be written.                      *)
Sent == mails # <<>> /\ mails[Len(mails)].notice # "applied" /\ row.email.msg = 0

(* What a worker knows is so.                                              *)
Known(x) ==
    /\ \/ x = A!Idle
       \/ x.job = "dispatch" /\ x.at \in AskPlaces
       \/ x.job = "mirror" /\ x.at \in NotePlaces
       \/ x.job = "update" /\ x.at = "redraw"
    /\ x.ref.approval # "none" \/ x.at = "store" => OnTicket
    /\ x.at \in {"post", "send"} => x.saw >= 1
    /\ x.at = "record" => cards # <<>>
    /\ x.at = "commit" => Sent
    /\ x.told => Reached

Fits(w) == Known(worker[w])

(* Each mail but the one on record, or about to be, was lost.              *)
MailsFit ==
    /\ Len(mails) <= 1 + lost + blind
    /\ row.email.msg = 0 /\ (\A w \in Messengers : ~A!At(w, "commit")) => Len(mails) <= lost + blind

AskInv ==
    /\ AskTypes /\ JobsFit /\ \A w \in Messengers : Fits(w)
    /\ row.fs.approval # "none" => OnTicket
    /\ MailsFit /\ A!TicketWrittenOnce /\ A!DoneMeansAsked /\ A!BounceIsMarked

(* An approver is asked on a ticket where nobody was.                      *)
LEMMA AskedOnce ==
    ASSUME AskInv
    PROVE  /\ A!AskedApproval \in Tickets
           /\ \A m \in A!Modes : /\ A!AskedApproval[m].asked <= 1 /\ A!AskedApproval[m].notes = ticket[m].notes
                                 /\ A!AskedApproval[m].asked >= ticket[m].asked
           /\ \E m \in A!Modes : A!AskedApproval[m].asked > 0
<1> mode \in A!Modes /\ ticket \in Tickets
  BY DEF AskInv, AskTypes, A!TypeOK
<1>1. CASE ticket[mode].asked > 0
  BY <1>1 DEF A!AskedApproval, AskInv, A!TicketWrittenOnce, Tickets
<1>2. CASE ~(ticket[mode].asked > 0)
  <2>1. ticket[mode].asked = 0
    BY <1>2 DEF Tickets
  <2>2. A!AskedApproval = [ticket EXCEPT ![mode].asked = 1]
    BY <1>2, <2>1 DEF A!AskedApproval
  <2> QED BY <2>1, <2>2 DEF AskInv, A!TicketWrittenOnce, Tickets
<1> QED BY <1>1, <1>2

(* A note is the first on its ticket.                                      *)
LEMMA NotedOnce ==
    ASSUME AskInv
    PROVE  /\ A!Noted \in Tickets
           /\ \A m \in A!Modes : Len(A!Noted[m].notes) <= 1 /\ A!Noted[m].asked = ticket[m].asked
<1> mode \in A!Modes /\ ticket \in Tickets
    /\ decision.choice \in Choices \cup {"none"}
  BY DEF AskInv, AskTypes, A!TypeOK
<1>1. CASE ticket[mode].notes # <<>>
  BY <1>1 DEF A!Noted, AskInv, A!TicketWrittenOnce, Tickets
<1>2. CASE ticket[mode].notes = <<>>
  <2>2. A!Noted = [ticket EXCEPT ![mode].notes = <<decision.choice>>]
    BY <1>2 DEF A!Noted
  <2> QED BY <2>2 DEF AskInv, A!TicketWrittenOnce, Tickets
<1> QED BY <1>1, <1>2

-----------------------------------------------------------------------------
(* A worker goes on with its job.                                          *)
LEMMA GoesOn ==
    ASSUME AskInv, NEW w \in Messengers, NEW x \in States, x.job = worker[w].job,
           worker' = [worker EXCEPT ![w] = x], tasks' = tasks, decision' = decision
    PROVE  /\ worker' \in [Messengers -> States] /\ JobsFit'
           /\ \A v \in Messengers : worker'[v] = IF v = w THEN x ELSE worker[v]
<1>1. worker \in [Messengers -> States]
  BY DEF AskInv, AskTypes
<1>2. worker' \in [Messengers -> States] /\ \A v \in Messengers : worker'[v] = IF v = w THEN x ELSE worker[v]
  BY <1>1
<1>3. \A v \in Messengers : worker'[v].job = worker[v].job
  BY <1>2
<1> QED BY <1>2, <1>3 DEF AskInv, JobsFit

(* A worker is through with its job.                                       *)
LEMMA IsThrough ==
    ASSUME AskInv, NEW w \in Messengers, worker[w].job \in A!JobNames,
           NEW state \in {"ready", "done", "dead"}, A!Finish(w, state),
           state = "ready" => tasks[worker[w].job].tries < MaxTries, decision' = decision
    PROVE  /\ worker' \in [Messengers -> States] /\ JobsFit'
           /\ \A v \in Messengers : worker'[v] = IF v = w THEN A!Idle ELSE worker[v]
           /\ tasks' \in [A!JobNames -> [state : {"none", "ready", "held", "done", "dead"}, tries : 0 .. MaxTries]]
           /\ \A k \in A!JobNames : tasks'[k].state = IF k = worker[w].job THEN state ELSE tasks[k].state
<1>1. worker \in [Messengers -> States]
      /\ tasks \in [A!JobNames -> [state : {"none", "ready", "held", "done", "dead"}, tries : 0 .. MaxTries]]
  BY DEF AskInv, AskTypes, A!TypeOK
<1> DEFINE k == worker[w].job
<1>2. k \in A!JobNames
  OBVIOUS
<1>3. tasks' = [tasks EXCEPT ![k].state = state] /\ worker' = [worker EXCEPT ![w] = A!Idle]
  BY DEF A!Finish
<1> HIDE DEF k
<1>4. /\ tasks' \in [A!JobNames -> [state : {"none", "ready", "held", "done", "dead"}, tries : 0 .. MaxTries]]
      /\ \A j \in A!JobNames : /\ tasks'[j].state = IF j = k THEN state ELSE tasks[j].state
                               /\ tasks'[j].tries = tasks[j].tries
  BY <1>1, <1>2, <1>3
<1>5. A!Idle \in States
  <2>2. 0 \in 0 .. MaxVersion
    BY DEF AskInv, AskTypes, A!Given
  <2> QED BY <2>2 DEF A!Idle, States, References, A!NoRef, A!Places
<1>6. worker' \in [Messengers -> States] /\ \A v \in Messengers : worker'[v] = IF v = w THEN A!Idle ELSE worker[v]
  BY <1>1, <1>3, <1>5
<1>7. \A v \in Messengers \ {w} : worker[v].job = "none" \/ worker[v].job # k
  BY DEF AskInv, JobsFit, k
<1>8. \A v \in Messengers : worker[v].job \in A!JobNames \cup {"none"}
  BY <1>1 DEF States
<1>9. A!Idle.job = "none"
  BY DEF A!Idle
<1>10. \A v \in Messengers : worker'[v].job # "none" => tasks'[worker'[v].job].state = "held"
  BY <1>2, <1>4, <1>6, <1>7, <1>8, <1>9 DEF AskInv, JobsFit
<1>11. \A u, v \in Messengers : u # v => worker'[u].job = "none" \/ worker'[u].job # worker'[v].job
  BY <1>6, <1>9 DEF AskInv, JobsFit
<1>12. \A j \in A!JobNames : /\ tasks'[j].state = "ready" => tasks'[j].tries < MaxTries
                             /\ tasks'[j].state = "none" => tasks'[j].tries = 0
  BY <1>2, <1>4 DEF AskInv, JobsFit, k
<1>13. decision' = A!NoDecision => tasks'["mirror"].state = "none" /\ tasks'["update"].state = "none"
  <2>1. tasks[k].state = "held"
    BY <1>2 DEF AskInv, JobsFit, k, A!JobNames
  <2> QED BY <1>2, <1>4, <2>1 DEF AskInv, JobsFit, A!JobNames
<1> QED BY <1>4, <1>6, <1>10, <1>11, <1>12, <1>13 DEF JobsFit, k

(* What the others know stays so.                                          *)
LEMMA OthersFit ==
    ASSUME AskInv, NEW w \in Messengers, worker[w].job \in A!JobNames,
           \A v \in Messengers \ {w} : worker'[v] = worker[v],
           OnTicket => OnTicket', cards # <<>> => cards' # <<>>, mails # <<>> => mails' # <<>>,
           worker[w].job = "dispatch" \/ (mails' = mails /\ row'.email = row.email)
    PROVE  \A v \in Messengers \ {w} : Fits(v)'
<1> SUFFICES ASSUME NEW v \in Messengers \ {w} PROVE Fits(v)'
  OBVIOUS
<1>1. Fits(v) /\ worker'[v] = worker[v] /\ (worker[v].job = "none" \/ worker[v].job # worker[w].job)
  BY DEF AskInv, JobsFit
<1>2. A!At(v, "commit") => worker[v].job = "dispatch"
  BY <1>1 DEF Fits, Known, A!At, A!Idle, AskPlaces, NotePlaces
<1>3. A!At(v, "commit") => Sent /\ Sent'
  BY <1>1, <1>2 DEF Fits, Known, A!At, Sent, A!JobNames
<1>4. Reached => Reached'
  BY DEF Reached
<1> QED BY <1>1, <1>3, <1>4 DEF Fits, Known, A!At

-----------------------------------------------------------------------------
(* The approver has not been asked yet.                                    *)
LEMMA AskStarts == A!Given /\ A!Init => AskInv
<1> SUFFICES ASSUME A!Given, A!Init PROVE AskInv
  OBVIOUS
<1>1. /\ setup \in A!SetupType /\ mode \in A!Modes
      /\ 0 \in 0 .. MaxTries /\ 0 \in 0 .. MaxVersion /\ 1 \in 1 .. MaxVersion /\ 0 \in 0 .. MaxFaults
  BY DEF A!Init, A!Given, A!SetupType
<1>2. A!Idle \in States
  BY <1>1 DEF A!Idle, States, References, A!NoRef, A!Places
<1>3. cards = <<>> /\ mails = <<>> /\ Len(cards) = 0 /\ Len(mails) = 0
  BY DEF A!Init
<1>4. A!TypeOK
  BY <1>1, <1>3 DEF A!Init, A!TypeOK, A!Modes, A!NoDecision, A!NoRef, A!JobNames, A!Idle, A!Places
<1>5. AskTypes
  BY <1>1, <1>2, <1>4 DEF A!Init, AskTypes, Tickets, References, A!NoRef
<1>6. JobsFit
  BY DEF A!Init, JobsFit, A!Idle, A!JobNames, A!Given
<1>7. \A w \in Messengers : Fits(w)
  BY DEF A!Init, Fits, Known, A!Idle, A!NoRef, A!At
<1>8. MailsFit /\ A!TicketWrittenOnce
  BY <1>3 DEF A!Init, MailsFit, A!TicketWrittenOnce
<1>9. row.fs.approval = "none" /\ A!BounceIsMarked
  BY DEF A!Init, A!NoRef, A!BounceIsMarked
<1>10. A!DoneMeansAsked
  BY DEF A!Init, A!JobNames, A!DoneMeansAsked
<1> QED BY <1>5, <1>6, <1>7, <1>8, <1>9, <1>10 DEF AskInv

(* A worker claims a job.                                                  *)
LEMMA ClaimIsSound == ASSUME AskInv, NEW w \in Messengers, NEW k \in A!JobNames, A!Claim(w, k) PROVE AskInv'
<1> DEFINE place == CASE k = "dispatch" -> "ask" [] k = "mirror" -> "mirror" [] k = "update" -> "redraw"
           x == [A!Idle EXCEPT !.job = k, !.at = place]
<1>1. worker \in [Messengers -> States] /\ worker[w] = A!Idle /\ tasks[k].state = "ready"
      /\ tasks \in [A!JobNames -> [state : {"none", "ready", "held", "done", "dead"}, tries : 0 .. MaxTries]]
      /\ tasks[k].tries < MaxTries /\ MaxTries \in Nat
  BY DEF A!Claim, AskInv, AskTypes, A!Given, A!TypeOK, JobsFit
<1>2. place \in A!Places
  BY DEF A!JobNames, A!Places
<1>3. /\ tasks' = [tasks EXCEPT ![k] = [state |-> "held", tries |-> tasks[k].tries + 1]]
      /\ worker' = [worker EXCEPT ![w].job = k, ![w].at = place]
      /\ UNCHANGED <<A!outside, ticket, cards, mails, row, faults, lost, blind>>
  BY DEF A!Claim
<1> HIDE DEF place
<1>4. x \in States /\ x.job = k /\ x.at = place /\ x.ref = A!NoRef /\ x.told = FALSE
  BY <1>1, <1>2 DEF States, A!Idle
<1>5. worker' = [worker EXCEPT ![w] = x]
  BY <1>1, <1>3
<1> HIDE DEF x
<1>6. worker' \in [Messengers -> States] /\ \A v \in Messengers : worker'[v] = IF v = w THEN x ELSE worker[v]
  BY <1>1, <1>4, <1>5
<1>7. tasks' \in [A!JobNames -> [state : {"none", "ready", "held", "done", "dead"}, tries : 0 .. MaxTries]]
      /\ tasks'[k].state = "held" /\ \A j \in A!JobNames \ {k} : tasks'[j] = tasks[j]
  BY <1>1, <1>3
<1>8. AskTypes'
  BY <1>3, <1>6, <1>7 DEF AskInv, AskTypes, A!TypeOK, A!outside, States
<1>9. JobsFit'
  <2>1. \A v \in Messengers \ {w} : worker[v].job # k
    BY <1>1 DEF AskInv, JobsFit, A!JobNames
  <2>2. worker[w].job = "none"
    BY <1>1 DEF A!Idle
  <2>3. \A v \in Messengers : worker[v].job \in A!JobNames \cup {"none"}
    BY <1>1 DEF States
  <2>4. \A v \in Messengers : worker'[v].job # "none" => tasks'[worker'[v].job].state = "held"
    BY <1>4, <1>6, <1>7, <2>1, <2>3 DEF AskInv, JobsFit
  <2>5. \A u, v \in Messengers : u # v => worker'[u].job = "none" \/ worker'[u].job # worker'[v].job
    BY <1>4, <1>6, <2>1 DEF AskInv, JobsFit
  <2>6. decision' = A!NoDecision => k \notin {"mirror", "update"}
    BY <1>1, <1>3 DEF AskInv, JobsFit, A!outside
  <2>7. decision' = decision
    BY <1>3 DEF A!outside
  <2> QED BY <1>7, <2>4, <2>5, <2>6, <2>7 DEF AskInv, JobsFit, A!JobNames
<1>10. \A v \in Messengers : Fits(v)'
  <2>1. ASSUME NEW v \in Messengers \ {w} PROVE Fits(v)'
    BY <1>3, <1>6, <2>1 DEF AskInv, Fits, Known, A!At, Sent, Reached, OnTicket
  <2>2. Fits(w)'
    <3>1. \/ k = "dispatch" /\ place = "ask"
          \/ k = "mirror" /\ place = "mirror"
          \/ k = "update" /\ place = "redraw"
      BY DEF place, A!JobNames
    <3> QED BY <1>4, <1>6, <3>1 DEF Fits, Known, A!At, AskPlaces, NotePlaces, A!NoRef
  <2> QED BY <2>1, <2>2
<1>11. MailsFit'
  <2>0. place # "commit"
    BY DEF place, A!JobNames
  <2>1. \A v \in Messengers : A!At(v, "commit")' => A!At(v, "commit")
    BY <1>4, <1>6, <2>0 DEF A!At
  <2>2. \A v \in Messengers : A!At(v, "commit") => A!At(v, "commit")'
    BY <1>1, <1>6 DEF A!At, A!Idle
  <2> QED BY <1>3, <2>1, <2>2 DEF AskInv, MailsFit
<1>12. tasks'["dispatch"].state = "done" => tasks["dispatch"].state = "done"
  BY <1>7 DEF A!JobNames
<1> QED BY <1>3, <1>8, <1>9, <1>10, <1>11, <1>12
        DEF AskInv, A!TicketWrittenOnce, A!DoneMeansAsked, A!BounceIsMarked, OnTicket, A!outside

-----------------------------------------------------------------------------
(* A step of a worker that sends no mail, and books none.                  *)
LEMMA WorkKept ==
    ASSUME AskInv, NEW w \in Messengers, worker[w].job \in A!JobNames, worker[w].at # "commit",
           AskTypes', JobsFit', Fits(w)', \A v \in Messengers \ {w} : worker'[v] = worker[v],
           OnTicket => OnTicket', cards # <<>> => cards' # <<>>,
           UNCHANGED <<mails, lost, blind>>, row'.email = row.email,
           row'.fs.approval # "none" => OnTicket', A!TicketWrittenOnce',
           tasks'["dispatch"].state = "done" => tasks["dispatch"].state = "done" \/ Reached
    PROVE  AskInv'
<1>1. \A v \in Messengers : Fits(v)'
  <2>1. \A v \in Messengers \ {w} : Fits(v)'
    BY OthersFit
  <2> QED BY <2>1
<1>2. MailsFit'
  <2>1. (\A v \in Messengers : ~A!At(v, "commit")') => \A v \in Messengers : ~A!At(v, "commit")
    BY DEF A!At
  <2> QED BY <2>1 DEF AskInv, MailsFit
<1>3. A!BounceIsMarked'
  BY DEF AskInv, A!BounceIsMarked
<1>4. A!DoneMeansAsked'
  <2>1. A!DoneMeansAsked = (tasks["dispatch"].state = "done" => Reached)
    BY DEF A!DoneMeansAsked, Reached, OnTicket
  <2>2. A!DoneMeansAsked' = (tasks'["dispatch"].state = "done" => Reached')
    BY DEF A!DoneMeansAsked, Reached, OnTicket
  <2>3. Reached => Reached'
    BY DEF Reached
  <2> QED BY <2>1, <2>2, <2>3 DEF AskInv
<1> QED BY <1>1, <1>2, <1>3, <1>4 DEF AskInv

(* A worker looks, and goes on.                                            *)
LEMMA LookKept ==
    ASSUME AskInv, NEW w \in Messengers, worker[w].job \in A!JobNames, worker[w].at # "commit",
           NEW x \in States, x.job = worker[w].job, Known(x), worker' = [worker EXCEPT ![w] = x],
           UNCHANGED <<A!outside, ticket, cards, mails, row, tasks, faults, lost, blind>>
    PROVE  AskInv'
<1>1. /\ worker' \in [Messengers -> States] /\ JobsFit'
      /\ \A v \in Messengers : worker'[v] = IF v = w THEN x ELSE worker[v]
  BY GoesOn DEF A!outside
<1>2. AskTypes'
  BY <1>1 DEF AskInv, AskTypes, A!TypeOK, States, A!outside
<1>3. Fits(w)'
  BY <1>1 DEF Fits, Known, Sent, Reached, OnTicket
<1>4. row'.fs.approval # "none" => OnTicket'
  BY DEF AskInv, OnTicket
<1>5. A!TicketWrittenOnce'
  BY DEF AskInv, A!TicketWrittenOnce
<1> QED BY <1>1, <1>2, <1>3, <1>4, <1>5, WorkKept DEF OnTicket

(* A worker is through, or will be back; what it leaves behind.            *)
LEMMA EndKept ==
    ASSUME AskInv, NEW w \in Messengers, worker[w].job \in A!JobNames, worker[w].at # "commit",
           NEW state \in {"ready", "done", "dead"}, A!Finish(w, state),
           state = "ready" => tasks[worker[w].job].tries < MaxTries,
           state = "done" /\ worker[w].job = "dispatch" => worker[w].told,
           UNCHANGED <<A!outside, mails, lost, blind>>, faults' \in {faults} \cup {f \in 0 .. MaxFaults : f > faults},
           ticket' \in Tickets, OnTicket => OnTicket', A!TicketWrittenOnce',
           cards' \in Seq([version : 1 .. MaxVersion, shows : {"buttons", "decided"}]), Len(cards') >= Len(cards),
           row' \in [fs : References, slack : Nat, email : [msg : Nat, bounced : BOOLEAN]],
           row'.slack = row.slack, row'.email = row.email, row'.fs.approval # "none" => OnTicket'
    PROVE  AskInv'
<1>1. /\ worker' \in [Messengers -> States] /\ JobsFit'
      /\ \A v \in Messengers : worker'[v] = IF v = w THEN A!Idle ELSE worker[v]
      /\ tasks' \in [A!JobNames -> [state : {"none", "ready", "held", "done", "dead"}, tries : 0 .. MaxTries]]
      /\ \A k \in A!JobNames : tasks'[k].state = IF k = worker[w].job THEN state ELSE tasks[k].state
  BY IsThrough DEF A!outside
<1>2. cards # <<>> => cards' # <<>>
  BY DEF AskInv, AskTypes, A!TypeOK
<1>3. AskTypes'
  <2>1. faults' \in 0 .. MaxFaults /\ lost + blind <= faults'
    BY DEF AskInv, AskTypes, A!TypeOK, A!Given
  <2>2. row'.slack \in 0 .. Len(cards') /\ row'.email \in [msg : 0 .. Len(mails), bounced : BOOLEAN]
    BY DEF AskInv, AskTypes, A!TypeOK
  <2>3. row'.fs \in [approval : {"none"} \cup A!Modes, mirror : BOOLEAN]
    BY DEF References
  <2>4. DOMAIN ticket' = A!Modes /\ \A m \in A!Modes : ticket'[m].asked \in Nat
    BY DEF Tickets
  <2>5. \A v \in Messengers : worker'[v].job \in A!JobNames \cup {"none"} /\ worker'[v].at \in A!Places
    BY <1>1 DEF States
  <2>6. A!TypeOK'
    BY <1>1, <2>1, <2>2, <2>3, <2>4, <2>5 DEF AskInv, AskTypes, A!TypeOK, A!outside
  <2> QED BY <1>1, <2>6 DEF AskInv, AskTypes, A!outside
<1>4. Fits(w)'
  BY <1>1 DEF Fits, Known, A!Idle, A!NoRef
<1>5. tasks'["dispatch"].state = "done" => tasks["dispatch"].state = "done" \/ Reached
  BY <1>1 DEF AskInv, Fits, Known, A!JobNames
<1> QED BY <1>1, <1>2, <1>3, <1>4, <1>5, WorkKept

(* A worker goes on, and has done something.                               *)
LEMMA TurnKept ==
    ASSUME AskInv, NEW w \in Messengers, worker[w].job \in A!JobNames, worker[w].at # "commit",
           NEW x \in States, x.job = worker[w].job, Known(x)', worker' = [worker EXCEPT ![w] = x],
           UNCHANGED <<A!outside, tasks, mails, faults, lost, blind>>,
           ticket' \in Tickets, OnTicket => OnTicket', A!TicketWrittenOnce',
           cards' \in Seq([version : 1 .. MaxVersion, shows : {"buttons", "decided"}]), Len(cards') >= Len(cards),
           row' \in [fs : References, slack : Nat, email : [msg : Nat, bounced : BOOLEAN]],
           row'.slack <= Len(cards'), row'.email = row.email, row'.fs.approval # "none" => OnTicket'
    PROVE  AskInv'
<1>1. /\ worker' \in [Messengers -> States] /\ JobsFit'
      /\ \A v \in Messengers : worker'[v] = IF v = w THEN x ELSE worker[v]
  BY GoesOn DEF A!outside
<1>2. cards # <<>> => cards' # <<>>
  BY DEF AskInv, AskTypes, A!TypeOK
<1>3. AskTypes'
  <2>1. row'.slack \in 0 .. Len(cards') /\ row'.email \in [msg : 0 .. Len(mails), bounced : BOOLEAN]
    BY DEF AskInv, AskTypes, A!TypeOK
  <2>2. row'.fs \in [approval : {"none"} \cup A!Modes, mirror : BOOLEAN]
    BY DEF References
  <2>3. DOMAIN ticket' = A!Modes /\ \A m \in A!Modes : ticket'[m].asked \in Nat
    BY DEF Tickets
  <2>4. \A v \in Messengers : worker'[v].job \in A!JobNames \cup {"none"} /\ worker'[v].at \in A!Places
    BY <1>1 DEF States
  <2>5. A!TypeOK'
    BY <1>1, <2>1, <2>2, <2>3, <2>4 DEF AskInv, AskTypes, A!TypeOK, A!outside
  <2> QED BY <1>1, <2>5 DEF AskInv, AskTypes, A!outside
<1>4. Fits(w)'
  BY <1>1 DEF Fits, Known, Sent, Reached, OnTicket
<1> QED BY <1>1, <1>2, <1>3, <1>4, WorkKept

-----------------------------------------------------------------------------
(* A place belongs to a job.                                               *)
LEMMA PlaceOfJob ==
    ASSUME AskInv, NEW w \in Messengers
    PROVE  /\ worker[w] \in States /\ Known(worker[w])
           /\ worker[w].at \in AskPlaces => worker[w].job = "dispatch"
           /\ worker[w].at \in NotePlaces => worker[w].job = "mirror"
           /\ worker[w].at = "redraw" => worker[w].job = "update"
           /\ worker[w].job = "none" => worker[w] = A!Idle
  BY DEF AskInv, AskTypes, Fits, Known, A!Idle, AskPlaces, NotePlaces

(* A worker at a place that is told, or goes on, holds a job.              *)
LEMMA TriesLeft ==
    ASSUME AskInv, NEW w \in Messengers, worker[w].job \in A!JobNames, A!Again(w)
    PROVE  \E state \in {"ready", "dead"} :
              A!Finish(w, state) /\ (state = "ready" => tasks[worker[w].job].tries < MaxTries)
  BY DEF A!Again

(* What a fault counts.                                                    *)
LEMMA Counted == ASSUME AskInv, A!Fault PROVE faults' \in {f \in 0 .. MaxFaults : f > faults} /\ faults' = faults + 1
  BY DEF AskInv, AskTypes, A!TypeOK, A!Fault, A!Given

(* What was there stays there.                                             *)
LEMMA AsTheyWere ==
    ASSUME AskInv
    PROVE  /\ ticket \in Tickets /\ A!TicketWrittenOnce /\ (row.fs.approval # "none" => OnTicket)
           /\ cards \in Seq([version : 1 .. MaxVersion, shows : {"buttons", "decided"}]) /\ Len(cards) \in Nat
           /\ mails \in Seq([version : 1 .. MaxVersion, notice : {"none", "sent", "overtook", "applied"}])
           /\ Len(mails) \in Nat
           /\ row \in [fs : References, slack : Nat, email : [msg : Nat, bounced : BOOLEAN]]
           /\ row.slack <= Len(cards) /\ row.email.msg <= Len(mails) /\ worker \in [Messengers -> States]
           /\ action.version \in 1 .. MaxVersion /\ mode \in A!Modes
  BY DEF AskInv, AskTypes, A!TypeOK

(* A job that is to be tried again, or no more.                            *)
LEMMA FaultKept ==
    ASSUME AskInv, NEW w \in Messengers, worker[w].job \in A!JobNames, worker[w].at # "commit", A!Fault, A!Again(w),
           UNCHANGED <<A!outside, cards, mails, row, lost, blind>>,
           ticket' \in Tickets, OnTicket => OnTicket', A!TicketWrittenOnce'
    PROVE  AskInv'
<1>1. PICK state \in {"ready", "dead"} : A!Finish(w, state) /\ (state = "ready" => tasks[worker[w].job].tries < MaxTries)
  BY TriesLeft
<1>2. faults' \in {f \in 0 .. MaxFaults : f > faults}
  BY Counted
<1>3. /\ cards' \in Seq([version : 1 .. MaxVersion, shows : {"buttons", "decided"}]) /\ Len(cards') >= Len(cards)
      /\ row' \in [fs : References, slack : Nat, email : [msg : Nat, bounced : BOOLEAN]]
      /\ row'.slack = row.slack /\ row'.email = row.email
  BY AsTheyWere
<1>4. row'.fs.approval # "none" => OnTicket'
  BY AsTheyWere
<1>5. state \in {"ready", "done", "dead"} /\ (state = "done" /\ worker[w].job = "dispatch" => worker[w].told)
  BY <1>1
<1>6. UNCHANGED <<A!outside, mails, lost, blind>>
  OBVIOUS
<1>7. faults' \in {faults} \cup {f \in 0 .. MaxFaults : f > faults}
  BY <1>2
<1> HIDE DEF A!outside
<1> QED BY <1>1, <1>3, <1>4, <1>5, <1>6, <1>7, EndKept

(* The dispatch looks at the ticket.                                       *)
LEMMA AskOnTicketKept == ASSUME AskInv, NEW w \in Messengers, A!AskOnTicket(w) PROVE AskInv'
<1>1. /\ worker[w] \in States /\ Known(worker[w]) /\ worker[w].job = "dispatch" /\ worker[w].at = "ask"
      /\ worker \in [Messengers -> States]
  BY PlaceOfJob DEF A!AskOnTicket, A!At, AskPlaces, AskInv, AskTypes
<1>2. PICK x \in States :
         /\ \/ x = [worker[w] EXCEPT !.at = "card"] \/ x = [worker[w] EXCEPT !.at = "request"]
            \/ x = [worker[w] EXCEPT !.at = "card", !.told = TRUE] /\ row.fs.approval = mode
         /\ worker' = [worker EXCEPT ![w] = x]
  <2>1. \/ worker' = [worker EXCEPT ![w] = [worker[w] EXCEPT !.at = "card"]]
        \/ worker' = [worker EXCEPT ![w] = [worker[w] EXCEPT !.at = "request"]]
        \/ worker' = [worker EXCEPT ![w] = [worker[w] EXCEPT !.at = "card", !.told = TRUE]] /\ row.fs.approval = mode
    BY <1>1 DEF A!AskOnTicket, A!Go, A!GoTold
  <2>2. /\ [worker[w] EXCEPT !.at = "card"] \in States /\ [worker[w] EXCEPT !.at = "request"] \in States
        /\ [worker[w] EXCEPT !.at = "card", !.told = TRUE] \in States
    BY <1>1 DEF States, A!Places
  <2> QED BY <2>1, <2>2
<1>3. row.fs.approval = mode => OnTicket
  BY DEF AskInv, AskTypes, A!TypeOK, A!Modes
<1>4. x.job = worker[w].job /\ Known(x)
  BY <1>1, <1>2, <1>3 DEF Known, States, AskPlaces, A!Idle, Reached
<1> QED BY <1>1, <1>2, <1>4, LookKept DEF A!AskOnTicket, A!JobNames

(* The approval is asked for.                                              *)
LEMMA RequestApprovalKept == ASSUME AskInv, NEW w \in Messengers, A!RequestApproval(w) PROVE AskInv'
<1>1. /\ worker[w] \in States /\ Known(worker[w]) /\ worker[w].job = "dispatch" /\ worker[w].at = "request"
      /\ worker \in [Messengers -> States]
  BY PlaceOfJob DEF A!RequestApproval, A!At, AskPlaces, AskInv, AskTypes
<1>2. /\ A!AskedApproval \in Tickets /\ \E m \in A!Modes : A!AskedApproval[m].asked > 0
      /\ \A m \in A!Modes : A!AskedApproval[m].asked <= 1 /\ A!AskedApproval[m].notes = ticket[m].notes
  BY AskedOnce
<1>3. ticket' \in {ticket, A!AskedApproval}
  BY DEF A!RequestApproval
<1>4. ticket' \in Tickets /\ A!TicketWrittenOnce' /\ (OnTicket => OnTicket')
  BY <1>2, <1>3 DEF AskInv, AskTypes, A!TicketWrittenOnce, OnTicket
<1>5. row.fs.approval # "none" => OnTicket'
  BY <1>4 DEF AskInv
<1>6. CASE ticket' = A!AskedApproval /\ A!Go(w, "store") /\ UNCHANGED <<tasks, faults>>
  <2> DEFINE y == [worker[w] EXCEPT !.at = "store"]
  <2>1. y \in States /\ y.job = worker[w].job /\ worker' = [worker EXCEPT ![w] = y]
    BY <1>1, <1>6 DEF States, A!Places, A!Go
  <2>2. PICK x \in States : x = y
    BY <2>1
  <2>3. /\ worker' \in [Messengers -> States] /\ JobsFit'
        /\ \A v \in Messengers : worker'[v] = IF v = w THEN x ELSE worker[v]
    BY <1>6, <2>1, <2>2, GoesOn DEF A!RequestApproval, A!outside
  <2>4. AskTypes'
    BY <1>4, <1>6, <2>3 DEF AskInv, AskTypes, A!TypeOK, States, A!outside, Tickets, A!RequestApproval
  <2>5. OnTicket'
    BY <1>2, <1>6 DEF OnTicket
  <2>6. x.at = "store" /\ x.job = "dispatch" /\ x.ref = worker[w].ref /\ x.told = worker[w].told
    BY <1>1, <2>2 DEF States
  <2>7. Fits(w)'
    BY <1>1, <2>3, <2>5, <2>6 DEF Fits, Known, AskPlaces, Reached
  <2> QED BY <1>1, <1>4, <1>5, <1>6, <2>3, <2>4, <2>7, WorkKept DEF A!RequestApproval, A!outside, A!JobNames
<1>7. CASE A!Fault /\ A!Again(w)
  <2>1. UNCHANGED <<A!outside, cards, mails, row, lost, blind>>
    BY DEF A!RequestApproval
  <2> QED BY <1>1, <1>4, <1>7, <2>1, FaultKept DEF A!JobNames
<1> QED BY <1>6, <1>7 DEF A!RequestApproval

(* The approval is stored.                                                 *)
LEMMA StoreApprovalKept == ASSUME AskInv, NEW w \in Messengers, A!StoreApproval(w) PROVE AskInv'
<1>1. /\ worker[w] \in States /\ Known(worker[w]) /\ worker[w].job = "dispatch" /\ worker[w].at = "store"
  BY PlaceOfJob DEF A!StoreApproval, A!At, AskPlaces
<1> DEFINE y == [worker[w] EXCEPT !.at = "card", !.told = TRUE]
<1>2. y \in States /\ y.job = "dispatch" /\ y.at = "card" /\ y.ref = worker[w].ref /\ worker' = [worker EXCEPT ![w] = y]
  BY <1>1, AsTheyWere DEF States, A!Places, A!StoreApproval, A!GoTold
<1>3. PICK x \in States : x = y
  BY <1>2
<1>4. OnTicket
  BY <1>1 DEF Known
<1>5. UNCHANGED <<A!outside, ticket, cards, mails, tasks, faults, lost, blind>>
  BY DEF A!StoreApproval
<1>6. OnTicket' /\ Reached' /\ A!TicketWrittenOnce'
  BY <1>4, <1>5, AsTheyWere DEF OnTicket, Reached, A!TicketWrittenOnce
<1>7. Known(x)'
  BY <1>2, <1>3, <1>6 DEF Known, AskPlaces
<1>8. row' = [row EXCEPT !.fs = [approval |-> mode, mirror |-> FALSE]]
  BY DEF A!StoreApproval
<1>9. /\ row' \in [fs : References, slack : Nat, email : [msg : Nat, bounced : BOOLEAN]]
      /\ row'.slack = row.slack /\ row'.email = row.email
  BY <1>8, AsTheyWere DEF References
<1>10. x.job = worker[w].job /\ worker' = [worker EXCEPT ![w] = x]
  BY <1>1, <1>2, <1>3
<1>11. /\ UNCHANGED <<A!outside, tasks, mails, faults, lost, blind>>
       /\ ticket' \in Tickets /\ (OnTicket => OnTicket') /\ (row'.fs.approval # "none" => OnTicket')
       /\ cards' \in Seq([version : 1 .. MaxVersion, shows : {"buttons", "decided"}])
       /\ Len(cards') >= Len(cards) /\ row'.slack <= Len(cards')
  BY <1>5, <1>6, <1>9, AsTheyWere
<1> HIDE DEF y, A!outside
<1> QED BY <1>1, <1>6, <1>7, <1>9, <1>10, <1>11, TurnKept DEF A!JobNames

(* The dispatch looks for its card.                                        *)
LEMMA FindCardKept == ASSUME AskInv, NEW w \in Messengers, A!FindCard(w) PROVE AskInv'
<1>1. /\ worker[w] \in States /\ Known(worker[w]) /\ worker[w].job = "dispatch" /\ worker[w].at = "card"
  BY PlaceOfJob DEF A!FindCard, A!At, AskPlaces
<1>2. PICK x \in States :
         /\ \/ x = [worker[w] EXCEPT !.at = "mail"] \/ x = [worker[w] EXCEPT !.at = "post", !.saw = action.version]
            \/ x = [worker[w] EXCEPT !.at = "mail", !.told = TRUE] /\ row.slack # 0
         /\ worker' = [worker EXCEPT ![w] = x]
  <2>1. \/ worker' = [worker EXCEPT ![w] = [worker[w] EXCEPT !.at = "mail"]]
        \/ worker' = [worker EXCEPT ![w] = [worker[w] EXCEPT !.at = "post", !.saw = action.version]]
        \/ worker' = [worker EXCEPT ![w] = [worker[w] EXCEPT !.at = "mail", !.told = TRUE]] /\ row.slack # 0
    BY <1>1, AsTheyWere DEF A!FindCard, A!Go, A!GoTold
  <2>2. action.version \in 0 .. MaxVersion
    BY AsTheyWere
  <2>3. /\ [worker[w] EXCEPT !.at = "mail"] \in States
        /\ [worker[w] EXCEPT !.at = "post", !.saw = action.version] \in States
        /\ [worker[w] EXCEPT !.at = "mail", !.told = TRUE] \in States
    BY <1>1, <2>2 DEF States, A!Places
  <2> QED BY <2>1, <2>3
<1>3. row.slack # 0 => cards # <<>>
  BY AsTheyWere
<1>4. action.version >= 1
  BY AsTheyWere
<1>5. x.job = worker[w].job /\ Known(x)
  BY <1>1, <1>2, <1>3, <1>4 DEF Known, States, AskPlaces, A!Idle, Reached
<1> QED BY <1>1, <1>2, <1>5, LookKept DEF A!FindCard, A!JobNames

(* The card is posted.                                                     *)
LEMMA PostCardKept == ASSUME AskInv, NEW w \in Messengers, A!PostCard(w) PROVE AskInv'
<1>1. /\ worker[w] \in States /\ Known(worker[w]) /\ worker[w].job = "dispatch" /\ worker[w].at = "post"
      /\ worker[w].saw \in 1 .. MaxVersion
  BY PlaceOfJob DEF A!PostCard, A!At, AskPlaces, Known, States
<1>2. UNCHANGED <<A!outside, ticket, mails, row, lost, blind>>
  BY DEF A!PostCard
<1>3. A!TicketWrittenOnce' /\ (OnTicket => OnTicket') /\ (row'.fs.approval # "none" => OnTicket')
  BY <1>2, AsTheyWere DEF OnTicket, A!TicketWrittenOnce
<1>4. CASE /\ cards' = Append(cards, [version |-> worker[w].saw, shows |-> "buttons"])
           /\ A!Go(w, "record") /\ UNCHANGED <<tasks, faults>>
  <2> DEFINE y == [worker[w] EXCEPT !.at = "record"]
  <2>1. y \in States /\ y.job = "dispatch" /\ y.at = "record" /\ y.ref = worker[w].ref
        /\ worker' = [worker EXCEPT ![w] = y]
    BY <1>1, <1>4, AsTheyWere DEF States, A!Places, A!Go
  <2>2. PICK x \in States : x = y
    BY <2>1
  <2>3. /\ cards' \in Seq([version : 1 .. MaxVersion, shows : {"buttons", "decided"}])
        /\ Len(cards') = Len(cards) + 1 /\ cards' # <<>>
    BY <1>1, <1>4, AsTheyWere
  <2>4. Known(x)'
    BY <1>1, <1>2, <1>3, <2>1, <2>2, <2>3 DEF Known, AskPlaces, Reached, OnTicket
  <2>5. Len(cards') >= Len(cards) /\ row'.slack <= Len(cards') /\ row'.email = row.email
    BY <1>2, <2>3, AsTheyWere
  <2>6. x.job = worker[w].job /\ worker' = [worker EXCEPT ![w] = x]
    BY <1>1, <2>1, <2>2
  <2>7. /\ UNCHANGED <<A!outside, tasks, mails, faults, lost, blind>> /\ ticket' \in Tickets
        /\ row' \in [fs : References, slack : Nat, email : [msg : Nat, bounced : BOOLEAN]]
    BY <1>2, <1>4, AsTheyWere
  <2> HIDE DEF y, A!outside
  <2> QED BY <1>1, <1>3, <2>3, <2>4, <2>5, <2>6, <2>7, TurnKept DEF A!JobNames
<1>5. CASE A!Fault /\ A!Again(w) /\ UNCHANGED cards
  <2>1. UNCHANGED <<A!outside, cards, mails, row, lost, blind>> /\ ticket' \in Tickets
    BY <1>2, <1>5, AsTheyWere
  <2> QED BY <1>1, <1>3, <1>5, <2>1, FaultKept DEF A!JobNames
<1> QED BY <1>4, <1>5 DEF A!PostCard

(* The card is recorded.                                                   *)
LEMMA RecordCardKept == ASSUME AskInv, NEW w \in Messengers, A!RecordCard(w) PROVE AskInv'
<1>1. /\ worker[w] \in States /\ Known(worker[w]) /\ worker[w].job = "dispatch" /\ worker[w].at = "record"
  BY PlaceOfJob DEF A!RecordCard, A!At, AskPlaces
<1> DEFINE y == [worker[w] EXCEPT !.at = "mail", !.told = TRUE]
<1>2. y \in States /\ y.job = "dispatch" /\ y.at = "mail" /\ y.ref = worker[w].ref /\ worker' = [worker EXCEPT ![w] = y]
  BY <1>1, AsTheyWere DEF States, A!Places, A!RecordCard, A!GoTold
<1>3. PICK x \in States : x = y
  BY <1>2
<1>4. UNCHANGED <<A!outside, ticket, cards, mails, tasks, faults, lost, blind>> /\ cards # <<>>
  BY <1>1 DEF A!RecordCard, Known
<1>5. A!TicketWrittenOnce' /\ (OnTicket => OnTicket') /\ Reached'
  BY <1>4, AsTheyWere DEF OnTicket, Reached, A!TicketWrittenOnce
<1>6. Known(x)'
  BY <1>1, <1>2, <1>3, <1>5 DEF Known, AskPlaces
<1>7. row' = [row EXCEPT !.slack = Len(cards)]
  BY DEF A!RecordCard
<1>8. /\ row' \in [fs : References, slack : Nat, email : [msg : Nat, bounced : BOOLEAN]]
      /\ row'.slack = Len(cards) /\ row'.email = row.email /\ row'.fs = row.fs
  BY <1>7, AsTheyWere
<1>9. row'.fs.approval # "none" => OnTicket'
  BY <1>5, <1>8, AsTheyWere
<1>10. x.job = worker[w].job /\ worker' = [worker EXCEPT ![w] = x]
  BY <1>1, <1>2, <1>3
<1>11. /\ UNCHANGED <<A!outside, tasks, mails, faults, lost, blind>> /\ ticket' \in Tickets
       /\ cards' \in Seq([version : 1 .. MaxVersion, shows : {"buttons", "decided"}])
       /\ Len(cards') >= Len(cards) /\ row'.slack <= Len(cards')
  BY <1>4, <1>8, AsTheyWere
<1> HIDE DEF y, A!outside
<1> QED BY <1>1, <1>5, <1>6, <1>8, <1>9, <1>10, <1>11, TurnKept DEF A!JobNames

(* The dispatch looks whether its mail is to go.                           *)
LEMMA FindMailKept == ASSUME AskInv, NEW w \in Messengers, A!FindMail(w) PROVE AskInv'
<1>1. /\ worker[w] \in States /\ Known(worker[w]) /\ worker[w].job = "dispatch" /\ worker[w].at = "mail"
  BY PlaceOfJob DEF A!FindMail, A!At, AskPlaces
<1>2. PICK x \in States :
         /\ \/ x = [worker[w] EXCEPT !.at = "send", !.saw = action.version]
            \/ x = [worker[w] EXCEPT !.at = "end", !.saw = action.version]
         /\ worker' = [worker EXCEPT ![w] = x]
  <2>1. \/ worker' = [worker EXCEPT ![w] = [worker[w] EXCEPT !.at = "send", !.saw = action.version]]
        \/ worker' = [worker EXCEPT ![w] = [worker[w] EXCEPT !.at = "end", !.saw = action.version]]
    <3>1. CASE setup.mail /\ A!Awaiting /\ action.version = 1
      BY <1>1, <3>1, AsTheyWere DEF A!FindMail, States
    <3>2. CASE ~(setup.mail /\ A!Awaiting /\ action.version = 1)
      BY <1>1, <3>2, AsTheyWere DEF A!FindMail, States
    <3> QED BY <3>1, <3>2
  <2>2. action.version \in 0 .. MaxVersion
    BY AsTheyWere
  <2>3. /\ [worker[w] EXCEPT !.at = "send", !.saw = action.version] \in States
        /\ [worker[w] EXCEPT !.at = "end", !.saw = action.version] \in States
    BY <1>1, <2>2 DEF States, A!Places
  <2> QED BY <2>1, <2>3
<1>3. action.version >= 1
  BY AsTheyWere
<1>4. x.job = worker[w].job /\ Known(x)
  BY <1>1, <1>2, <1>3 DEF Known, States, AskPlaces, A!Idle, Reached
<1> QED BY <1>1, <1>2, <1>4, LookKept DEF A!FindMail, A!JobNames

(* A step of the dispatch that has to do with mails.                       *)
LEMMA MailStepKept ==
    ASSUME AskInv, NEW w \in Messengers, worker[w].job = "dispatch", AskTypes', JobsFit', Fits(w)',
           \A v \in Messengers \ {w} : worker'[v] = worker[v],
           UNCHANGED <<ticket, cards>>, mails # <<>> => mails' # <<>>, row'.fs = row.fs,
           MailsFit', A!BounceIsMarked',
           tasks'["dispatch"].state = "done" => tasks["dispatch"].state = "done" \/ Reached
    PROVE  AskInv'
<1>1. OnTicket => OnTicket'
  BY DEF OnTicket
<1>2. \A v \in Messengers : Fits(v)'
  <2>1. \A v \in Messengers \ {w} : Fits(v)'
    <3>1. /\ cards # <<>> => cards' # <<>>
          /\ worker[w].job \in A!JobNames
          /\ worker[w].job = "dispatch" \/ (mails' = mails /\ row'.email = row.email)
      BY DEF A!JobNames
    <3> QED BY <1>1, <3>1, OthersFit
  <2> QED BY <2>1
<1>3. A!TicketWrittenOnce' /\ (row'.fs.approval # "none" => OnTicket')
  BY <1>1 DEF AskInv, A!TicketWrittenOnce
<1>4. A!DoneMeansAsked'
  <2>1. A!DoneMeansAsked = (tasks["dispatch"].state = "done" => Reached)
    BY DEF A!DoneMeansAsked, Reached, OnTicket
  <2>2. A!DoneMeansAsked' = (tasks'["dispatch"].state = "done" => Reached')
    BY DEF A!DoneMeansAsked, Reached, OnTicket
  <2>3. Reached => Reached'
    BY <1>1 DEF Reached
  <2> QED BY <2>1, <2>2, <2>3 DEF AskInv
<1> QED BY <1>2, <1>3, <1>4 DEF AskInv

(* Only one worker is about to book a mail.                                *)
LEMMA AloneWithMail ==
    ASSUME AskInv, NEW w \in Messengers, worker[w].job = "dispatch"
    PROVE  \A v \in Messengers \ {w} : worker[v].at # "commit"
<1>1. \A v \in Messengers \ {w} : worker[v].job # "dispatch"
  BY DEF AskInv, JobsFit
<1> QED BY <1>1, PlaceOfJob DEF AskPlaces

(* A mail is appended: the types, and what it is.                          *)
LEMMA MailAppended ==
    ASSUME AskInv, NEW w \in Messengers, Known(worker[w]), worker[w].at = "send"
    PROVE  /\ A!NewMail(w) \in Seq([version : 1 .. MaxVersion, notice : {"none", "sent", "overtook", "applied"}])
           /\ Len(A!NewMail(w)) = Len(mails) + 1 /\ A!NewMail(w) # <<>>
           /\ A!NewMail(w)[Len(A!NewMail(w))].notice = "none"
<1>1. worker[w].saw \in 1 .. MaxVersion
  BY PlaceOfJob DEF Known, States
<1>2. mails \in Seq([version : 1 .. MaxVersion, notice : {"none", "sent", "overtook", "applied"}])
  BY AsTheyWere
<1> DEFINE m == [version |-> worker[w].saw, notice |-> "none"]
<1>3. m \in [version : 1 .. MaxVersion, notice : {"none", "sent", "overtook", "applied"}]
  BY <1>1
<1>4. A!NewMail(w) = Append(mails, m)
  BY DEF A!NewMail
<1> HIDE DEF m
<1>5. /\ A!NewMail(w) \in Seq([version : 1 .. MaxVersion, notice : {"none", "sent", "overtook", "applied"}])
      /\ Len(A!NewMail(w)) = Len(mails) + 1 /\ A!NewMail(w) # <<>>
      /\ A!NewMail(w)[Len(A!NewMail(w))] = m
  BY <1>2, <1>3, <1>4
<1> QED BY <1>5 DEF m

(* The mail is sent.                                                       *)
LEMMA SendMailKept == ASSUME AskInv, NEW w \in Messengers, A!SendMail(w) PROVE AskInv'
<1>1. /\ worker[w] \in States /\ Known(worker[w]) /\ worker[w].job = "dispatch" /\ worker[w].at = "send"
  BY PlaceOfJob DEF A!SendMail, A!At, AskPlaces
<1>2. UNCHANGED <<A!outside, ticket, cards, row, lost>>
  BY DEF A!SendMail
<1>3. ASSUME A!ToSend PROVE row.email.msg = 0 /\ Len(mails) <= lost + blind
  <2>1. row.email.msg = 0
    BY <1>3 DEF A!ToSend
  <2>2. \A v \in Messengers : ~A!At(v, "commit")
    BY <1>1, AloneWithMail DEF A!At
  <2> QED BY <2>1, <2>2 DEF AskInv, MailsFit
<1>4. CASE ~A!ToSend /\ A!GoTold(w, "end") /\ UNCHANGED <<mails, tasks, faults, blind>>
  <2> DEFINE y == [worker[w] EXCEPT !.at = "end", !.told = TRUE]
  <2>1. y \in States /\ y.job = "dispatch" /\ y.at = "end" /\ y.ref = worker[w].ref /\ worker' = [worker EXCEPT ![w] = y]
    BY <1>1, <1>4, AsTheyWere DEF States, A!Places, A!GoTold
  <2>2. mails # <<>>
    BY <1>4, AsTheyWere DEF A!ToSend
  <2>3. Known(y)
    BY <1>1, <2>1, <2>2 DEF Known, AskPlaces, Reached
  <2>4. UNCHANGED <<A!outside, ticket, cards, mails, row, tasks, faults, lost, blind>>
    BY <1>2, <1>4
  <2> HIDE DEF y, A!outside
  <2> QED BY <1>1, <2>1, <2>3, <2>4, LookKept DEF A!JobNames
<1>5. CASE A!ToSend /\ mails' = A!NewMail(w) /\ A!Go(w, "commit") /\ UNCHANGED <<tasks, faults, blind>>
  <2> DEFINE y == [worker[w] EXCEPT !.at = "commit"]
  <2>1. y \in States /\ y.job = worker[w].job /\ y.at = "commit" /\ y.ref = worker[w].ref /\ y.told = worker[w].told
        /\ worker' = [worker EXCEPT ![w] = y]
    BY <1>1, <1>5, AsTheyWere DEF States, A!Places, A!Go
  <2>2. PICK x \in States : x = y
    BY <2>1
  <2>3. /\ worker' \in [Messengers -> States] /\ JobsFit'
        /\ \A v \in Messengers : worker'[v] = IF v = w THEN x ELSE worker[v]
    BY <1>2, <1>5, <2>1, <2>2, GoesOn DEF A!outside
  <2>4. /\ mails' \in Seq([version : 1 .. MaxVersion, notice : {"none", "sent", "overtook", "applied"}])
        /\ Len(mails') = Len(mails) + 1 /\ mails' # <<>> /\ mails'[Len(mails')].notice = "none"
    BY <1>1, <1>5, MailAppended
  <2>5. AskTypes'
    <3>1. row.email \in [msg : 0 .. Len(mails'), bounced : BOOLEAN]
      BY <2>4, AsTheyWere DEF AskInv, AskTypes, A!TypeOK
    <3> QED BY <1>2, <1>5, <2>3, <2>4, <3>1 DEF AskInv, AskTypes, A!TypeOK, States, A!outside
  <2>6. Fits(w)'
    <3>1. Sent'
      BY <1>2, <1>3, <1>5, <2>4 DEF Sent
    <3>2. OnTicket => OnTicket'
      BY <1>2 DEF OnTicket
    <3>3. Reached'
      BY <2>4 DEF Reached
    <3> QED BY <1>1, <2>1, <2>2, <2>3, <3>1, <3>2, <3>3 DEF Fits, Known, AskPlaces
  <2>7. MailsFit'
    <3>1. worker'[w].at = "commit"
      BY <2>1, <2>2, <2>3
    <3>2. ~(\A v \in Messengers : ~A!At(v, "commit")')
      BY <3>1 DEF A!At
    <3>3. lost \in Nat /\ blind \in Nat /\ Len(mails) \in Nat
      BY AsTheyWere DEF AskInv, AskTypes
    <3>5. Len(mails) <= lost + blind
      BY <1>3, <1>5
    <3>6. Len(mails') <= 1 + lost' + blind'
      BY <1>2, <1>5, <2>4, <3>3, <3>5
    <3> QED BY <3>2, <3>6 DEF MailsFit
  <2>8. A!BounceIsMarked'
    BY <1>2, <1>3, <1>5 DEF A!BounceIsMarked
  <2> QED BY <1>1, <1>2, <1>5, <2>3, <2>4, <2>5, <2>6, <2>7, <2>8, MailStepKept
<1>6. CASE A!ToSend /\ A!Fault /\ A!Again(w) /\ UNCHANGED <<mails, blind>>
  <2>1. UNCHANGED <<A!outside, cards, mails, row, lost, blind>> /\ ticket' \in Tickets
    BY <1>2, <1>6, AsTheyWere
  <2>2. A!TicketWrittenOnce' /\ (OnTicket => OnTicket')
    BY <1>2, AsTheyWere DEF A!TicketWrittenOnce, OnTicket
  <2> QED BY <1>1, <1>6, <2>1, <2>2, FaultKept DEF A!JobNames
<1>7. CASE A!ToSend /\ A!Fault /\ A!Again(w) /\ mails' = A!NewMail(w) /\ blind' = blind + 1
  <2>1. PICK state \in {"ready", "dead"} : A!Finish(w, state) /\ (state = "ready" => tasks[worker[w].job].tries < MaxTries)
    BY <1>1, <1>7, TriesLeft DEF A!JobNames
  <2>2. faults' \in 0 .. MaxFaults /\ faults' = faults + 1
    BY <1>7, Counted
  <2>3. /\ worker' \in [Messengers -> States] /\ JobsFit'
        /\ \A v \in Messengers : worker'[v] = IF v = w THEN A!Idle ELSE worker[v]
        /\ tasks' \in [A!JobNames -> [state : {"none", "ready", "held", "done", "dead"}, tries : 0 .. MaxTries]]
        /\ \A k \in A!JobNames : tasks'[k].state = IF k = worker[w].job THEN state ELSE tasks[k].state
    BY <1>1, <1>2, <2>1, IsThrough DEF A!outside, A!JobNames
  <2>4. /\ mails' \in Seq([version : 1 .. MaxVersion, notice : {"none", "sent", "overtook", "applied"}])
        /\ Len(mails') = Len(mails) + 1 /\ mails' # <<>>
    BY <1>1, <1>7, MailAppended
  <2>5. AskTypes'
    <3>1. row.email \in [msg : 0 .. Len(mails'), bounced : BOOLEAN]
      BY <2>4, AsTheyWere DEF AskInv, AskTypes, A!TypeOK
    <3>2. lost' + blind' <= faults' /\ lost' \in Nat /\ blind' \in Nat
      BY <1>2, <1>7, <2>2 DEF AskInv, AskTypes, A!TypeOK
    <3> QED BY <1>2, <2>2, <2>3, <2>4, <3>1, <3>2 DEF AskInv, AskTypes, A!TypeOK, States, A!outside
  <2>6. Fits(w)'
    BY <2>3 DEF Fits, Known, A!Idle, A!NoRef
  <2>7. MailsFit'
    BY <1>2, <1>3, <1>7, <2>4, AsTheyWere DEF MailsFit, AskInv, AskTypes
  <2>8. A!BounceIsMarked'
    BY <1>2, <1>3, <1>7 DEF A!BounceIsMarked
  <2>9. tasks'["dispatch"].state # "done"
    BY <1>1, <2>1, <2>3 DEF A!JobNames
  <2> QED BY <1>1, <1>2, <2>3, <2>4, <2>5, <2>6, <2>7, <2>8, <2>9, MailStepKept
<1> QED BY <1>4, <1>5, <1>6, <1>7 DEF A!SendMail

(* The mail is booked, or not.                                             *)
LEMMA CommitMailKept == ASSUME AskInv, NEW w \in Messengers, A!CommitMail(w) PROVE AskInv'
<1>1. /\ worker[w] \in States /\ Known(worker[w]) /\ worker[w].job = "dispatch" /\ worker[w].at = "commit" /\ Sent
  BY PlaceOfJob DEF A!CommitMail, A!At, AskPlaces, Known
<1>2. UNCHANGED <<A!outside, ticket, cards, mails, blind>> /\ mails # <<>> /\ Len(mails) >= 1
  BY <1>1, AsTheyWere DEF A!CommitMail, Sent
<1>3. CASE row' = [row EXCEPT !.email = [msg |-> Len(mails), bounced |-> FALSE]]
           /\ A!GoTold(w, "end") /\ UNCHANGED <<tasks, faults, lost>>
  <2> DEFINE y == [worker[w] EXCEPT !.at = "end", !.told = TRUE]
  <2>1. y \in States /\ y.job = worker[w].job /\ y.at = "end" /\ y.ref = worker[w].ref /\ worker' = [worker EXCEPT ![w] = y]
    BY <1>1, <1>3, AsTheyWere DEF States, A!Places, A!GoTold
  <2>2. PICK x \in States : x = y
    BY <2>1
  <2>3. /\ worker' \in [Messengers -> States] /\ JobsFit'
        /\ \A v \in Messengers : worker'[v] = IF v = w THEN x ELSE worker[v]
    BY <1>2, <1>3, <2>1, <2>2, GoesOn DEF A!outside
  <2>4. /\ row'.email = [msg |-> Len(mails), bounced |-> FALSE] /\ row'.fs = row.fs /\ row'.slack = row.slack
        /\ row' \in [fs : References, slack : Nat, email : [msg : Nat, bounced : BOOLEAN]]
    BY <1>3, AsTheyWere
  <2>5. AskTypes'
    <3>1. row'.email \in [msg : 0 .. Len(mails'), bounced : BOOLEAN]
      BY <1>2, <2>4, AsTheyWere
    <3> QED BY <1>2, <1>3, <2>3, <2>4, <3>1 DEF AskInv, AskTypes, A!TypeOK, States, A!outside
  <2>6. Fits(w)'
    <3>1. OnTicket => OnTicket'
      BY <1>2 DEF OnTicket
    <3>2. Reached'
      BY <1>2 DEF Reached
    <3> QED BY <1>1, <2>1, <2>2, <2>3, <3>1, <3>2 DEF Fits, Known, AskPlaces
  <2>7. MailsFit'
    BY <1>2, <1>3, <2>4 DEF MailsFit, AskInv
  <2>8. A!BounceIsMarked'
    BY <1>1, <1>2, <2>4 DEF A!BounceIsMarked, Sent
  <2> QED BY <1>1, <1>2, <1>3, <2>3, <2>4, <2>5, <2>6, <2>7, <2>8, MailStepKept
<1>4. CASE A!Fault /\ A!Again(w) /\ lost' = lost + 1 /\ UNCHANGED row
  <2>1. PICK state \in {"ready", "dead"} : A!Finish(w, state) /\ (state = "ready" => tasks[worker[w].job].tries < MaxTries)
    BY <1>1, <1>4, TriesLeft DEF A!JobNames
  <2>2. faults' \in 0 .. MaxFaults /\ faults' = faults + 1
    BY <1>4, Counted
  <2>3. /\ worker' \in [Messengers -> States] /\ JobsFit'
        /\ \A v \in Messengers : worker'[v] = IF v = w THEN A!Idle ELSE worker[v]
        /\ tasks' \in [A!JobNames -> [state : {"none", "ready", "held", "done", "dead"}, tries : 0 .. MaxTries]]
        /\ \A k \in A!JobNames : tasks'[k].state = IF k = worker[w].job THEN state ELSE tasks[k].state
    BY <1>1, <1>2, <2>1, IsThrough DEF A!outside, A!JobNames
  <2>4. AskTypes'
    <3>1. lost' + blind' <= faults' /\ lost' \in Nat /\ blind' \in Nat
      BY <1>2, <1>4, <2>2 DEF AskInv, AskTypes, A!TypeOK
    <3> QED BY <1>2, <1>4, <2>2, <2>3, <3>1 DEF AskInv, AskTypes, A!TypeOK, States, A!outside
  <2>5. Fits(w)'
    BY <2>3 DEF Fits, Known, A!Idle, A!NoRef
  <2>6. MailsFit'
    BY <1>2, <1>4, AsTheyWere DEF MailsFit, AskInv, AskTypes
  <2>7. A!BounceIsMarked'
    BY <1>1, <1>2, <1>4 DEF A!BounceIsMarked, Sent
  <2>8. tasks'["dispatch"].state # "done"
    BY <1>1, <2>1, <2>3 DEF A!JobNames
  <2> QED BY <1>1, <1>2, <1>4, <2>3, <2>4, <2>5, <2>6, <2>7, <2>8, MailStepKept
<1> QED BY <1>3, <1>4 DEF A!CommitMail

(* The dispatch is through.                                                *)
LEMMA EndDispatchKept == ASSUME AskInv, NEW w \in Messengers, A!EndDispatch(w) PROVE AskInv'
<1>1. /\ worker[w] \in States /\ Known(worker[w]) /\ worker[w].job = "dispatch" /\ worker[w].at = "end"
  BY PlaceOfJob DEF A!EndDispatch, A!At, AskPlaces
<1>2. PICK state \in {"done", "dead"} : A!Finish(w, state) /\ (state = "done" => worker[w].told)
  BY DEF A!EndDispatch
<1>3. UNCHANGED <<A!outside, ticket, cards, mails, row, faults, lost, blind>>
  BY DEF A!EndDispatch
<1>4. A!TicketWrittenOnce' /\ (OnTicket => OnTicket') /\ (row'.fs.approval # "none" => OnTicket')
  BY <1>3, AsTheyWere DEF A!TicketWrittenOnce, OnTicket
<1>5. /\ UNCHANGED <<A!outside, mails, lost, blind>> /\ ticket' \in Tickets /\ faults' = faults
      /\ cards' \in Seq([version : 1 .. MaxVersion, shows : {"buttons", "decided"}]) /\ Len(cards') >= Len(cards)
      /\ row' \in [fs : References, slack : Nat, email : [msg : Nat, bounced : BOOLEAN]]
      /\ row'.slack = row.slack /\ row'.email = row.email
  BY <1>3, AsTheyWere
<1>6. state \in {"ready", "done", "dead"} /\ state # "ready"
  BY <1>2
<1> HIDE DEF A!outside
<1> QED BY <1>1, <1>2, <1>4, <1>5, <1>6, EndKept DEF A!JobNames

(* A job that leaves everything as it was, and is done.                    *)
LEMMA NothingToTell ==
    ASSUME AskInv, NEW w \in Messengers, worker[w].job \in {"mirror", "update"}, A!Finish(w, "done"),
           UNCHANGED <<A!outside, mails, ticket, faults, lost, blind>>,
           cards' \in Seq([version : 1 .. MaxVersion, shows : {"buttons", "decided"}]), Len(cards') >= Len(cards),
           row' \in [fs : References, slack : Nat, email : [msg : Nat, bounced : BOOLEAN]],
           row'.slack = row.slack, row'.email = row.email, row'.fs.approval # "none" => OnTicket
    PROVE  AskInv'
<1>1. A!TicketWrittenOnce' /\ (OnTicket => OnTicket')
  BY AsTheyWere DEF A!TicketWrittenOnce, OnTicket
<1>2. worker[w].job \in A!JobNames /\ worker[w].job # "dispatch" /\ worker[w].at # "commit"
  BY PlaceOfJob DEF A!JobNames, AskPlaces
<1>3. UNCHANGED <<A!outside, mails, lost, blind>> /\ ticket' \in Tickets /\ faults' = faults
  BY AsTheyWere
<1> HIDE DEF A!outside
<1> QED BY <1>1, <1>2, <1>3, EndKept

(* The mirror reads where the approver was asked.                          *)
LEMMA ReadDecisionKept == ASSUME AskInv, NEW w \in Messengers, A!ReadDecision(w) PROVE AskInv'
<1>1. /\ worker[w] \in States /\ Known(worker[w]) /\ worker[w].job = "mirror" /\ worker[w].at = "mirror"
  BY PlaceOfJob DEF A!ReadDecision, A!At, NotePlaces
<1>2. UNCHANGED <<A!outside, ticket, cards, mails, row, faults, lost, blind>>
  BY DEF A!ReadDecision
<1>3. CASE worker' = [worker EXCEPT ![w].at = "note", ![w].ref = row.fs] /\ UNCHANGED tasks
  <2> DEFINE y == [worker[w] EXCEPT !.at = "note", !.ref = row.fs]
  <2>1. y \in States /\ y.job = "mirror" /\ y.at = "note" /\ y.ref = row.fs /\ worker' = [worker EXCEPT ![w] = y]
        /\ y.told = worker[w].told
    BY <1>1, <1>3, AsTheyWere DEF States, A!Places
  <2>2. Known(y)
    BY <1>1, <2>1, AsTheyWere DEF Known, NotePlaces
  <2>3. UNCHANGED <<A!outside, ticket, cards, mails, row, tasks, faults, lost, blind>>
    BY <1>2, <1>3
  <2> HIDE DEF y, A!outside
  <2> QED BY <1>1, <2>1, <2>2, <2>3, LookKept DEF A!JobNames
<1>4. CASE A!Finish(w, "done")
  <2>1. /\ UNCHANGED <<A!outside, mails, ticket, faults, lost, blind>>
        /\ cards' \in Seq([version : 1 .. MaxVersion, shows : {"buttons", "decided"}]) /\ Len(cards') >= Len(cards)
        /\ row' \in [fs : References, slack : Nat, email : [msg : Nat, bounced : BOOLEAN]]
        /\ row'.slack = row.slack /\ row'.email = row.email /\ (row'.fs.approval # "none" => OnTicket)
    BY <1>2, AsTheyWere
  <2> QED BY <1>1, <1>4, <2>1, NothingToTell
<1> QED BY <1>3, <1>4 DEF A!ReadDecision

(* The decision is noted on the ticket.                                    *)
LEMMA PostMirrorKept == ASSUME AskInv, NEW w \in Messengers, A!PostNote(w) PROVE AskInv'
<1>1. /\ worker[w] \in States /\ Known(worker[w]) /\ worker[w].job = "mirror" /\ worker[w].at = "note"
  BY PlaceOfJob DEF A!PostNote, A!At, NotePlaces
<1>2. UNCHANGED <<A!outside, cards, mails, row, lost, blind>> /\ ticket' \in {ticket, A!Noted}
  BY DEF A!PostNote
<1>3. ticket' \in Tickets /\ A!TicketWrittenOnce' /\ (OnTicket => OnTicket')
  BY <1>2, NotedOnce, AsTheyWere DEF A!TicketWrittenOnce, OnTicket
<1>4. CASE ticket' = A!Noted /\ A!Go(w, "keep") /\ UNCHANGED <<tasks, faults>>
  <2> DEFINE y == [worker[w] EXCEPT !.at = "keep"]
  <2>1. y \in States /\ y.job = "mirror" /\ y.at = "keep" /\ y.ref = worker[w].ref /\ y.told = worker[w].told
        /\ worker' = [worker EXCEPT ![w] = y]
    BY <1>1, <1>4, AsTheyWere DEF States, A!Places, A!Go
  <2>2. PICK x \in States : x = y
    BY <2>1
  <2>3. Reached => Reached'
    BY <1>2, <1>3 DEF Reached
  <2>4. Known(x)'
    BY <1>1, <1>3, <2>1, <2>2, <2>3 DEF Known, NotePlaces
  <2>5. x.job = worker[w].job /\ worker' = [worker EXCEPT ![w] = x]
    BY <1>1, <2>1, <2>2
  <2>6. /\ UNCHANGED <<A!outside, tasks, mails, faults, lost, blind>>
        /\ cards' \in Seq([version : 1 .. MaxVersion, shows : {"buttons", "decided"}]) /\ Len(cards') >= Len(cards)
        /\ row' \in [fs : References, slack : Nat, email : [msg : Nat, bounced : BOOLEAN]]
        /\ row'.slack <= Len(cards') /\ row'.email = row.email
    BY <1>2, <1>4, AsTheyWere
  <2>7. row'.fs.approval # "none" => OnTicket'
    BY <1>2, <1>3, AsTheyWere
  <2> HIDE DEF y, A!outside
  <2> QED BY <1>1, <1>3, <2>4, <2>5, <2>6, <2>7, TurnKept DEF A!JobNames
<1>5. CASE A!Fault /\ A!Again(w)
  BY <1>1, <1>2, <1>3, <1>5, FaultKept DEF A!JobNames
<1> QED BY <1>4, <1>5 DEF A!PostNote

(* What the mirror read is written back, with the mirror.                  *)
LEMMA KeepMirrorKept == ASSUME AskInv, NEW w \in Messengers, A!KeepMirror(w) PROVE AskInv'
<1>1. /\ worker[w] \in States /\ Known(worker[w]) /\ worker[w].job = "mirror" /\ worker[w].at = "keep"
  BY PlaceOfJob DEF A!KeepMirror, A!At, NotePlaces
<1>2. UNCHANGED <<A!outside, ticket, cards, mails, faults, lost, blind>> /\ A!Finish(w, "done")
      /\ row' = [row EXCEPT !.fs = [worker[w].ref EXCEPT !.mirror = TRUE]]
  BY DEF A!KeepMirror
<1> DEFINE f == [worker[w].ref EXCEPT !.mirror = TRUE]
<1>3. f \in References /\ f.approval = worker[w].ref.approval
  BY <1>1 DEF States, References
<1> HIDE DEF f
<1>4. /\ row' \in [fs : References, slack : Nat, email : [msg : Nat, bounced : BOOLEAN]]
      /\ row'.slack = row.slack /\ row'.email = row.email /\ row'.fs = f
  BY <1>2, <1>3, AsTheyWere DEF f
<1>5. row'.fs.approval # "none" => OnTicket
  BY <1>1, <1>3, <1>4 DEF Known
<1>6. /\ UNCHANGED <<A!outside, mails, ticket, faults, lost, blind>>
      /\ cards' \in Seq([version : 1 .. MaxVersion, shows : {"buttons", "decided"}]) /\ Len(cards') >= Len(cards)
  BY <1>2, AsTheyWere
<1> QED BY <1>1, <1>2, <1>4, <1>5, <1>6, NothingToTell

(* A card on record can be drawn anew.                                     *)
LEMMA Drawn ==
    ASSUME AskInv
    PROVE  A!Redrawn \in Seq([version : 1 .. MaxVersion, shows : {"buttons", "decided"}]) /\ Len(A!Redrawn) = Len(cards)
<1> DEFINE S == [version : 1 .. MaxVersion, shows : {"buttons", "decided"}]
<1>1. cards \in Seq(S) /\ row.slack \in 0 .. Len(cards) /\ row.slack \in Nat
  BY DEF AskInv, AskTypes, A!TypeOK
<1>2. CASE row.slack # 0
  <2>1. row.slack \in DOMAIN cards /\ cards[row.slack] \in S
    <3> HIDE DEF S
    <3> QED BY <1>1, <1>2
  <2> DEFINE c == [cards[row.slack] EXCEPT !.shows = "decided"]
  <2>2. c \in S
    BY <2>1
  <2>3. A!Redrawn = [cards EXCEPT ![row.slack] = c]
    BY <1>2 DEF A!Redrawn
  <2> HIDE DEF c, S
  <2> QED BY <1>1, <2>1, <2>2, <2>3 DEF S
<1> QED BY <1>1, <1>2 DEF A!Redrawn

(* The card is redrawn.                                                    *)
LEMMA UpdateCardKept == ASSUME AskInv, NEW w \in Messengers, A!UpdateCard(w) PROVE AskInv'
<1>1. /\ worker[w] \in States /\ Known(worker[w]) /\ worker[w].job = "update" /\ worker[w].at = "redraw"
  BY PlaceOfJob DEF A!UpdateCard, A!At
<1>2. UNCHANGED <<A!outside, ticket, mails, row, lost, blind>>
  BY DEF A!UpdateCard
<1>3. CASE cards' = (IF setup.slack THEN A!Redrawn ELSE cards) /\ A!Finish(w, "done") /\ UNCHANGED faults
  <2>1. /\ cards' \in Seq([version : 1 .. MaxVersion, shows : {"buttons", "decided"}]) /\ Len(cards') >= Len(cards)
    BY <1>3, AsTheyWere, Drawn
  <2>2. /\ UNCHANGED <<A!outside, mails, ticket, faults, lost, blind>>
        /\ row' \in [fs : References, slack : Nat, email : [msg : Nat, bounced : BOOLEAN]]
        /\ row'.slack = row.slack /\ row'.email = row.email /\ (row'.fs.approval # "none" => OnTicket)
    BY <1>2, <1>3, AsTheyWere
  <2> QED BY <1>1, <1>3, <2>1, <2>2, NothingToTell
<1>4. CASE A!Fault /\ A!Again(w) /\ UNCHANGED cards
  <2>1. A!TicketWrittenOnce' /\ (OnTicket => OnTicket') /\ ticket' \in Tickets
    BY <1>2, AsTheyWere DEF A!TicketWrittenOnce, OnTicket
  <2>2. UNCHANGED <<A!outside, cards, mails, row, lost, blind>>
    BY <1>2, <1>4
  <2> QED BY <1>1, <1>4, <2>1, <2>2, FaultKept DEF A!JobNames
<1> QED BY <1>3, <1>4 DEF A!UpdateCard

(* A worker dies.                                                          *)
LEMMA AskCrashKept == ASSUME AskInv, NEW w \in Messengers, NEW newMode \in A!Modes, A!Crash(w, newMode) PROVE AskInv'
<1>1. worker[w] \in States /\ Known(worker[w]) /\ worker[w].job \in A!JobNames
  BY PlaceOfJob DEF A!Crash, States
<1>2. /\ UNCHANGED <<setup, action, decision, ticket, cards, mails, row, blind>> /\ A!Fault /\ A!Again(w) /\ mode' \in A!Modes
      /\ lost' = lost + (IF A!At(w, "commit") THEN 1 ELSE 0)
  BY DEF A!Crash
<1>3. PICK state \in {"ready", "dead"} : A!Finish(w, state) /\ (state = "ready" => tasks[worker[w].job].tries < MaxTries)
  BY <1>1, <1>2, TriesLeft
<1>4. faults' \in 0 .. MaxFaults /\ faults' = faults + 1
  BY <1>2, Counted
<1>5. /\ worker' \in [Messengers -> States] /\ JobsFit'
      /\ \A v \in Messengers : worker'[v] = IF v = w THEN A!Idle ELSE worker[v]
      /\ tasks' \in [A!JobNames -> [state : {"none", "ready", "held", "done", "dead"}, tries : 0 .. MaxTries]]
      /\ \A k \in A!JobNames : tasks'[k].state = IF k = worker[w].job THEN state ELSE tasks[k].state
  BY <1>1, <1>2, <1>3, IsThrough
<1>6. AskTypes'
  <2>1. lost' + blind' <= faults' /\ lost' \in Nat /\ blind' \in Nat
    BY <1>2, <1>4 DEF AskInv, AskTypes, A!TypeOK
  <2> QED BY <1>2, <1>4, <1>5, <2>1 DEF AskInv, AskTypes, A!TypeOK, States
<1>7. (OnTicket => OnTicket') /\ A!TicketWrittenOnce'
  BY <1>2, AsTheyWere DEF OnTicket, A!TicketWrittenOnce
<1>8. \A v \in Messengers : Fits(v)'
  <2>1. Fits(w)'
    BY <1>5 DEF Fits, Known, A!Idle, A!NoRef
  <2>2. \A v \in Messengers \ {w} : Fits(v)'
    <3>1. /\ cards # <<>> => cards' # <<>>
          /\ mails # <<>> => mails' # <<>>
          /\ mails' = mails /\ row'.email = row.email
      BY <1>2
    <3> QED BY <1>1, <1>2, <1>5, <1>7, <3>1, OthersFit
  <2> QED BY <2>1, <2>2
<1>9. MailsFit'
  <2>1. CASE A!At(w, "commit")
    BY <1>2, <2>1, AsTheyWere DEF MailsFit, AskInv, AskTypes
  <2>2. CASE ~A!At(w, "commit")
    <3>1. (\A v \in Messengers : ~A!At(v, "commit")') => \A v \in Messengers : ~A!At(v, "commit")
      BY <1>5, <2>2 DEF A!At
    <3>2. lost' = lost
      BY <1>2, <2>2 DEF AskInv, AskTypes
    <3> QED BY <1>2, <3>1, <3>2 DEF MailsFit, AskInv
  <2> QED BY <2>1, <2>2
<1>10. A!BounceIsMarked' /\ (row'.fs.approval # "none" => OnTicket')
  BY <1>2, <1>7 DEF AskInv, A!BounceIsMarked
<1>11. A!DoneMeansAsked'
  <2>1. tasks'["dispatch"].state = "done" => tasks["dispatch"].state = "done"
    BY <1>1, <1>3, <1>5 DEF A!JobNames
  <2> QED BY <1>2, <2>1 DEF AskInv, A!DoneMeansAsked
<1> QED BY <1>6, <1>5, <1>7, <1>8, <1>9, <1>10, <1>11 DEF AskInv

-----------------------------------------------------------------------------
(* A step of nobody's job: what the workers know stays so.                 *)
LEMMA OutsideKept ==
    ASSUME AskInv, AskTypes', JobsFit', UNCHANGED <<ticket, worker, lost, blind>>,
           cards # <<>> => cards' # <<>>, Len(mails') = Len(mails), row'.email.msg = row.email.msg, row'.fs = row.fs,
           Sent /\ (\E w \in Messengers : A!At(w, "commit")) => mails'[Len(mails)].notice # "applied",
           A!BounceIsMarked', tasks'["dispatch"].state = "done" => tasks["dispatch"].state = "done"
    PROVE  AskInv'
<1>1. mails # <<>> <=> mails' # <<>>
  <2>1. /\ mails \in Seq([version : 1 .. MaxVersion, notice : {"none", "sent", "overtook", "applied"}])
        /\ mails' \in Seq([version : 1 .. MaxVersion, notice : {"none", "sent", "overtook", "applied"}])
    BY DEF AskInv, AskTypes, A!TypeOK
  <2>2. (mails # <<>> <=> Len(mails) # 0) /\ (mails' # <<>> <=> Len(mails') # 0)
    BY <2>1, EmptySeq
  <2> QED BY <2>2
<1>2. (OnTicket => OnTicket') /\ A!TicketWrittenOnce'
  BY DEF AskInv, OnTicket, A!TicketWrittenOnce
<1>3. ASSUME NEW w \in Messengers PROVE Fits(w)'
  <2>1. Known(worker[w])
    BY DEF AskInv, Fits
  <2>2. Reached => Reached'
    BY <1>1, <1>2 DEF Reached
  <2>3. worker[w].at = "commit" => Sent'
    BY <1>1, <2>1 DEF Known, Sent, A!At
  <2> QED BY <1>2, <2>1, <2>2, <2>3 DEF Fits, Known
<1>4. MailsFit'
  BY DEF AskInv, MailsFit, A!At
<1>5. A!DoneMeansAsked'
  <2>1. A!DoneMeansAsked = (tasks["dispatch"].state = "done" => Reached)
    BY DEF A!DoneMeansAsked, Reached, OnTicket
  <2>2. A!DoneMeansAsked' = (tasks'["dispatch"].state = "done" => Reached')
    BY DEF A!DoneMeansAsked, Reached, OnTicket
  <2>3. Reached => Reached'
    BY <1>1, <1>2 DEF Reached
  <2> QED BY <2>1, <2>2, <2>3 DEF AskInv
<1>6. row'.fs.approval # "none" => OnTicket'
  BY <1>2 DEF AskInv
<1> QED BY <1>2, <1>3, <1>4, <1>5, <1>6 DEF AskInv

(* The approver decides.                                                   *)
LEMMA DecideKept == ASSUME AskInv, NEW choice \in Choices, NEW v, A!Decide(choice, v) PROVE AskInv'
<1>1. /\ decision = A!NoDecision /\ v = action.version
      /\ decision' = [choice |-> choice, version |-> v, card |-> row.slack] /\ tasks' = A!Told
      /\ UNCHANGED <<setup, mode, action, ticket, cards, mails, row, worker, faults, lost, blind>>
  BY DEF A!Decide
<1>2. tasks \in [A!JobNames -> [state : {"none", "ready", "held", "done", "dead"}, tries : 0 .. MaxTries]]
      /\ tasks["mirror"].state = "none" /\ tasks["update"].state = "none" /\ 0 < MaxTries
  BY <1>1 DEF AskInv, AskTypes, A!TypeOK, JobsFit, A!Given
<1>3. /\ tasks' \in [A!JobNames -> [state : {"none", "ready", "held", "done", "dead"}, tries : 0 .. MaxTries]]
      /\ tasks'["dispatch"] = tasks["dispatch"]
      /\ \A k \in A!JobNames \ {"dispatch"} : tasks'[k].state = "ready" /\ tasks'[k].tries = tasks[k].tries
  BY <1>1, <1>2 DEF A!Told, A!JobNames
<1>4. AskTypes'
  BY <1>1, <1>3, AsTheyWere DEF AskInv, AskTypes, A!TypeOK
<1>5. JobsFit'
  <2>1. decision' # A!NoDecision
    BY <1>1, AsTheyWere DEF A!NoDecision
  <2>2. \A w \in Messengers : worker[w].job # "none" => worker[w].job = "dispatch"
    BY <1>2 DEF AskInv, JobsFit, AskTypes, States, A!JobNames
  <2> QED BY <1>1, <1>2, <1>3, <2>1, <2>2 DEF AskInv, JobsFit, A!JobNames
<1>6. Sent => mails'[Len(mails)].notice # "applied"
  BY <1>1 DEF Sent
<1>7. A!BounceIsMarked'
  BY <1>1 DEF AskInv, A!BounceIsMarked
<1> QED BY <1>1, <1>3, <1>4, <1>5, <1>6, <1>7, OutsideKept

(* The card is redrawn at a click.                                         *)
LEMMA RedrawKept == ASSUME AskInv, A!RedrawOnClick PROVE AskInv'
<1>1. UNCHANGED <<A!outside, ticket, mails, row, tasks, worker, faults, lost, blind>> /\ cards' = A!Redrawn
  BY DEF A!RedrawOnClick
<1>2. cards' \in Seq([version : 1 .. MaxVersion, shows : {"buttons", "decided"}]) /\ Len(cards') = Len(cards)
      /\ (cards # <<>> => cards' # <<>>)
  BY <1>1, Drawn, AsTheyWere
<1>3. AskTypes'
  BY <1>1, <1>2 DEF AskInv, AskTypes, A!TypeOK, A!outside
<1>4. JobsFit' /\ A!BounceIsMarked'
  BY <1>1 DEF AskInv, JobsFit, A!BounceIsMarked, A!outside
<1>5. Sent => mails'[Len(mails)].notice # "applied"
  BY <1>1 DEF Sent
<1> HIDE DEF A!outside
<1> QED BY <1>1, <1>2, <1>3, <1>4, <1>5, OutsideKept

(* The run goes on, or is planned anew.                                    *)
LEMMA RunKept == ASSUME AskInv, A!Resume \/ A!Replan PROVE AskInv'
<1>1. UNCHANGED <<setup, mode, decision, ticket, cards, mails, row, tasks, worker, faults, lost, blind>>
  BY DEF A!Resume, A!Replan
<1>2. action \in [state : {"awaiting"} \cup Choices, version : 1 .. MaxVersion]
      /\ decision \in [choice : {"none"} \cup Choices, version : 0 .. MaxVersion, card : Nat] /\ MaxVersion \in Nat
  BY DEF AskInv, AskTypes, A!TypeOK, A!Given
<1>3. action' \in [state : {"awaiting"} \cup Choices, version : 1 .. MaxVersion]
  <2>1. CASE A!Resume
    <3>1. decision.choice \in Choices
      BY <2>1, <1>2 DEF A!Resume, AskInv, AskTypes, A!TypeOK
    <3> QED BY <1>2, <2>1, <3>1 DEF A!Resume
  <2>2. CASE A!Replan
    BY <1>2, <2>2 DEF A!Replan
  <2> QED BY <2>1, <2>2
<1>4. AskTypes'
  BY <1>1, <1>3 DEF AskInv, AskTypes, A!TypeOK
<1>5. JobsFit' /\ A!BounceIsMarked'
  BY <1>1 DEF AskInv, JobsFit, A!BounceIsMarked
<1>6. Sent => mails'[Len(mails)].notice # "applied"
  BY <1>1 DEF Sent
<1> QED BY <1>1, <1>4, <1>5, <1>6, OutsideKept

(* A notice about one mail.                                                *)
LEMMA NoticeMarked ==
    ASSUME AskInv, NEW i \in DOMAIN mails, NEW n \in {"sent", "overtook", "applied"},
           mails' = [mails EXCEPT ![i].notice = n]
    PROVE  /\ mails' \in Seq([version : 1 .. MaxVersion, notice : {"none", "sent", "overtook", "applied"}])
           /\ Len(mails') = Len(mails) /\ mails'[i].notice = n
           /\ \A j \in DOMAIN mails \ {i} : mails'[j] = mails[j]
<1> DEFINE S == [version : 1 .. MaxVersion, notice : {"none", "sent", "overtook", "applied"}]
           m == [mails[i] EXCEPT !.notice = n]
<1>1. mails \in Seq(S)
  BY AsTheyWere
<1>2. mails[i] \in S
  <2> HIDE DEF S
  <2> QED BY <1>1
<1>3. m \in S /\ m.notice = n
  BY <1>2
<1>4. mails' = [mails EXCEPT ![i] = m]
  OBVIOUS
<1> HIDE DEF m, S
<1>5. mails' \in Seq(S) /\ Len(mails') = Len(mails) /\ mails'[i] = m /\ \A j \in DOMAIN mails \ {i} : mails'[j] = mails[j]
  BY <1>1, <1>3, <1>4
<1> QED BY <1>3, <1>5 DEF S

(* The mail service sends a notice.                                        *)
LEMMA BounceKept == ASSUME AskInv, NEW i \in DOMAIN mails, A!Bounce(i) PROVE AskInv'
<1>1. /\ mails' = [mails EXCEPT ![i].notice = "sent"] /\ mails[i].notice = "none"
      /\ UNCHANGED <<A!outside, ticket, cards, row, tasks, worker, faults, lost, blind>>
  BY DEF A!Bounce
<1>2. /\ mails' \in Seq([version : 1 .. MaxVersion, notice : {"none", "sent", "overtook", "applied"}])
      /\ Len(mails') = Len(mails) /\ mails'[i].notice = "sent"
      /\ \A j \in DOMAIN mails \ {i} : mails'[j] = mails[j]
  BY <1>1, NoticeMarked
<1>3. \A j \in DOMAIN mails : mails'[j].notice = "applied" => mails[j].notice = "applied"
  BY <1>2
<1>4. AskTypes'
  BY <1>1, <1>2 DEF AskInv, AskTypes, A!TypeOK, A!outside
<1>5. JobsFit'
  BY <1>1 DEF AskInv, JobsFit, A!outside
<1>6. A!BounceIsMarked'
  <2>1. row.email.msg # 0 => row.email.msg \in DOMAIN mails
    BY AsTheyWere
  <2> QED BY <1>1, <1>3, <2>1 DEF AskInv, A!BounceIsMarked
<1>7. Sent => mails'[Len(mails)].notice # "applied"
  <2>1. mails # <<>> => Len(mails) \in DOMAIN mails
    BY AsTheyWere
  <2> QED BY <1>3, <2>1 DEF Sent
<1> HIDE DEF A!outside
<1> QED BY <1>1, <1>2, <1>4, <1>5, <1>6, <1>7, OutsideKept

(* The notice is applied to the row that names its mail.                   *)
LEMMA RecordNoticeKept == ASSUME AskInv, NEW i \in DOMAIN mails, A!RecordNotice(i) PROVE AskInv'
<1> DEFINE n == IF A!InFlight(i) THEN "overtook" ELSE "applied"
<1>1. /\ mails' = [mails EXCEPT ![i].notice = n] /\ row' = A!Marked(i)
      /\ UNCHANGED <<A!outside, ticket, cards, tasks, worker, faults, lost, blind>>
  BY DEF A!RecordNotice
<1>2. /\ mails' \in Seq([version : 1 .. MaxVersion, notice : {"none", "sent", "overtook", "applied"}])
      /\ Len(mails') = Len(mails) /\ mails'[i].notice = n
      /\ \A j \in DOMAIN mails \ {i} : mails'[j] = mails[j]
  <2>1. n \in {"sent", "overtook", "applied"}
    OBVIOUS
  <2> HIDE DEF n
  <2> QED BY <1>1, <2>1, NoticeMarked
<1>3. /\ row'.fs = row.fs /\ row'.slack = row.slack /\ row'.email.msg = row.email.msg
      /\ row'.email.bounced = IF row.email.msg = i THEN TRUE ELSE row.email.bounced
      /\ row' \in [fs : References, slack : Nat, email : [msg : Nat, bounced : BOOLEAN]]
  BY <1>1, AsTheyWere DEF A!Marked
<1>4. AskTypes'
  <2>1. row'.email \in [msg : 0 .. Len(mails'), bounced : BOOLEAN]
    BY <1>2, <1>3, AsTheyWere
  <2> HIDE DEF n
  <2> QED BY <1>1, <1>2, <1>3, <2>1 DEF AskInv, AskTypes, A!TypeOK, A!outside
<1>5. JobsFit'
  BY <1>1 DEF AskInv, JobsFit, A!outside
<1>6. A!BounceIsMarked'
  <2>1. row.email.msg # 0 => row.email.msg \in DOMAIN mails
    BY AsTheyWere
  <2> QED BY <1>2, <1>3, <2>1 DEF AskInv, A!BounceIsMarked
<1>7. Sent /\ (\E w \in Messengers : A!At(w, "commit")) => mails'[Len(mails)].notice # "applied"
  <2>1. mails # <<>> => Len(mails) \in DOMAIN mails
    BY AsTheyWere
  <2> QED BY <1>2, <2>1 DEF Sent, A!InFlight
<1> HIDE DEF n, A!outside
<1> QED BY <1>1, <1>2, <1>3, <1>4, <1>5, <1>6, <1>7, OutsideKept

(* Nothing happens.                                                        *)
LEMMA AskStutter == ASSUME AskInv, UNCHANGED A!vars PROVE AskInv'
<1>1. AskTypes' /\ JobsFit'
  BY DEF A!vars, AskInv, AskTypes, A!TypeOK, JobsFit
<1>2. A!BounceIsMarked' /\ (Sent => mails'[Len(mails)].notice # "applied")
  BY DEF A!vars, AskInv, A!BounceIsMarked, Sent
<1> QED BY <1>1, <1>2, OutsideKept DEF A!vars

(* Every step keeps it.                                                    *)
LEMMA AskKept == AskInv /\ [A!Next]_(A!vars) => AskInv'
<1> SUFFICES ASSUME AskInv, [A!Next]_(A!vars) PROVE AskInv'
  OBVIOUS
<1>1. ASSUME NEW w \in Messengers, A!WorkerStep(w) PROVE AskInv'
  <2>1. ASSUME NEW k \in A!JobNames, A!Claim(w, k) PROVE AskInv'
    BY <2>1, ClaimIsSound
  <2>2. CASE A!DispatchStep(w)
    BY <2>2, AskOnTicketKept, RequestApprovalKept, StoreApprovalKept, FindCardKept, PostCardKept, RecordCardKept,
       FindMailKept, SendMailKept, CommitMailKept, EndDispatchKept DEF A!DispatchStep
  <2>3. CASE A!TellStep(w)
    BY <2>3, ReadDecisionKept, PostMirrorKept, KeepMirrorKept, UpdateCardKept DEF A!TellStep
  <2> QED BY <1>1, <2>1, <2>2, <2>3 DEF A!WorkerStep
<1>2. ASSUME NEW w \in Messengers, NEW m \in A!Modes, A!Crash(w, m) PROVE AskInv'
  BY <1>2, AskCrashKept
<1>3. ASSUME NEW choice \in Choices, A!DecideOnWeb(choice) \/ A!ClickCard(choice) \/ A!FollowLink(choice) PROVE AskInv'
  BY <1>3, DecideKept DEF A!DecideOnWeb, A!ClickCard, A!FollowLink
<1>4. CASE A!RedrawOnClick \/ A!Resume \/ A!Replan
  BY <1>4, RedrawKept, RunKept
<1>5. ASSUME NEW i \in DOMAIN mails, A!Bounce(i) \/ A!RecordNotice(i) PROVE AskInv'
  BY <1>5, BounceKept, RecordNoticeKept
<1>6. CASE UNCHANGED A!vars
  BY <1>6, AskStutter
<1> QED BY <1>1, <1>2, <1>3, <1>4, <1>5, <1>6 DEF A!Next

(* An approver is asked once, and it is on record.                         *)
LEMMA ApprovalsHold == A!Given => (A!Spec => [](A!TypeOK /\ A!AskingIsSound))
<1> SUFFICES ASSUME A!Given PROVE A!Spec => [](A!TypeOK /\ A!AskingIsSound)
  OBVIOUS
<1>1. A!Init => AskInv
  BY AskStarts
<1>2. AskInv /\ [A!Next]_(A!vars) => AskInv'
  BY AskKept
<1>3. AskInv => A!TypeOK /\ A!AskingIsSound
  BY DEF AskInv, AskTypes, A!AskingIsSound, A!OneMailPerSend, MailsFit
<1> QED BY <1>1, <1>2, <1>3, PTL DEF A!Spec

(* However workers die, answers are lost and commits fail: on each tenant  *)
(* the approver is asked once and the decision noted once, a second mail   *)
(* goes only for one that was lost, a dispatch that is done reached the    *)
(* approver, and a bounce is marked on its row (job_dispatch.py, email.py, *)
(* ses_webhook.py).                                                        *)
THEOREM AskingHolds == A!Given => (MessagesSpec => []AskingIsSound)
<1>1. A!Given => (A!Spec => [](A!TypeOK /\ A!AskingIsSound))
  BY ApprovalsHold
<1> QED BY <1>1, EachKeepsToItself, PTL DEF AskingIsSound

(* With one worker, what a mirror job read of the row is what the row      *)
(* still says when the job writes it back.                                 *)
OneMessenger == \A v, w \in Messengers : v = w
StillSo == \A w \in Messengers : worker[w].at \in {"note", "keep"} => worker[w].ref = row.fs
StaysKnown == row.fs.approval # "none" => row'.fs.approval \in {row.fs.approval, mode}

(* A step of a worker that leaves the reference in the row alone.          *)
LEMMA RefKept ==
    ASSUME AskInv, StillSo, row'.fs = row.fs, NEW w \in Messengers,
           \A v \in Messengers \ {w} : worker'[v] = worker[v],
           worker'[w].at \in {"note", "keep"} => worker'[w].ref = row.fs
    PROVE  StillSo' /\ StaysKnown
  BY DEF StillSo, StaysKnown

(* Workers claim, ask, look and tell.                                      *)
LEMMA WorkerRemembers ==
    ASSUME AskInv, OneMessenger, StillSo, NEW w \in Messengers, A!WorkerStep(w)
    PROVE  StillSo' /\ StaysKnown
<1> worker \in [Messengers -> States] /\ row.fs \in References
  BY DEF AskInv, AskTypes
<1> USE DEF A!Go, A!GoTold, A!At
<1>1. CASE \E k \in A!JobNames : A!Claim(w, k)
  <2> PICK k \in A!JobNames : A!Claim(w, k)
    BY <1>1
  <2>1. worker'[w].at \notin {"note", "keep"}
    BY DEF A!Claim, A!JobNames, States
  <2> QED BY <2>1, RefKept DEF A!Claim, States
<1>2. CASE A!StoreApproval(w)
  <2>1. row'.fs.approval = mode /\ worker' = [worker EXCEPT ![w].at = "card", ![w].told = TRUE]
    BY <1>2, AsTheyWere DEF A!StoreApproval
  <2> QED BY <2>1 DEF StillSo, StaysKnown, OneMessenger, States
<1>3. CASE A!KeepMirror(w)
  <2>1. row'.fs.approval = row.fs.approval /\ worker' = [worker EXCEPT ![w] = A!Idle]
    BY <1>3, AsTheyWere DEF A!KeepMirror, A!Finish, StillSo, References, States
  <2> QED BY <2>1 DEF StillSo, StaysKnown, OneMessenger, A!Idle
<1>4. CASE A!ReadDecision(w)
  <2>1. UNCHANGED row /\ (worker' = [worker EXCEPT ![w].at = "note", ![w].ref = row.fs] \/ worker' = [worker EXCEPT ![w] = A!Idle])
    BY <1>4 DEF A!ReadDecision, A!Finish
  <2> QED BY <2>1, RefKept DEF A!Idle, States
<1>5. CASE A!PostNote(w)
  <2>1. /\ UNCHANGED row /\ worker[w].ref = row.fs
        /\ worker' = [worker EXCEPT ![w].at = "keep"] \/ worker' = [worker EXCEPT ![w] = A!Idle]
    BY <1>5 DEF A!PostNote, A!Finish, A!Again, StillSo
  <2> QED BY <2>1, RefKept DEF A!Idle, States
<1>6. CASE A!DispatchStep(w) /\ ~A!StoreApproval(w)
  <2>1. row'.fs = row.fs
    BY <1>6, AsTheyWere DEF A!DispatchStep, A!AskOnTicket, A!RequestApproval, A!FindCard, A!PostCard, A!RecordCard,
       A!FindMail, A!SendMail, A!CommitMail, A!EndDispatch
  <2>2. worker' = [worker EXCEPT ![w] = worker'[w]] /\ worker'[w].at \notin {"note", "keep"}
    BY <1>6 DEF A!DispatchStep, A!AskOnTicket, A!RequestApproval, A!FindCard, A!PostCard, A!RecordCard,
       A!FindMail, A!SendMail, A!CommitMail, A!EndDispatch, A!Finish, A!Again, A!Idle, States
  <2> QED BY <2>1, <2>2, RefKept
<1>7. CASE A!UpdateCard(w)
  <2>1. UNCHANGED row /\ worker' = [worker EXCEPT ![w] = A!Idle]
    BY <1>7 DEF A!UpdateCard, A!Finish, A!Again
  <2> QED BY <2>1, RefKept DEF A!Idle
<1> QED BY <1>1, <1>2, <1>3, <1>4, <1>5, <1>6, <1>7 DEF A!WorkerStep, A!TellStep

(* Crashes, decisions, the run and the mail service leave it alone.        *)
LEMMA OthersRemember ==
    ASSUME AskInv, OneMessenger, StillSo, [A!Next]_(A!vars), ~\E w \in Messengers : A!WorkerStep(w)
    PROVE  StillSo' /\ StaysKnown
<1> worker \in [Messengers -> States]
  BY DEF AskInv, AskTypes
<1>1. CASE \E w \in Messengers, m \in A!Modes : A!Crash(w, m)
  <2> PICK w \in Messengers, m \in A!Modes : A!Crash(w, m)
    BY <1>1
  <2>1. UNCHANGED row /\ worker' = [worker EXCEPT ![w] = A!Idle]
    BY DEF A!Crash, A!Again, A!Finish
  <2> QED BY <2>1, RefKept DEF A!Idle
<1>2. CASE \E choice \in Choices : A!DecideOnWeb(choice) \/ A!ClickCard(choice) \/ A!FollowLink(choice)
  BY <1>2 DEF A!DecideOnWeb, A!ClickCard, A!FollowLink, A!Decide, StillSo, StaysKnown
<1>3. CASE A!RedrawOnClick \/ A!Resume \/ A!Replan \/ UNCHANGED A!vars
  BY <1>3 DEF A!RedrawOnClick, A!Resume, A!Replan, A!vars, StillSo, StaysKnown
<1>4. CASE \E i \in DOMAIN mails : A!Bounce(i) \/ A!RecordNotice(i)
  <2>1. row'.fs = row.fs /\ UNCHANGED worker
    BY <1>4, AsTheyWere DEF A!Bounce, A!RecordNotice, A!Marked
  <2> QED BY <2>1 DEF StillSo, StaysKnown
<1> QED BY <1>1, <1>2, <1>3, <1>4 DEF A!Next

(* With one worker, where the approver was asked on the ticket is never    *)
(* forgotten: a mirror job, which writes back the row as it read it, does  *)
(* not take a later answer off it (the row of door_messages).              *)
THEOREM ApprovalRemembered == A!Given /\ OneMessenger => (MessagesSpec => A!ApprovalStaysKnown)
<1> SUFFICES ASSUME A!Given, OneMessenger PROVE MessagesSpec => A!ApprovalStaysKnown
  OBVIOUS
<1>1. A!Init => AskInv /\ StillSo
  BY AskStarts DEF A!Init, A!Idle, StillSo
<1>2. AskInv /\ StillSo /\ [A!Next]_(A!vars) => (AskInv /\ StillSo)' /\ [StaysKnown]_(A!vars)
  BY AskKept, WorkerRemembers, OthersRemember
<1>3. MessagesSpec => A!Spec
  BY EachKeepsToItself
<1> QED BY <1>1, <1>2, <1>3, PTL DEF A!Spec, A!ApprovalStaysKnown, StaysKnown

-----------------------------------------------------------------------------
(* Receipts: under the lock, what a builder has read is no older than what *)
(* is stored, and what is stored no older than any note.                   *)

(* The module counts as FiniteSets does.                                   *)
LEMMA ReceiptCounts == \A U : R!Cardinality(U) = Cardinality(U)
  BY DEF R!Cardinality, Cardinality

-----------------------------------------------------------------------------
Seen == [run : 0 .. Len(Story), acts : 0 .. Len(Story)]
Steps == {"lock", "actions", "store", "post", "report"}
Builds == [job : R!Receipt \cup {R!None}, kind : {"none", "build", "note", "mail"}, at : {"idle"} \cup Steps, saw : Seen]
Rows == [R!Keys -> [state : {"none", "ready", "held", "done", "dead"}, tries : 0 .. MaxTries]]

(* No later than.                                                          *)
Before(a, b) == a.run <= b.run /\ a.acts <= b.acts

Now == [run |-> run, acts |-> acts]

(* The types, with what the type invariant leaves out; the actions go      *)
(* ahead of the row.                                                       *)
ReceiptTypes ==
    /\ R!Given /\ R!TypeOK /\ builder \in [Builders -> Builds] /\ unnoted \in Nat
    /\ run <= acts /\ acts <= run + 1

(* A job is there for something, and can be tried while it is ready.       *)
RowsFit ==
    \A k \in R!Keys :
        /\ builds[k].state = "ready" => builds[k].tries < MaxTries
        /\ builds[k].state = "none" => builds[k].tries = 0
        /\ k.kind = "build" /\ builds[k].state # "none" => run > 0

(* What a builder has seen is no older than what is stored, while it holds *)
(* the lock.                                                               *)
HasSeen(w, x) ==
    \/ x = R!Idle
    \/ /\ [kind |-> x.kind, of |-> x.job] \in R!Keys /\ x.at \in Steps
       /\ x.kind = "build" => run > 0
       /\ x.at = "lock" => x.saw = R!None
       /\ x.at \in {"actions", "store", "post"} => lock = w
       /\ x.at = "actions" =>
             x.saw.run > 0 /\ x.saw.acts = 0 /\ x.saw.run <= run /\ stored.is.run <= x.saw.run
       /\ x.at = "store" =>
             /\ x.saw \in R!Receipt /\ x.saw.run <= x.saw.acts
             /\ Before(x.saw, Now) /\ Before(stored.is, x.saw)
       /\ x.at = "post" => x.saw \in R!Receipt /\ stored.is = x.saw /\ ~stored.noted

(* What is stored was so, and the notes are of it or of what was before.   *)
StoredIsSo ==
    /\ stored.is.run <= stored.is.acts /\ Before(stored.is, Now)
    /\ \A i \in DOMAIN notes : Before(notes[i], stored.is)
    /\ ~stored.noted => Cardinality(R!NotesOf(stored.is)) <= unnoted

ReceiptInv ==
    /\ ReceiptTypes /\ RowsFit /\ \A w \in Builders : HasSeen(w, builder[w])
    /\ StoredIsSo /\ R!NotesGoForward /\ R!OneNotePerReceipt /\ R!MailTellsTheEnd

-----------------------------------------------------------------------------
(* What the keys of jobs are.                                              *)
LEMMA KeysAre ==
    ASSUME R!Given
    PROVE  /\ \A i \in 1 .. Len(Story) : R!BuildKey(i) \in R!Keys
           /\ \A r \in R!Receipt : R!NoteKey(r) \in R!Keys
           /\ R!MailKey \in R!Keys
           /\ \A k \in R!Keys : /\ k \in [kind : {"build", "note", "mail"}, of : R!Receipt \cup {R!None}]
                                /\ k.kind = "note" => k.of \in R!Receipt
                                /\ k = [kind |-> k.kind, of |-> k.of]
<1>1. \A i \in 1 .. Len(Story) : R!Outcome(i) \in 1 .. Len(Story)
  BY DEF R!Outcome
<1>2. \A i \in 1 .. Len(Story) : R!BuildKey(i).of \in R!Receipt /\ R!BuildKey(i).kind = "build"
      /\ R!BuildKey(i) = [kind |-> R!BuildKey(i).kind, of |-> R!BuildKey(i).of]
  BY <1>1 DEF R!BuildKey, R!Receipt
<1>3. \A r \in R!Receipt : R!NoteKey(r).of = r /\ R!NoteKey(r).kind = "note"
      /\ R!NoteKey(r) = [kind |-> R!NoteKey(r).kind, of |-> R!NoteKey(r).of]
  BY DEF R!NoteKey
<1>4. R!MailKey.kind = "mail" /\ R!MailKey.of = R!None /\ R!MailKey = [kind |-> R!MailKey.kind, of |-> R!MailKey.of]
  BY DEF R!MailKey
<1>5. \A k \in R!Keys : \/ \E i \in 1 .. Len(Story) : k = R!BuildKey(i)
                        \/ \E r \in R!Receipt : k = R!NoteKey(r)
                        \/ k = R!MailKey
  BY DEF R!Keys
<1>6. /\ \A i \in 1 .. Len(Story) : R!BuildKey(i) \in R!Keys
      /\ \A r \in R!Receipt : R!NoteKey(r) \in R!Keys
      /\ R!MailKey \in R!Keys
  BY DEF R!Keys
<1>7. ASSUME NEW k \in R!Keys
      PROVE  /\ k \in [kind : {"build", "note", "mail"}, of : R!Receipt \cup {R!None}]
             /\ k.kind = "note" => k.of \in R!Receipt
             /\ k = [kind |-> k.kind, of |-> k.of]
  <2>1. CASE \E i \in 1 .. Len(Story) : k = R!BuildKey(i)
    BY <1>2, <2>1
  <2>2. CASE \E r \in R!Receipt : k = R!NoteKey(r)
    BY <1>3, <2>2
  <2>3. CASE k = R!MailKey
    BY <1>4, <2>3
  <2> QED BY <1>5, <2>1, <2>2, <2>3
<1> QED BY <1>6, <1>7

(* A job that was never enqueued is enqueued.                              *)
LEMMA Enqueued ==
    ASSUME ReceiptInv, NEW k \in R!Keys, k.kind = "build" => run' > 0, run' >= run, run' \in Nat, builds' = R!Enqueue(k)
    PROVE  builds' \in Rows /\ RowsFit'
<1>1. builds \in Rows /\ MaxTries \in Nat \ {0}
  BY DEF ReceiptInv, ReceiptTypes, R!Given, R!TypeOK, Rows
<1>2. /\ builds' \in Rows
      /\ \A j \in R!Keys : builds'[j].tries = builds[j].tries
      /\ \A j \in R!Keys : builds'[j].state = IF j = k /\ builds[j].state = "none" THEN "ready" ELSE builds[j].state
  BY <1>1 DEF R!Enqueue, Rows
<1>3. run \in Nat
  BY DEF ReceiptInv, ReceiptTypes, R!Given, R!TypeOK
<1> QED BY <1>1, <1>2, <1>3 DEF ReceiptInv, RowsFit

(* A job ends, or is to be tried again.                                    *)
LEMMA JobEnds ==
    ASSUME ReceiptInv, NEW w \in Builders, builder[w] # R!Idle, NEW state \in {"ready", "done", "dead"}, R!Ended(w, state),
           state = "ready" => builds[R!Key(w)].tries < MaxTries, run' = run
    PROVE  /\ builds' \in Rows /\ RowsFit' /\ builder' \in [Builders -> Builds]
           /\ \A v \in Builders : builder'[v] = IF v = w THEN R!Idle ELSE builder[v]
           /\ lock' \in Builders \cup {"free"}
           /\ \A v \in Builders \ {w} : lock = v => lock' = v
<1>1. builds \in Rows /\ builder \in [Builders -> Builds] /\ lock \in Builders \cup {"free"} /\ Len(Story) \in Nat
  BY DEF ReceiptInv, ReceiptTypes, R!Given, R!TypeOK, Rows
<1>2. HasSeen(w, builder[w])
  BY DEF ReceiptInv
<1>3. R!Key(w) \in R!Keys /\ (R!Key(w).kind = "build" => run > 0)
  BY <1>2 DEF HasSeen, R!Key
<1> DEFINE k == R!Key(w)
<1>4. builds' = [builds EXCEPT ![k].state = state] /\ builder' = [builder EXCEPT ![w] = R!Idle] /\ lock' = R!Unlocked(w)
  BY DEF R!Ended
<1>5. k \in R!Keys /\ (k.kind = "build" => run > 0) /\ (state = "ready" => builds[k].tries < MaxTries)
  BY <1>3
<1> HIDE DEF k
<1>6. /\ builds' \in Rows
      /\ \A j \in R!Keys : builds'[j].tries = builds[j].tries /\ builds'[j].state = IF j = k THEN state ELSE builds[j].state
  BY <1>1, <1>4, <1>5 DEF Rows
<1>7. RowsFit'
  BY <1>5, <1>6 DEF ReceiptInv, RowsFit
<1>8. R!Idle \in Builds
  BY <1>1 DEF R!Idle, Builds, R!None, Seen
<1> QED BY <1>1, <1>4, <1>6, <1>7, <1>8 DEF R!Unlocked

(* A builder goes on.                                                      *)
LEMMA BuilderIs ==
    ASSUME ReceiptInv, NEW w \in Builders, NEW x \in Builds, builder' = [builder EXCEPT ![w] = x]
    PROVE  builder' \in [Builders -> Builds] /\ \A v \in Builders : builder'[v] = IF v = w THEN x ELSE builder[v]
  BY DEF ReceiptInv, ReceiptTypes

(* What the others have seen stays so, while nothing is stored.            *)
LEMMA OthersSee ==
    ASSUME ReceiptInv, NEW w, stored' = stored, run' \in Nat, acts' \in Nat, run' >= run, acts' >= acts,
           \A v \in Builders \ {w} : builder'[v] = builder[v] /\ (lock = v => lock' = v)
    PROVE  \A v \in Builders \ {w} : HasSeen(v, builder[v])'
<1> SUFFICES ASSUME NEW v \in Builders \ {w} PROVE HasSeen(v, builder[v])'
  OBVIOUS
<1>1. HasSeen(v, builder[v]) /\ builder'[v] = builder[v] /\ (lock = v => lock' = v)
  BY DEF ReceiptInv
<1>2. run \in Nat /\ acts \in Nat /\ builder[v].saw \in [run : Nat, acts : Nat]
  BY DEF ReceiptInv, ReceiptTypes, R!Given, R!TypeOK, Builds, Seen
<1> QED BY <1>1, <1>2 DEF HasSeen, Before, Now

(* What is stored stays so, too.                                           *)
LEMMA StoredStays ==
    ASSUME ReceiptInv, stored' = stored, notes' = notes, unnoted' = unnoted,
           run' \in Nat, acts' \in Nat, run' >= run, acts' >= acts
    PROVE  StoredIsSo' /\ R!NotesGoForward' /\ R!OneNotePerReceipt'
<1>1. run \in Nat /\ acts \in Nat /\ stored.is.run \in Nat /\ stored.is.acts \in Nat
  BY DEF ReceiptInv, ReceiptTypes, R!Given, R!TypeOK, R!Receipt, R!None
<1>2. R!NotesOf(stored.is)' = R!NotesOf(stored.is) /\ \A r : R!NotesOf(r)' = R!NotesOf(r)
  BY DEF R!NotesOf
<1> QED BY <1>1, <1>2 DEF ReceiptInv, StoredIsSo, Before, Now, R!NotesGoForward, R!OneNotePerReceipt, R!Receipt

(* While a builder holds the lock, the others have seen nothing.           *)
LEMMA OthersWait ==
    ASSUME ReceiptInv, NEW w, lock = w, R!runVars' = R!runVars,
           \A v \in Builders \ {w} : builder'[v] = builder[v]
    PROVE  \A v \in Builders \ {w} : HasSeen(v, builder[v])'
<1> SUFFICES ASSUME NEW v \in Builders \ {w} PROVE HasSeen(v, builder[v])'
  OBVIOUS
<1>1. HasSeen(v, builder[v]) /\ builder'[v] = builder[v] /\ lock # v
  BY DEF ReceiptInv
<1> QED BY <1>1 DEF HasSeen, R!runVars

(* A builder's step that leaves what is stored and noted as it was.        *)
LEMMA StepKept ==
    ASSUME ReceiptInv, NEW w \in Builders, UNCHANGED <<R!runVars, stored, indexed, notes, unnoted>>,
           cuts' \in 0 .. MaxFaults, cuts' >= cuts,
           receiptMails' = receiptMails \/ (receiptMails' \in Seq(R!Receipt) /\ R!MailTellsTheEnd'),
           builds' \in Rows, RowsFit', builder' \in [Builders -> Builds], lock' \in Builders \cup {"free"},
           \A v \in Builders \ {w} : builder'[v] = builder[v] /\ (lock = v => lock' = v),
           HasSeen(w, builder[w])'
    PROVE  ReceiptInv'
<1>1. run' = run /\ acts' = acts /\ stored' = stored /\ run \in Nat /\ acts \in Nat
  BY DEF R!runVars, ReceiptInv, ReceiptTypes, R!Given, R!TypeOK
<1>2. \A v \in Builders \ {w} : HasSeen(v, builder[v])'
  <2>1. run' \in Nat /\ acts' \in Nat /\ run' >= run /\ acts' >= acts
    BY <1>1
  <2>2. \A v \in Builders \ {w} : builder'[v] = builder[v] /\ (lock = v => lock' = v)
    OBVIOUS
  <2> QED BY <1>1, <2>1, <2>2, OthersSee
<1>3. \A v \in Builders : HasSeen(v, builder[v])'
  BY <1>2
<1>4. StoredIsSo' /\ R!NotesGoForward' /\ R!OneNotePerReceipt'
  BY <1>1, StoredStays
<1>5. R!MailTellsTheEnd' /\ receiptMails' \in Seq(R!Receipt)
  BY DEF ReceiptInv, ReceiptTypes, R!TypeOK, R!MailTellsTheEnd
<1>6. unnoted \in Nat /\ unnoted <= cuts /\ cuts \in Nat /\ cuts' \in Nat
  BY DEF ReceiptInv, ReceiptTypes, R!Given, R!TypeOK
<1>7. R!TypeOK'
  <2>1. \A v \in Builders : builder'[v].saw \in [run : 0 .. Len(Story), acts : 0 .. Len(Story)]
    BY DEF Builds, Seen
  <2> QED BY <1>1, <1>5, <1>6, <2>1 DEF ReceiptInv, ReceiptTypes, R!TypeOK, Rows
<1>8. ReceiptTypes'
  BY <1>1, <1>6, <1>7 DEF ReceiptInv, ReceiptTypes, R!Given
<1> QED BY <1>3, <1>4, <1>5, <1>8 DEF ReceiptInv

(* A step of the run, and of who asks for a mail.                          *)
LEMMA RunStepKept ==
    ASSUME ReceiptInv, UNCHANGED <<stored, indexed, lock, builder, notes, receiptMails, cuts, unnoted>>,
           run' \in 0 .. Len(Story), acts' \in 0 .. Len(Story), run' >= run, acts' >= acts,
           run' <= acts', acts' <= run' + 1, builds' \in Rows, RowsFit'
    PROVE  ReceiptInv'
<1>0. Len(Story) \in Nat
  BY DEF ReceiptInv, ReceiptTypes, R!Given
<1>1. run' \in Nat /\ acts' \in Nat /\ stored' = stored
  BY <1>0
<1>2. "free" \notin Builders
  BY DEF ReceiptInv, ReceiptTypes, R!Given
<1>3. \A v \in Builders \ {"free"} : HasSeen(v, builder[v])'
  BY <1>1, OthersSee
<1>4. \A v \in Builders : HasSeen(v, builder[v])'
  BY <1>2, <1>3
<1>5. StoredIsSo' /\ R!NotesGoForward' /\ R!OneNotePerReceipt'
  BY <1>1, StoredStays
<1>6. R!MailTellsTheEnd'
  BY DEF ReceiptInv, R!MailTellsTheEnd
<1>7. ReceiptTypes'
  BY DEF ReceiptInv, ReceiptTypes, R!Given, R!TypeOK, Rows
<1> QED BY <1>4, <1>5, <1>6, <1>7 DEF ReceiptInv

-----------------------------------------------------------------------------
(* Nothing is stored at first.                                             *)
LEMMA ReceiptsStart == R!Given /\ R!Init => ReceiptInv
<1> SUFFICES ASSUME R!Given, R!Init PROVE ReceiptInv
  OBVIOUS
<1> USE DEF R!Init
<1>1. Len(Story) \in Nat /\ MaxTries \in Nat \ {0}
  BY DEF R!Given
<1>2. notes \in Seq(R!Receipt) /\ receiptMails \in Seq(R!Receipt) /\ DOMAIN notes = {}
  <2>1. <<>> \in Seq(R!Receipt) /\ Len(<<>>) = 0 /\ DOMAIN <<>> = 1 .. 0
    OBVIOUS
  <2> QED BY <2>1
<1>3. \A w \in Builders : builder[w] = R!Idle
  OBVIOUS
<1>4. R!Idle \in Builds
  BY <1>1 DEF R!Idle, Builds, R!None, Seen
<1>5. builds \in Rows /\ RowsFit
  BY <1>1 DEF Rows, RowsFit
<1>6. ReceiptTypes
  BY <1>1, <1>2, <1>3, <1>4, <1>5 DEF ReceiptTypes, R!Given, R!TypeOK, Rows, Builds, Seen, R!None
<1>7. \A r : R!NotesOf(r) = {}
  BY <1>2 DEF R!NotesOf
<1>8. Cardinality({}) = 0
  BY FS_EmptySet
<1>9. StoredIsSo
  <2>1. Cardinality(R!NotesOf(stored.is)) = 0 /\ unnoted = 0
    BY <1>7, <1>8
  <2>2. stored.is = [run |-> 0, acts |-> 0] /\ run = 0 /\ acts = 0
    BY DEF R!None
  <2> QED BY <1>2, <2>1, <2>2 DEF StoredIsSo, Before, Now
<1>10. R!NotesGoForward /\ R!MailTellsTheEnd
  BY <1>2 DEF R!NotesGoForward, R!MailTellsTheEnd
<1>11. R!OneNotePerReceipt
  <2>1. \A r : Cardinality(R!NotesOf(r)) = 0
    BY <1>7, <1>8
  <2> QED BY <2>1, ReceiptCounts DEF R!OneNotePerReceipt
<1> QED BY <1>3, <1>5, <1>6, <1>9, <1>10, <1>11 DEF ReceiptInv, HasSeen

(* The actions are carried out.                                            *)
LEMMA ActKept == ASSUME ReceiptInv, R!Act PROVE ReceiptInv'
<1>1. run \in Nat /\ acts \in Nat /\ Len(Story) \in Nat /\ builds \in Rows
  BY DEF ReceiptInv, ReceiptTypes, R!Given, R!TypeOK, Rows
<1>2. acts' = acts + 1 /\ run' = run /\ acts = run /\ run < Len(Story) /\ builds' = builds
  BY DEF R!Act
<1>3. RowsFit'
  BY <1>2 DEF ReceiptInv, RowsFit
<1> QED BY <1>1, <1>2, <1>3, RunStepKept DEF R!Act

(* The run's row follows, with a job for its receipt.                      *)
LEMMA FinalizeKept == ASSUME ReceiptInv, R!Finalize PROVE ReceiptInv'
<1>1. run \in Nat /\ acts \in 0 .. Len(Story) /\ Len(Story) \in Nat /\ R!Given
  BY DEF ReceiptInv, ReceiptTypes, R!Given, R!TypeOK
<1>2. acts = run + 1 /\ run' = acts /\ acts' = acts /\ builds' = R!Enqueue(R!BuildKey(acts))
  BY DEF R!Finalize
<1>3. R!BuildKey(acts) \in R!Keys
  BY <1>1, <1>2, KeysAre
<1>4. builds' \in Rows /\ RowsFit'
  BY <1>1, <1>2, <1>3, Enqueued
<1> QED BY <1>1, <1>2, <1>4, RunStepKept DEF R!Finalize

(* A mail is asked for.                                                    *)
LEMMA AskForMailKept == ASSUME ReceiptInv, R!AskForMail PROVE ReceiptInv'
<1>1. run \in 0 .. Len(Story) /\ acts \in 0 .. Len(Story) /\ Len(Story) \in Nat /\ R!Given
      /\ run <= acts /\ acts <= run + 1
  BY DEF ReceiptInv, ReceiptTypes, R!Given, R!TypeOK
<1>2. run > 0 /\ run' = run /\ acts' = acts /\ builds' = R!Enqueue(R!MailKey)
  BY DEF R!AskForMail, R!runVars
<1>3. R!MailKey \in R!Keys
  BY <1>1, KeysAre
<1>4. builds' \in Rows /\ RowsFit'
  BY <1>1, <1>2, <1>3, Enqueued
<1> QED BY <1>1, <1>2, <1>4, RunStepKept DEF R!AskForMail

(* A builder takes up a job.                                               *)
LEMMA ClaimKept == ASSUME ReceiptInv, NEW w \in Builders, NEW k \in R!Keys, R!Claim(w, k) PROVE ReceiptInv'
<1>1. R!Given /\ Len(Story) \in Nat /\ builds \in Rows /\ MaxTries \in Nat
  BY DEF ReceiptInv, ReceiptTypes, R!Given, R!TypeOK, Rows
<1>2. k \in [kind : {"build", "note", "mail"}, of : R!Receipt \cup {R!None}] /\ k = [kind |-> k.kind, of |-> k.of]
  BY <1>1, KeysAre
<1>3. PICK x \in Builds : x = [job |-> k.of, kind |-> k.kind, at |-> "lock", saw |-> R!None]
  <2>1. R!None \in Seen
    BY <1>1 DEF Seen, R!None
  <2> QED BY <1>2, <2>1 DEF Builds, Steps
<1>4. builder' = [builder EXCEPT ![w] = x] /\ builds[k].state = "ready"
  BY <1>3 DEF R!Claim
<1>5. builds[k].tries < MaxTries /\ (k.kind = "build" => run > 0)
  BY <1>4 DEF ReceiptInv, RowsFit
<1>6. HasSeen(w, x)'
  BY <1>2, <1>3, <1>5 DEF HasSeen, Steps, R!Claim, R!runVars
<1>7. /\ builds' \in Rows
      /\ \A j \in R!Keys \ {k} : builds'[j] = builds[j]
      /\ builds'[k].state = "held"
  BY <1>1, <1>5 DEF R!Claim, Rows
<1>8. RowsFit'
  BY <1>5, <1>7 DEF ReceiptInv, RowsFit, R!Claim, R!runVars
<1>9. builder' \in [Builders -> Builds] /\ \A v \in Builders : builder'[v] = IF v = w THEN x ELSE builder[v]
  BY <1>3, <1>4, BuilderIs
<1>10. HasSeen(w, builder[w])'
  BY <1>6, <1>9 DEF HasSeen
<1>11. cuts' \in 0 .. MaxFaults /\ cuts' >= cuts /\ lock' = lock /\ lock \in Builders \cup {"free"}
  BY DEF R!Claim, ReceiptInv, ReceiptTypes, R!Given, R!TypeOK
<1> QED BY <1>7, <1>8, <1>9, <1>10, <1>11, StepKept DEF R!Claim

(* A job is put back.                                                      *)
LEMMA PutBack ==
    ASSUME ReceiptInv, NEW w \in Builders, builder[w] # R!Idle, R!Again(w), R!runVars' = R!runVars
    PROVE  /\ cuts' \in 0 .. MaxFaults /\ cuts' = cuts + 1
           /\ builds' \in Rows /\ RowsFit' /\ builder' \in [Builders -> Builds] /\ builder'[w] = R!Idle
           /\ lock' \in Builders \cup {"free"}
           /\ \A v \in Builders \ {w} : builder'[v] = builder[v] /\ (lock = v => lock' = v)
<1>1. cuts' = cuts + 1 /\ cuts' \in 0 .. MaxFaults
  BY DEF R!Again, R!Fault, ReceiptInv, ReceiptTypes, R!Given, R!TypeOK
<1> DEFINE to == IF builds[R!Key(w)].tries < MaxTries THEN "ready" ELSE "dead"
<1>2. R!Ended(w, to) /\ to \in {"ready", "done", "dead"} /\ (to = "ready" => builds[R!Key(w)].tries < MaxTries)
  BY DEF R!Again
<1>3. run' = run
  BY DEF R!runVars
<1> HIDE DEF to
<1> QED BY <1>1, <1>2, <1>3, JobEnds

(* A worker dies.                                                          *)
LEMMA BuilderCrashKept == ASSUME ReceiptInv, NEW w \in Builders, R!Crash(w) PROVE ReceiptInv'
<1>1. builder[w] # R!Idle /\ R!Again(w) /\ UNCHANGED <<R!runVars, stored, indexed, notes, receiptMails, unnoted>>
  BY DEF R!Crash
<1>2. /\ cuts' \in 0 .. MaxFaults /\ cuts' = cuts + 1
      /\ builds' \in Rows /\ RowsFit' /\ builder' \in [Builders -> Builds] /\ builder'[w] = R!Idle
      /\ lock' \in Builders \cup {"free"}
      /\ \A v \in Builders \ {w} : builder'[v] = builder[v] /\ (lock = v => lock' = v)
  BY <1>1, PutBack
<1>3. HasSeen(w, builder[w])' /\ cuts' >= cuts
  BY <1>2 DEF HasSeen, ReceiptInv, ReceiptTypes, R!Given, R!TypeOK
<1> QED BY <1>1, <1>2, <1>3, StepKept

(* A builder is done with its job.                                         *)
LEMMA ReportKept == ASSUME ReceiptInv, NEW w \in Builders, R!Report(w) PROVE ReceiptInv'
<1>1. R!Ended(w, "done") /\ UNCHANGED <<R!runVars, stored, indexed, notes, receiptMails, cuts, unnoted>> /\ builder[w] # R!Idle
      /\ run' = run
  BY DEF R!Report, R!At, R!Idle, R!runVars
<1>2. /\ builds' \in Rows /\ RowsFit' /\ builder' \in [Builders -> Builds]
      /\ \A v \in Builders : builder'[v] = IF v = w THEN R!Idle ELSE builder[v]
      /\ lock' \in Builders \cup {"free"}
      /\ \A v \in Builders \ {w} : lock = v => lock' = v
  BY <1>1, JobEnds
<1>3. HasSeen(w, builder[w])'
  BY <1>2 DEF HasSeen
<1>4. cuts' \in 0 .. MaxFaults /\ cuts' >= cuts
  BY <1>1 DEF ReceiptInv, ReceiptTypes, R!Given, R!TypeOK
<1> QED BY <1>1, <1>2, <1>3, <1>4, StepKept

(* What a busy builder is at.                                              *)
LEMMA Busy ==
    ASSUME ReceiptInv, NEW w \in Builders, builder[w].at # "idle"
    PROVE  /\ builder[w] # R!Idle /\ HasSeen(w, builder[w]) /\ builder[w] \in Builds /\ Len(Story) \in Nat
           /\ run \in 0 .. Len(Story) /\ acts \in 0 .. Len(Story) /\ run <= acts
           /\ stored.is.run \in Nat /\ stored.is.acts \in Nat
           /\ cuts \in 0 .. MaxFaults /\ cuts >= cuts
  BY DEF ReceiptInv, ReceiptTypes, R!Given, R!TypeOK, R!Idle, R!Receipt, R!None

(* The run's row is read under the lock.                                   *)
LEMMA ReadRunKept == ASSUME ReceiptInv, NEW w \in Builders, R!ReadRun(w) PROVE ReceiptInv'
<1>1. R!At(w, "lock") /\ lock = "free" /\ builder[w].kind = "build" /\ lock' = w
      /\ UNCHANGED <<R!runVars, stored, indexed, builds, notes, receiptMails, cuts, unnoted>> /\ run' = run /\ acts' = acts
  BY DEF R!ReadRun, R!runVars
<1>2. /\ builder[w] # R!Idle /\ HasSeen(w, builder[w]) /\ builder[w] \in Builds /\ Len(Story) \in Nat
      /\ run \in 0 .. Len(Story) /\ acts \in 0 .. Len(Story) /\ run <= acts
      /\ stored.is.run \in Nat /\ stored.is.acts \in Nat
      /\ cuts \in 0 .. MaxFaults /\ cuts >= cuts
  BY <1>1, Busy DEF R!At
<1>3. PICK x \in Builds : /\ x = [builder[w] EXCEPT !.at = "actions", !.saw.run = run]
                            /\ builder' = [builder EXCEPT ![w] = x]
  <2>1. [builder[w] EXCEPT !.at = "actions", !.saw.run = run] \in Builds
    BY <1>2 DEF Builds, Seen, Steps
  <2>2. builder' = [builder EXCEPT ![w] = [builder[w] EXCEPT !.at = "actions", !.saw.run = run]]
    BY DEF R!ReadRun, ReceiptInv, ReceiptTypes
  <2> QED BY <2>1, <2>2
<1>4. x.job = builder[w].job /\ x.kind = "build" /\ x.at = "actions" /\ x.saw.run = run
      /\ x.saw.acts = builder[w].saw.acts
  BY <1>1, <1>2, <1>3 DEF Builds, Seen
<1>5. run > 0 /\ builder[w].saw = R!None /\ [kind |-> builder[w].kind, of |-> builder[w].job] \in R!Keys
  BY <1>1, <1>2 DEF HasSeen, R!At
<1>6. stored.is.run <= run
  BY DEF ReceiptInv, StoredIsSo, Before, Now
<1>7. HasSeen(w, x)'
  BY <1>1, <1>2, <1>4, <1>5, <1>6 DEF HasSeen, Steps, R!None
<1>8. builder' \in [Builders -> Builds] /\ \A v \in Builders : builder'[v] = IF v = w THEN x ELSE builder[v]
  BY <1>3, BuilderIs
<1>9. HasSeen(w, builder[w])'
  BY <1>7, <1>8 DEF HasSeen
<1>10. builds' \in Rows /\ RowsFit'
  BY <1>1 DEF ReceiptInv, ReceiptTypes, R!TypeOK, Rows, RowsFit
<1>11. "free" \notin Builders
  BY DEF ReceiptInv, ReceiptTypes, R!Given
<1> QED BY <1>1, <1>2, <1>8, <1>9, <1>10, <1>11, StepKept

(* The actions are read after the run's row.                               *)
LEMMA ReadActionsKept == ASSUME ReceiptInv, NEW w \in Builders, R!ReadActions(w) PROVE ReceiptInv'
<1>1. R!At(w, "actions") /\ lock' = lock /\ UNCHANGED <<R!runVars, stored, indexed, builds, notes, receiptMails, cuts, unnoted>>
      /\ run' = run /\ acts' = acts
  BY DEF R!ReadActions, R!runVars
<1>2. /\ builder[w] # R!Idle /\ HasSeen(w, builder[w]) /\ builder[w] \in Builds /\ Len(Story) \in Nat
      /\ run \in 0 .. Len(Story) /\ acts \in 0 .. Len(Story) /\ run <= acts
      /\ stored.is.run \in Nat /\ stored.is.acts \in Nat
      /\ cuts \in 0 .. MaxFaults /\ cuts >= cuts
  BY <1>1, Busy DEF R!At
<1>3. /\ builder[w].saw.run > 0 /\ builder[w].saw.acts = 0 /\ builder[w].saw.run <= run
      /\ stored.is.run <= builder[w].saw.run /\ lock = w
      /\ [kind |-> builder[w].kind, of |-> builder[w].job] \in R!Keys /\ (builder[w].kind = "build" => run > 0)
  BY <1>1, <1>2 DEF HasSeen, R!At
<1>4. builder[w].saw \in [run : 0 .. Len(Story), acts : 0 .. Len(Story)]
  BY <1>2 DEF Builds, Seen
<1>5. PICK x \in Builds :
         /\ x = [builder[w] EXCEPT !.at = "store", !.saw = [run |-> builder[w].saw.run, acts |-> acts]]
         /\ builder' = [builder EXCEPT ![w] = x]
  <2>1. [run |-> builder[w].saw.run, acts |-> acts] \in Seen
    BY <1>2, <1>4 DEF Seen
  <2>2. PICK saw \in Seen : saw = [run |-> builder[w].saw.run, acts |-> acts]
    BY <2>1
  <2>3. saw = [run  |-> IF builder[w].saw.run = 0 THEN run ELSE builder[w].saw.run,
               acts |-> IF builder[w].saw.acts = 0 THEN acts ELSE builder[w].saw.acts]
    BY <1>3, <2>2
  <2>4. builder' = [builder EXCEPT ![w].at = "store", ![w].saw = saw]
    BY <2>3 DEF R!ReadActions
  <2>5. builder' = [builder EXCEPT ![w] = [builder[w] EXCEPT !.at = "store", !.saw = saw]]
    BY <2>4 DEF ReceiptInv, ReceiptTypes
  <2>6. [builder[w] EXCEPT !.at = "store", !.saw = saw] \in Builds
    BY <1>2 DEF Builds, Steps
  <2> QED BY <2>2, <2>5, <2>6
<1>6. x.job = builder[w].job /\ x.kind = builder[w].kind /\ x.at = "store"
      /\ x.saw = [run |-> builder[w].saw.run, acts |-> acts]
  BY <1>2, <1>5 DEF Builds
<1>7. x.saw \in R!Receipt /\ x.saw.run <= x.saw.acts
  BY <1>2, <1>3, <1>4, <1>6 DEF R!Receipt
<1>8. stored.is.acts <= acts
  BY DEF ReceiptInv, StoredIsSo, Before, Now
<1>9. HasSeen(w, x)'
  BY <1>1, <1>2, <1>3, <1>4, <1>6, <1>7, <1>8 DEF HasSeen, Steps, Before, Now
<1>10. builder' \in [Builders -> Builds] /\ \A v \in Builders : builder'[v] = IF v = w THEN x ELSE builder[v]
  BY <1>5, BuilderIs
<1>11. HasSeen(w, builder[w])'
  BY <1>9, <1>10 DEF HasSeen
<1>12. builds' \in Rows /\ RowsFit' /\ lock \in Builders \cup {"free"}
  BY <1>1 DEF ReceiptInv, ReceiptTypes, R!TypeOK, Rows, RowsFit
<1> QED BY <1>1, <1>2, <1>10, <1>11, <1>12, StepKept

(* A note's job looks up its receipt, or has nothing to do.                *)
LEMMA ReadReceiptKept == ASSUME ReceiptInv, NEW w \in Builders, R!ReadReceipt(w) PROVE ReceiptInv'
<1>1. R!At(w, "lock") /\ lock = "free" /\ builder[w].kind = "note" /\ run' = run
      /\ UNCHANGED <<R!runVars, stored, indexed, notes, receiptMails, cuts, unnoted>>
  BY DEF R!ReadReceipt, R!runVars
<1>2. /\ builder[w] # R!Idle /\ HasSeen(w, builder[w]) /\ builder[w] \in Builds /\ Len(Story) \in Nat
      /\ run \in 0 .. Len(Story) /\ acts \in 0 .. Len(Story) /\ run <= acts
      /\ stored.is.run \in Nat /\ stored.is.acts \in Nat
      /\ cuts \in 0 .. MaxFaults /\ cuts >= cuts
  BY <1>1, Busy DEF R!At
<1>3. CASE R!Wanted(w) /\ lock' = w /\ builds' = builds
           /\ builder' = [builder EXCEPT ![w].at = "post", ![w].saw = builder[w].job]
  <2>1. [kind |-> "note", of |-> builder[w].job] \in R!Keys
    BY <1>1, <1>2 DEF HasSeen, R!At
  <2>2. builder[w].job \in R!Receipt
    <3>1. R!Given
      BY DEF ReceiptInv, ReceiptTypes
    <3> QED BY <2>1, <3>1, KeysAre
  <2>3. PICK x \in Builds : /\ x = [builder[w] EXCEPT !.at = "post", !.saw = builder[w].job]
                              /\ builder' = [builder EXCEPT ![w] = x]
    <3>1. builder[w].job \in Seen
      BY <1>2, <2>2 DEF Seen, R!Receipt
    <3>2. [builder[w] EXCEPT !.at = "post", !.saw = builder[w].job] \in Builds
      BY <1>2, <3>1 DEF Builds, Steps
    <3>3. builder' = [builder EXCEPT ![w] = [builder[w] EXCEPT !.at = "post", !.saw = builder[w].job]]
      BY <1>3 DEF ReceiptInv, ReceiptTypes
    <3> QED BY <3>2, <3>3
  <2>4. x.job = builder[w].job /\ x.kind = "note" /\ x.at = "post" /\ x.saw = builder[w].job
    BY <1>1, <1>2, <2>3 DEF Builds
  <2>5. HasSeen(w, x)'
    BY <1>1, <1>3, <2>1, <2>2, <2>4 DEF HasSeen, Steps, R!Wanted
  <2>6. builder' \in [Builders -> Builds] /\ \A v \in Builders : builder'[v] = IF v = w THEN x ELSE builder[v]
    BY <2>3, BuilderIs
  <2>7. HasSeen(w, builder[w])'
    BY <2>5, <2>6 DEF HasSeen
  <2>8. builds' \in Rows /\ RowsFit' /\ "free" \notin Builders
    BY <1>1, <1>3 DEF ReceiptInv, ReceiptTypes, R!Given, R!TypeOK, Rows, RowsFit
  <2> QED BY <1>1, <1>2, <1>3, <2>6, <2>7, <2>8, StepKept
<1>4. CASE R!Ended(w, "done")
  <2>1. /\ builds' \in Rows /\ RowsFit' /\ builder' \in [Builders -> Builds]
        /\ \A v \in Builders : builder'[v] = IF v = w THEN R!Idle ELSE builder[v]
        /\ lock' \in Builders \cup {"free"}
        /\ \A v \in Builders \ {w} : lock = v => lock' = v
    BY <1>1, <1>2, <1>4, JobEnds
  <2>2. HasSeen(w, builder[w])'
    BY <2>1 DEF HasSeen
  <2> QED BY <1>1, <1>2, <2>1, <2>2, StepKept
<1> QED BY <1>3, <1>4 DEF R!ReadReceipt

(* A builder is through with its transaction.                              *)
LEMMA Committed ==
    ASSUME ReceiptInv, NEW w \in Builders, builder[w].at # "idle", R!Through(w), run' = run
    PROVE  /\ builder' \in [Builders -> Builds] /\ HasSeen(w, builder[w])' /\ lock' \in Builders \cup {"free"}
           /\ \A v \in Builders \ {w} : builder'[v] = builder[v] /\ (lock = v => lock' = v)
<1>1. HasSeen(w, builder[w]) /\ builder[w] \in Builds /\ builder[w] # R!Idle
  BY Busy
<1>2. PICK x \in Builds : x = [builder[w] EXCEPT !.at = "report"] /\ builder' = [builder EXCEPT ![w] = x]
  BY <1>1 DEF R!Through, Builds, Steps
<1>3. x.job = builder[w].job /\ x.kind = builder[w].kind /\ x.at = "report"
  BY <1>1, <1>2 DEF Builds
<1>4. HasSeen(w, x)'
  BY <1>1, <1>3 DEF HasSeen, Steps
<1>5. builder' \in [Builders -> Builds] /\ \A v \in Builders : builder'[v] = IF v = w THEN x ELSE builder[v]
  BY <1>2, BuilderIs
<1>6. HasSeen(w, builder[w])'
  BY <1>4, <1>5 DEF HasSeen
<1>7. lock \in Builders \cup {"free"}
  BY DEF ReceiptInv, ReceiptTypes, R!TypeOK
<1> QED BY <1>5, <1>6, <1>7 DEF R!Through, R!Unlocked

(* The receipt mail tells the end of the run.                              *)
LEMMA MailReceiptKept == ASSUME ReceiptInv, NEW w \in Builders, R!MailReceipt(w) PROVE ReceiptInv'
<1>1. R!At(w, "lock") /\ R!Through(w) /\ run' = run /\ UNCHANGED <<R!runVars, stored, indexed, builds, notes, cuts, unnoted>>
  BY DEF R!MailReceipt, R!runVars
<1>2. /\ Len(Story) \in Nat /\ run \in 0 .. Len(Story) /\ acts \in 0 .. Len(Story) /\ run <= acts
      /\ cuts \in 0 .. MaxFaults /\ cuts >= cuts
  BY <1>1, Busy DEF R!At
<1>3. /\ builder' \in [Builders -> Builds] /\ HasSeen(w, builder[w])' /\ lock' \in Builders \cup {"free"}
      /\ \A v \in Builders \ {w} : builder'[v] = builder[v] /\ (lock = v => lock' = v)
  BY <1>1, Committed DEF R!At
<1>4. receiptMails' = receiptMails \/ (receiptMails' \in Seq(R!Receipt) /\ R!MailTellsTheEnd')
  <2>1. CASE R!Ending /\ receiptMails = <<>>
    <3>1. run = Len(Story) /\ acts = Len(Story) /\ Len(Story) >= 1
      <4>1. run > 0 /\ Story[run].status \in Final /\ run \in 1 .. Len(Story)
        BY <1>2, <2>1 DEF R!Ending
      <4> QED BY <1>2, <4>1 DEF ReceiptInv, ReceiptTypes, R!Given
    <3>2. [run |-> run, acts |-> acts] \in R!Receipt
      BY <1>2, <3>1 DEF R!Receipt
    <3>3. receiptMails' = <<[run |-> run, acts |-> acts]>>
      BY <2>1 DEF R!MailReceipt
    <3> QED BY <3>1, <3>2, <3>3 DEF R!MailTellsTheEnd
  <2> QED BY <2>1 DEF R!MailReceipt
<1>5. builds' \in Rows /\ RowsFit'
  BY <1>1 DEF ReceiptInv, ReceiptTypes, R!TypeOK, Rows, RowsFit
<1> QED BY <1>1, <1>2, <1>3, <1>4, <1>5, StepKept

(* The receipt that was read is stored; a new one has no note.             *)
LEMMA StoreReceiptKept == ASSUME ReceiptInv, NEW w \in Builders, R!StoreReceipt(w) PROVE ReceiptInv'
<1> DEFINE saw == builder[w].saw
           new == stored.is # saw
<1>1. /\ R!At(w, "store") /\ R!Through(w) /\ run' = run /\ acts' = acts /\ R!runVars' = R!runVars /\ indexed' = saw
      /\ UNCHANGED <<notes, receiptMails, cuts, unnoted>>
      /\ stored' = IF new THEN R!NewReceipt(saw) ELSE stored
      /\ builds' = IF new THEN R!Enqueue(R!NoteKey(saw)) ELSE builds
  BY DEF R!StoreReceipt, R!runVars
<1>2. /\ HasSeen(w, builder[w]) /\ Len(Story) \in Nat /\ run \in 0 .. Len(Story) /\ acts \in 0 .. Len(Story)
      /\ run <= acts /\ stored.is.run \in Nat /\ stored.is.acts \in Nat
  BY <1>1, Busy DEF R!At
<1>3. lock = w /\ saw \in R!Receipt /\ saw.run <= saw.acts /\ Before(saw, Now) /\ Before(stored.is, saw)
  BY <1>1, <1>2 DEF HasSeen, R!At, R!Idle
<1>4. /\ builder' \in [Builders -> Builds] /\ HasSeen(w, builder[w])' /\ lock' \in Builders \cup {"free"}
      /\ \A v \in Builders \ {w} : builder'[v] = builder[v] /\ (lock = v => lock' = v)
  BY <1>1, Committed DEF R!At
<1>5. \A v \in Builders : HasSeen(v, builder[v])'
  <2>1. \A v \in Builders \ {w} : HasSeen(v, builder[v])'
    BY <1>1, <1>3, <1>4, OthersWait
  <2> QED BY <1>4, <2>1
<1>6. builds' \in Rows /\ RowsFit'
  <2>1. CASE new
    <3>1. R!NoteKey(saw) \in R!Keys /\ R!NoteKey(saw).kind = "note"
      <4>1. R!Given
        BY DEF ReceiptInv, ReceiptTypes
      <4> QED BY <1>3, <4>1, KeysAre DEF R!NoteKey
    <3> QED BY <1>1, <1>2, <2>1, <3>1, Enqueued
  <2>2. CASE ~new
    BY <1>1, <2>2 DEF ReceiptInv, ReceiptTypes, R!TypeOK, Rows, RowsFit
  <2> QED BY <2>1, <2>2
<1>7. stored' \in [is : R!Receipt \cup {R!None}, noted : BOOLEAN]
  BY <1>1, <1>3 DEF R!NewReceipt, ReceiptInv, ReceiptTypes, R!TypeOK
<1>8. ReceiptTypes'
  <2>1. \A v \in Builders : builder'[v].saw \in [run : 0 .. Len(Story), acts : 0 .. Len(Story)]
    BY <1>4 DEF Builds, Seen
  <2>2. R!TypeOK'
    BY <1>1, <1>3, <1>4, <1>6, <1>7, <2>1 DEF ReceiptInv, ReceiptTypes, R!TypeOK, Rows
  <2> QED BY <1>1, <1>4, <2>2 DEF ReceiptInv, ReceiptTypes, R!Given
<1>9. R!NotesGoForward' /\ R!OneNotePerReceipt' /\ R!MailTellsTheEnd' /\ \A r : R!NotesOf(r)' = R!NotesOf(r)
  BY <1>1 DEF ReceiptInv, R!NotesGoForward, R!OneNotePerReceipt, R!NotesOf, R!MailTellsTheEnd
<1>10. StoredIsSo'
  <2>1. CASE new
    <3>1. stored'.is = saw /\ stored'.noted = FALSE
      BY <1>1, <2>1 DEF R!NewReceipt
    <3>2. \A i \in DOMAIN notes : notes[i] \in R!Receipt /\ Before(notes[i], stored.is)
      BY DEF ReceiptInv, ReceiptTypes, R!TypeOK, StoredIsSo
    <3>3. \A i \in DOMAIN notes : Before(notes[i], saw) /\ notes[i] # saw
      <4> SUFFICES ASSUME NEW i \in DOMAIN notes PROVE Before(notes[i], saw) /\ notes[i] # saw
        OBVIOUS
      <4>0. R!Receipt \subseteq [run : Nat, acts : Nat] /\ R!None \in [run : Nat, acts : Nat]
        BY <1>2 DEF R!Receipt, R!None
      <4>1. notes[i] \in [run : Nat, acts : Nat] /\ saw \in [run : Nat, acts : Nat]
            /\ stored.is \in [run : Nat, acts : Nat]
        BY <1>3, <3>2, <4>0 DEF ReceiptInv, ReceiptTypes, R!TypeOK
      <4>2. Before(notes[i], stored.is) /\ Before(stored.is, saw)
        BY <1>3, <3>2
      <4>3. Before(notes[i], saw)
        BY <4>1, <4>2 DEF Before
      <4>4. notes[i] = saw => stored.is = saw
        BY <4>1, <4>2 DEF Before
      <4> QED BY <2>1, <4>3, <4>4
    <3>4. R!NotesOf(saw) = {} /\ Cardinality({}) = 0
      BY <3>3, FS_EmptySet DEF R!NotesOf
    <3>5. Cardinality(R!NotesOf(saw)) <= unnoted
      BY <3>4 DEF ReceiptInv, ReceiptTypes
    <3>6. R!NotesOf(stored.is)' = R!NotesOf(saw)
      BY <1>1, <3>1 DEF R!NotesOf
    <3> QED BY <1>1, <1>3, <3>1, <3>3, <3>5, <3>6 DEF StoredIsSo, Before, Now
  <2>2. CASE ~new
    BY <1>1, <2>2, <1>2, StoredStays
  <2> QED BY <2>1, <2>2
<1> QED BY <1>5, <1>6, <1>8, <1>9, <1>10 DEF ReceiptInv

(* A note more is a note more of its receipt.                              *)
LEMMA OneMore ==
    ASSUME notes \in Seq(R!Receipt), NEW x \in R!Receipt, notes' = Append(notes, x)
    PROVE  /\ notes' \in Seq(R!Receipt)
           /\ \A i \in DOMAIN notes : notes'[i] = notes[i]
           /\ notes'[Len(notes) + 1] = x /\ DOMAIN notes' = DOMAIN notes \cup {Len(notes) + 1}
           /\ \A i \in DOMAIN notes : i \in Nat /\ i < Len(notes) + 1
           /\ Cardinality(R!NotesOf(x))' = Cardinality(R!NotesOf(x)) + 1 /\ Cardinality(R!NotesOf(x)) \in Nat
           /\ \A r : r # x => R!NotesOf(r)' = R!NotesOf(r)
<1>1. /\ notes' \in Seq(R!Receipt) /\ Len(notes) \in Nat /\ Len(notes') = Len(notes) + 1
      /\ DOMAIN notes = 1 .. Len(notes) /\ DOMAIN notes' = 1 .. (Len(notes) + 1)
      /\ \A i \in 1 .. Len(notes) : notes'[i] = notes[i]
      /\ notes'[Len(notes) + 1] = x
  BY AppendProperties
<1>2. DOMAIN notes' = DOMAIN notes \cup {Len(notes) + 1} /\ \A i \in DOMAIN notes : i \in Nat /\ i < Len(notes) + 1
  BY <1>1
<1>3. R!NotesOf(x)' = R!NotesOf(x) \cup {Len(notes) + 1} /\ Len(notes) + 1 \notin R!NotesOf(x)
  BY <1>1, <1>2 DEF R!NotesOf
<1>4. \A r : r # x => R!NotesOf(r)' = R!NotesOf(r)
  BY <1>1, <1>2 DEF R!NotesOf
<1>5. IsFiniteSet(1 .. Len(notes))
  <2>1. Len(notes) \in Nat
    BY <1>1
  <2> QED BY <2>1, FS_Interval
<1>6. IsFiniteSet(R!NotesOf(x))
  <2>1. R!NotesOf(x) \subseteq 1 .. Len(notes)
    BY <1>1 DEF R!NotesOf
  <2> QED BY <1>5, <2>1, FS_Subset
<1>7. Cardinality(R!NotesOf(x) \cup {Len(notes) + 1}) = Cardinality(R!NotesOf(x)) + 1
  BY <1>3, <1>6, FS_AddElement
<1>8. Cardinality(R!NotesOf(x)) \in Nat
  BY <1>6, FS_CardinalityType
<1>9. Cardinality(R!NotesOf(x))' = Cardinality(R!NotesOf(x)')
  OBVIOUS
<1> QED BY <1>1, <1>2, <1>3, <1>4, <1>7, <1>8, <1>9

(* The counts allow for the note, on record or lost.                       *)
LEMMA NoteKept ==
    ASSUME ReceiptInv, NEW w \in Builders, R!At(w, "post"), notes' = Append(notes, builder[w].saw),
           R!runVars' = R!runVars, stored'.is = stored.is, unnoted' \in Nat, unnoted' >= unnoted,
           stored'.noted \/ unnoted' = unnoted + 1
    PROVE  /\ notes' \in Seq(R!Receipt) /\ StoredIsSo' /\ R!NotesGoForward' /\ R!OneNotePerReceipt'
<1>1. /\ HasSeen(w, builder[w]) /\ run \in Nat /\ acts \in Nat /\ run' = run /\ acts' = acts /\ unnoted \in Nat
      /\ notes \in Seq(R!Receipt)
  BY DEF ReceiptInv, ReceiptTypes, R!Given, R!TypeOK, R!runVars
<1>2. builder[w].saw \in R!Receipt /\ stored.is = builder[w].saw /\ ~stored.noted
  BY <1>1 DEF HasSeen, R!At, R!Idle
<1>3. PICK x \in R!Receipt : x = builder[w].saw
  BY <1>2
<1>4. notes' = Append(notes, x) /\ stored.is = x /\ stored'.is = x
  BY <1>2, <1>3
<1>5. /\ notes' \in Seq(R!Receipt)
      /\ \A i \in DOMAIN notes : notes'[i] = notes[i]
      /\ notes'[Len(notes) + 1] = x /\ DOMAIN notes' = DOMAIN notes \cup {Len(notes) + 1}
      /\ \A i \in DOMAIN notes : i \in Nat /\ i < Len(notes) + 1
      /\ Cardinality(R!NotesOf(x))' = Cardinality(R!NotesOf(x)) + 1 /\ Cardinality(R!NotesOf(x)) \in Nat
      /\ \A r : r # x => R!NotesOf(r)' = R!NotesOf(r)
  BY <1>1, <1>4, OneMore
<1>6. \A i \in DOMAIN notes : Before(notes[i], x)
  BY <1>4 DEF ReceiptInv, StoredIsSo
<1>7. x \in [run : Nat, acts : Nat] /\ Before(x, x) /\ Len(notes) \in Nat
  BY <1>1 DEF R!Receipt, Before
<1>8. R!NotesGoForward'
  <2> SUFFICES ASSUME NEW i \in DOMAIN notes', NEW j \in DOMAIN notes', i < j
               PROVE notes'[i].run <= notes'[j].run /\ notes'[i].acts <= notes'[j].acts
    BY DEF R!NotesGoForward
  <2>1. i \in DOMAIN notes
    BY <1>5, <1>7
  <2>2. CASE j \in DOMAIN notes
    BY <1>5, <2>1, <2>2 DEF ReceiptInv, R!NotesGoForward
  <2>3. CASE j = Len(notes) + 1
    BY <1>5, <1>6, <2>1, <2>3 DEF Before
  <2> QED BY <1>5, <2>2, <2>3
<1>9. Cardinality(R!NotesOf(x)) <= unnoted
  BY <1>2, <1>4 DEF ReceiptInv, StoredIsSo
<1>10. Cardinality(R!NotesOf(x))' <= unnoted + 1
  BY <1>1, <1>5, <1>9
<1>11. R!OneNotePerReceipt'
  <2> SUFFICES ASSUME NEW r \in R!Receipt PROVE Cardinality(R!NotesOf(r)') <= 1 + unnoted'
    BY ReceiptCounts DEF R!OneNotePerReceipt
  <2>1. CASE r = x
    <3>1. Cardinality(R!NotesOf(r)') <= unnoted + 1
      BY <1>10, <2>1
    <3>2. Cardinality(R!NotesOf(r)') \in Nat
      BY <1>5, <2>1
    <3> QED BY <1>1, <3>1, <3>2
  <2>2. CASE r # x
    <3>1. Cardinality(R!NotesOf(r)) <= 1 + unnoted /\ R!NotesOf(r)' = R!NotesOf(r)
      BY <1>5, <2>2, ReceiptCounts DEF ReceiptInv, R!OneNotePerReceipt
    <3>2. R!NotesOf(r) \subseteq 1 .. Len(notes)
      BY <1>1 DEF R!NotesOf
    <3>3. IsFiniteSet(1 .. Len(notes))
      BY <1>7, FS_Interval
    <3>4. IsFiniteSet(R!NotesOf(r))
      BY <3>2, <3>3, FS_Subset
    <3>5. Cardinality(R!NotesOf(r)) \in Nat
      BY <3>4, FS_CardinalityType
    <3>6. Cardinality(R!NotesOf(r)') <= 1 + unnoted
      BY <3>1
    <3>7. Cardinality(R!NotesOf(r)') \in Nat
      BY <3>1, <3>5
    <3> QED BY <1>1, <3>6, <3>7
  <2> QED BY <2>1, <2>2
<1>12. \A i \in DOMAIN notes' : Before(notes'[i], x)
  BY <1>5, <1>6, <1>7 DEF Before
<1>13. ~stored'.noted => Cardinality(R!NotesOf(x)') <= unnoted'
  BY <1>10
<1>14. StoredIsSo'
  <2>1. stored.is.run <= stored.is.acts /\ Before(stored.is, Now)
    BY DEF ReceiptInv, StoredIsSo
  <2>2. R!NotesOf(stored.is)' = R!NotesOf(x)'
    BY <1>4 DEF R!NotesOf
  <2> QED BY <1>1, <1>4, <1>12, <1>13, <2>1, <2>2 DEF StoredIsSo, Before, Now
<1> QED BY <1>5, <1>8, <1>11, <1>14

(* The note is posted, refused or lost.                                    *)
LEMMA PostNoteKept == ASSUME ReceiptInv, NEW w \in Builders, R!PostNote(w) PROVE ReceiptInv'
<1>1. R!At(w, "post") /\ UNCHANGED <<R!runVars, indexed, receiptMails>> /\ run' = run /\ acts' = acts
  BY DEF R!PostNote, R!runVars
<1>2. /\ builder[w] # R!Idle /\ HasSeen(w, builder[w]) /\ cuts \in 0 .. MaxFaults /\ cuts >= cuts
  BY <1>1, Busy DEF R!At
<1>3. lock = w /\ unnoted \in Nat /\ unnoted <= cuts /\ MaxFaults \in Nat
  BY <1>1, <1>2 DEF HasSeen, R!At, R!Idle, ReceiptInv, ReceiptTypes, R!Given, R!TypeOK
<1>4. ASSUME notes' \in Seq(R!Receipt), StoredIsSo', R!NotesGoForward', R!OneNotePerReceipt',
             stored' \in [is : R!Receipt \cup {R!None}, noted : BOOLEAN],
             builds' \in Rows, RowsFit', builder' \in [Builders -> Builds], lock' \in Builders \cup {"free"},
             \A v \in Builders \ {w} : builder'[v] = builder[v], HasSeen(w, builder[w])',
             cuts' \in 0 .. MaxFaults, unnoted' \in Nat, unnoted' <= cuts'
      PROVE  ReceiptInv'
  <2>1. \A v \in Builders : HasSeen(v, builder[v])'
    <3>1. \A v \in Builders \ {w} : HasSeen(v, builder[v])'
      BY <1>1, <1>3, <1>4, OthersWait
    <3> QED BY <1>4, <3>1
  <2>2. \A v \in Builders : builder'[v].saw \in [run : 0 .. Len(Story), acts : 0 .. Len(Story)]
    BY <1>4 DEF Builds, Seen
  <2>3. R!TypeOK'
    BY <1>1, <1>4, <2>2 DEF ReceiptInv, ReceiptTypes, R!TypeOK, Rows
  <2>4. ReceiptTypes'
    BY <1>1, <1>4, <2>3 DEF ReceiptInv, ReceiptTypes, R!Given
  <2>5. R!MailTellsTheEnd'
    BY <1>1 DEF ReceiptInv, R!MailTellsTheEnd
  <2> QED BY <1>4, <2>1, <2>4, <2>5 DEF ReceiptInv
<1>5. stored \in [is : R!Receipt \cup {R!None}, noted : BOOLEAN]
  BY DEF ReceiptInv, ReceiptTypes, R!TypeOK
<1>6. CASE notes' = Append(notes, builder[w].saw) /\ stored' = [stored EXCEPT !.noted = TRUE]
           /\ R!Through(w) /\ UNCHANGED <<builds, cuts, unnoted>>
  <2>1. stored'.is = stored.is /\ stored'.noted /\ stored' \in [is : R!Receipt \cup {R!None}, noted : BOOLEAN]
    BY <1>5, <1>6
  <2>2. notes' \in Seq(R!Receipt) /\ StoredIsSo' /\ R!NotesGoForward' /\ R!OneNotePerReceipt'
    BY <1>1, <1>3, <1>6, <2>1, NoteKept
  <2>3. /\ builder' \in [Builders -> Builds] /\ HasSeen(w, builder[w])' /\ lock' \in Builders \cup {"free"}
        /\ \A v \in Builders \ {w} : builder'[v] = builder[v]
    BY <1>1, <1>6, Committed DEF R!At
  <2>4. builds' \in Rows /\ RowsFit'
    BY <1>1, <1>6 DEF ReceiptInv, ReceiptTypes, R!TypeOK, Rows, RowsFit
  <2> QED BY <1>2, <1>3, <1>4, <1>6, <2>1, <2>2, <2>3, <2>4
<1>7. ASSUME R!Again(w)
      PROVE  /\ cuts' \in 0 .. MaxFaults /\ cuts' = cuts + 1
             /\ builds' \in Rows /\ RowsFit' /\ builder' \in [Builders -> Builds] /\ lock' \in Builders \cup {"free"}
             /\ \A v \in Builders \ {w} : builder'[v] = builder[v] /\ (lock = v => lock' = v)
             /\ HasSeen(w, builder[w])'
  BY <1>1, <1>2, <1>7, PutBack DEF HasSeen
<1>8. CASE R!Again(w) /\ UNCHANGED <<notes, stored, unnoted>>
  <2>1. cuts' >= cuts
    BY <1>2, <1>7, <1>8
  <2> QED BY <1>1, <1>7, <1>8, <2>1, StepKept
<1>9. CASE R!Again(w) /\ notes' = Append(notes, builder[w].saw) /\ unnoted' = unnoted + 1 /\ UNCHANGED stored
  <2>1. unnoted' \in Nat /\ unnoted' >= unnoted /\ unnoted' <= cuts'
    BY <1>2, <1>3, <1>7, <1>9
  <2>2. notes' \in Seq(R!Receipt) /\ StoredIsSo' /\ R!NotesGoForward' /\ R!OneNotePerReceipt'
    BY <1>1, <1>9, <2>1, NoteKept
  <2> QED BY <1>4, <1>5, <1>7, <1>9, <2>1, <2>2
<1> QED BY <1>6, <1>8, <1>9 DEF R!PostNote

(* Nothing happens.                                                        *)
LEMMA ReceiptStutter == ASSUME ReceiptInv, UNCHANGED R!vars PROVE ReceiptInv'
<1>1. run' = run /\ acts' = acts /\ run \in 0 .. Len(Story) /\ acts \in 0 .. Len(Story) /\ builds' = builds
      /\ run <= acts /\ acts <= run + 1 /\ run >= run /\ acts >= acts
  BY DEF R!vars, ReceiptInv, ReceiptTypes, R!Given, R!TypeOK
<1>2. builds' \in Rows /\ RowsFit'
  BY <1>1 DEF ReceiptInv, ReceiptTypes, R!TypeOK, Rows, RowsFit
<1> QED BY <1>1, <1>2, RunStepKept DEF R!vars

(* Every step keeps what is known.                                         *)
LEMMA ReceiptKept == ReceiptInv /\ [R!Next]_(R!vars) => ReceiptInv'
<1> SUFFICES ASSUME ReceiptInv, [R!Next]_(R!vars) PROVE ReceiptInv'
  OBVIOUS
<1>1. CASE R!Act \/ R!Finalize \/ R!AskForMail
  BY <1>1, ActKept, FinalizeKept, AskForMailKept
<1>2. ASSUME NEW w \in Builders, R!WorkerStep(w) PROVE ReceiptInv'
  BY <1>2, ClaimKept, ReadRunKept, ReadActionsKept, StoreReceiptKept, ReadReceiptKept, PostNoteKept,
     MailReceiptKept, ReportKept DEF R!WorkerStep
<1>3. ASSUME NEW w \in Builders, R!Crash(w) PROVE ReceiptInv'
  BY <1>3, BuilderCrashKept
<1>4. CASE UNCHANGED R!vars
  BY <1>4, ReceiptStutter
<1> QED BY <1>1, <1>2, <1>3, <1>4 DEF R!Next

(* Whatever is built, noted or mailed tells a state the run was in.        *)
LEMMA ReceiptsHold == R!Given => (R!Spec => [](R!TypeOK /\ R!ReceiptsAreTrue))
<1>1. ReceiptInv => R!TypeOK /\ R!ReceiptsAreTrue
  <2> SUFFICES ASSUME ReceiptInv PROVE R!TypeOK /\ R!ReceiptsAreTrue
    OBVIOUS
  <2>1. R!FinalReceiptIsWhole
    <3>1. stored.is.run <= stored.is.acts /\ Before(stored.is, Now) /\ acts \in 0 .. Len(Story) /\ Len(Story) \in Nat
          /\ stored.is.run \in Nat /\ stored.is.acts \in Nat
      BY DEF ReceiptInv, StoredIsSo, ReceiptTypes, R!Given, R!TypeOK, R!Receipt, R!None
    <3> QED BY <3>1 DEF R!FinalReceiptIsWhole, Before, Now
  <2> QED BY <2>1 DEF ReceiptInv, ReceiptTypes, R!ReceiptsAreTrue
<1> QED BY <1>1, ReceiptsStart, ReceiptKept, PTL DEF R!Spec

(* However builds and notes are cut off and repeated, a receipt of the end *)
(* of a run tells what became of every action, notes never go back, a      *)
(* receipt has one note but for those never recorded, and the mail tells   *)
(* the end (receipts.py, rail/finalize.py, surfaces/email.py).             *)
THEOREM ReceiptsTell == R!Given => (MessagesSpec => []ReceiptsAreTrue)
<1>1. R!Given => (R!Spec => [](R!TypeOK /\ R!ReceiptsAreTrue))
  BY ReceiptsHold
<1> QED BY <1>1, EachKeepsToItself, PTL DEF ReceiptsAreTrue

(* The queue, the approver's messages and the receipts keep their types;   *)
(* a job's attempts, and what is lost to faults, are bounded.              *)
THEOREM MessagesAreTyped == A!Given /\ R!Given => (MessagesSpec => []TypesOK)
<1>1. IInv => TypeOK
  BY DEF IInv
<1>2. Spec => []TypeOK
  BY <1>1, Invariant, PTL
<1>3. A!Given => (A!Spec => [](A!TypeOK /\ A!AskingIsSound))
  BY ApprovalsHold
<1>4. R!Given => (R!Spec => [](R!TypeOK /\ R!ReceiptsAreTrue))
  BY ReceiptsHold
<1> QED BY <1>2, <1>3, <1>4, EachKeepsToItself, PTL DEF TypesOK
=============================================================================
