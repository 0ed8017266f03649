------------------------------- MODULE Streams ------------------------------
(***************************************************************************)
(* The stage events of one run (rail/events.py), the stream of them that   *)
(* a browser follows (surfaces/sse.py), and the status message in Slack    *)
(* that is edited for them (surfaces/slack_app.py).                        *)
(*                                                                         *)
(* Each process has an event bus of its own and numbers the events of the  *)
(* passes it runs; the run's status is shared.  A pass reads the status    *)
(* and sets the run running without a lock on its row, so passes overlap.  *)
(* It commits a status, if it changes, and then emits an event, which      *)
(* waits for the door's callback.                                          *)
(***************************************************************************)
EXTENDS Naturals, Sequences, SequencesExt

CONSTANTS
    Procs,
    Servers,       \* processes that serve streams
    Clients,
    Passes, HostOf,   \* the passes there may be at once, and the process each runs in
    Keep,          \* events a bus keeps of a run
    MaxEvents,     \* bound, by process and life: the events it emits
    MaxRestarts    \* bound

VARIABLES
    run,           \* the run's status, as committed
    bus,           \* by process: its life, the next number, the events kept
    task,          \* by pass: where it is, and the status it emits
    revived,       \* that a run that was over was set running
    client,        \* by client: its connection, and the queue subscribed for it
    got, ended,    \* what it received; that it was told the end
    missed,        \* that an event was skipped as received before that was not
    message,       \* what the Slack message shows, while its updates arrive in order
    restarts

vars == <<run, bus, task, revived, client, got, ended, missed, message, restarts>>
clientVars == <<client, got, ended, missed>>

Terminal == {"done"}     \* partial and failed are treated alike
Statuses == {"running", "awaiting", "done"}
None == "none"
NoPass == [at |-> "idle", emit |-> None]
Off == [at |-> "off", server |-> None, queue |-> <<>>, backlog |-> 0, over |-> FALSE, after |-> 0]
Event == [proc : Procs, life : 0..MaxRestarts, seq : Nat, over : BOOLEAN]

TypeOK ==
    /\ run \in Statuses /\ revived \in BOOLEAN
    /\ \A p \in Procs : /\ bus[p].seq \in Nat
                        /\ bus[p].kept \in Seq(Event) /\ Len(bus[p].kept) <= Keep
    /\ \A t \in Passes : task[t].at \in {"idle", "set", "work", "emit", "call"}
    /\ \A c \in Clients : /\ client[c].at \in {"off", "load", "loop"}
                          /\ client[c].queue \in Seq(Event) /\ client[c].backlog <= Keep
                          /\ got[c] \in Seq(Event)
    /\ message \in Statuses \cup {"unknown"} /\ missed \in [Clients -> BOOLEAN]
    /\ restarts \in 0..MaxRestarts

(* What may be given: one process serves the streams.                      *)
Given ==
    /\ Servers \subseteq Procs /\ (\A p, q \in Servers : p = q) /\ None \notin Procs
    /\ HostOf \in [Passes -> Procs] /\ Keep \in Nat /\ MaxRestarts \in Nat
    /\ MaxEvents \in [Procs -> [0..MaxRestarts -> Nat]]

(* A run is created running, and the message says that it is starting.     *)
Init ==
    /\ run = "running" /\ message = "running"
    /\ bus = [p \in Procs |-> [life |-> 0, seq |-> 0, kept |-> <<>>]]
    /\ task = [t \in Passes |-> NoPass] /\ revived = FALSE
    /\ client = [c \in Clients |-> Off] /\ got = [c \in Clients |-> <<>>]
    /\ ended = [c \in Clients |-> FALSE] /\ missed = [c \in Clients |-> FALSE]
    /\ restarts = 0

-----------------------------------------------------------------------------
(* A pass of the run                                                       *)

Active(t) == task[t].at \in {"work", "emit", "call"}

Goes(t, place) == task' = [task EXCEPT ![t] = [NoPass EXCEPT !.at = place]]

(* The updates of passes that overlap may overtake each other.             *)
Works(t) ==
    /\ Goes(t, "work")
    /\ message' = IF \E u \in Passes : Active(u) THEN "unknown" ELSE message

(* A running run is passed over, from its start or anew; one that waits is *)
(* resumed, or run again after an answer.  The status is read twice, and   *)
(* the second reading counts.                                              *)
Open(t) ==
    /\ task[t] = NoPass
    /\ \/ run = "running" /\ Works(t)
       \/ run = "awaiting" /\ Goes(t, "set") /\ UNCHANGED message
    /\ UNCHANGED <<run, bus, revived, clientVars, restarts>>

(* It is set running whatever it became since.                             *)
SetRunning(t) ==
    /\ task[t].at = "set" /\ Works(t)
    /\ run' = "running" /\ revived' = (revived \/ run \in Terminal)
    /\ UNCHANGED <<bus, clientVars, restarts>>

(* A mutant: a status is written unchecked, a pause over an end.           *)
Anything(status) == run' = IF status = "running" THEN run ELSE status

(* A stage leaves the status alone.  A pause or an end is checked and      *)
(* written under the lock on the row, and fails after an end if it is      *)
(* none.                                                                   *)
Commit(status) ==
    \/ status = "running" /\ UNCHANGED run
    \/ status = "awaiting" /\ run \notin Terminal /\ run' = status
    \/ status \in Terminal /\ run' = status

MayEmit(p) == bus[p].seq < MaxEvents[p][bus[p].life]

Stage(t) ==
    /\ task[t].at = "work" /\ MayEmit(HostOf[t])
    /\ \E status \in Statuses :
          Commit(status) /\ task' = [task EXCEPT ![t] = [at |-> "emit", emit |-> status]]
    /\ UNCHANGED <<bus, revived, clientVars, message, restarts>>

(* The pass fails, by a status it may not write or otherwise.              *)
Abort(t) ==
    /\ task[t].at \in {"set", "work"} /\ Goes(t, "idle")
    /\ message' = IF Active(t) THEN "unknown" ELSE message
    /\ UNCHANGED <<run, bus, revived, clientVars, restarts>>

(* A mutant: the bus forgets nothing.                                      *)
AllKept(events) == events

LastOf(events, n) == SubSeq(events, Len(events) - n + 1, Len(events))
Kept(events) == IF Len(events) > Keep THEN LastOf(events, Keep) ELSE events

(* The event is numbered, kept and queued, and the door is called.         *)
Emit(t) ==
    LET p     == HostOf[t]
        event == [proc |-> p, life |-> bus[p].life, seq |-> bus[p].seq + 1, over |-> task[t].emit \in Terminal]
    IN  /\ task[t].at = "emit"
        /\ bus' = [bus EXCEPT ![p].seq = @ + 1, ![p].kept = Kept(Append(@, event))]
        /\ client' = [c \in Clients |-> IF client[c].server = p
                                        THEN [client[c] EXCEPT !.queue = Append(@, event)] ELSE client[c]]
        /\ task' = [task EXCEPT ![t].at = "call"]
        /\ UNCHANGED <<run, revived, got, ended, missed, message, restarts>>

After(t) == IF task[t].emit = "running" THEN [NoPass EXCEPT !.at = "work"] ELSE NoPass

(* A stage is shown as it was emitted, a pause or end as the run is now.   *)
View(t) == IF task[t].emit = "running" THEN "running" ELSE run

Update(t) ==
    /\ task[t].at = "call"
    /\ message' = IF message = "unknown" THEN message ELSE View(t)
    /\ task' = [task EXCEPT ![t] = After(t)]
    /\ UNCHANGED <<run, bus, revived, clientVars, restarts>>

(* The door is slow: its update is given up, and arrives later or never.   *)
GiveUp(t) ==
    /\ task[t].at = "call"
    /\ message' = "unknown" /\ task' = [task EXCEPT ![t] = After(t)]
    /\ UNCHANGED <<run, bus, revived, clientVars, restarts>>

(* The process starts anew: its passes are gone, it knows no events, and   *)
(* numbers them from the first again.  One that serves no streams has a    *)
(* bus that nobody follows, and its death is the failure of its passes.    *)
Restart(p) ==
    /\ restarts < MaxRestarts /\ restarts' = restarts + 1
    /\ bus' = [bus EXCEPT ![p] = [life |-> @.life + 1, seq |-> 0, kept |-> <<>>]]
    /\ task' = [t \in Passes |-> IF HostOf[t] = p THEN NoPass ELSE task[t]]
    /\ client' = [c \in Clients |-> IF client[c].server = p THEN Off ELSE client[c]]
    /\ message' = IF \E t \in Passes : HostOf[t] = p /\ Active(t) THEN "unknown" ELSE message
    /\ UNCHANGED <<run, revived, got, ended, missed>>

-----------------------------------------------------------------------------
(* A client's stream                                                       *)

LastEventId(c) == IF got[c] = <<>> THEN 0 ELSE Last(got[c]).seq

Connect(c, p) ==
    /\ client[c] = Off /\ ~ended[c]
    /\ client' = [client EXCEPT ![c] = [at |-> "load", server |-> p, queue |-> bus[p].kept,
                                        backlog |-> Len(bus[p].kept), over |-> FALSE,
                                        after |-> LastEventId(c)]]
    /\ UNCHANGED <<run, bus, task, revived, got, ended, missed, message, restarts>>

Drop(c) ==
    /\ client[c] # Off /\ client' = [client EXCEPT ![c] = Off]
    /\ UNCHANGED <<run, bus, task, revived, got, ended, missed, message, restarts>>

LoadStatus(c) ==
    /\ client[c].at = "load"
    /\ client' = [client EXCEPT ![c].at = "loop", ![c].over = (run \in Terminal)]
    /\ UNCHANGED <<run, bus, task, revived, got, ended, missed, message, restarts>>

Finished(c) == client[c].backlog = 0 /\ client[c].over

EndStream(c) ==
    /\ client[c].at = "loop" /\ Finished(c)
    /\ ended' = [ended EXCEPT ![c] = TRUE] /\ client' = [client EXCEPT ![c] = Off]
    /\ UNCHANGED <<run, bus, task, revived, got, missed, message, restarts>>

Fresh(c, event) == event.seq > client[c].after

(* The next event is passed on unless the client said that it has it.      *)
Take(c) ==
    /\ client[c].at = "loop" /\ ~Finished(c) /\ client[c].queue # <<>>
    /\ LET event == Head(client[c].queue)
       IN  /\ IF Fresh(c, event)
              THEN got' = [got EXCEPT ![c] = Append(@, event)] /\ UNCHANGED missed
              ELSE /\ missed' = [missed EXCEPT ![c] = @ \/ event \notin ToSet(got[c])]
                   /\ UNCHANGED got
           /\ ended' = IF event.over THEN [ended EXCEPT ![c] = TRUE] ELSE ended
           /\ client' = [client EXCEPT ![c] = IF event.over THEN Off
                             ELSE [client[c] EXCEPT !.queue = Tail(@),
                                                    !.backlog = IF @ = 0 THEN 0 ELSE @ - 1]]
    /\ UNCHANGED <<run, bus, task, revived, message, restarts>>

(* Nothing came for a while: the status is read again.                     *)
Heartbeat(c) ==
    /\ client[c].at = "loop" /\ ~Finished(c) /\ client[c].queue = <<>>
    /\ client' = [client EXCEPT ![c].at = "load"]
    /\ UNCHANGED <<run, bus, task, revived, got, ended, missed, message, restarts>>

-----------------------------------------------------------------------------
StreamStep(c) == LoadStatus(c) \/ EndStream(c) \/ Take(c) \/ Heartbeat(c)
PassStep(t) ==
    \/ Open(t) \/ SetRunning(t) \/ Stage(t) \/ Abort(t)
    \/ Emit(t) \/ Update(t) \/ GiveUp(t)

Next ==
    \/ \E t \in Passes : PassStep(t)
    \/ \E p \in Servers : Restart(p)
    \/ \E c \in Clients : StreamStep(c) \/ Drop(c) \/ \E p \in Servers : Connect(c, p)

(* A stream is served until it breaks off; heartbeats come at intervals.   *)
Fairness == \A c \in Clients : WF_vars(StreamStep(c))

Spec == Init /\ [][Next]_vars
FairSpec == Spec /\ Fairness

-----------------------------------------------------------------------------
(* A client gets the events of a process in order and none of them twice,  *)
(* however often it reconnects.                                            *)
InOrderOnce ==
    \A c \in Clients : \A i, j \in DOMAIN got[c] :
        i < j /\ got[c][i].life = got[c][j].life => got[c][i].seq < got[c][j].seq

(* What a client skips as known it has, unless the process was restarted   *)
(* and numbers its events from the first again.                            *)
SkippedWasSeen == \A c \in Clients : missed[c] => restarts > 0

(* A gap is only left by events that the bus no longer kept.               *)
NoGapButForgotten ==
    \A c \in Clients : \A i \in 2..Len(got[c]) :
        LET before == got[c][i - 1]
            event  == got[c][i]
            now    == bus[event.proc]
        IN  event.life = before.life /\ now.life = event.life /\ event.seq > before.seq + 1
                => now.seq >= event.seq + Keep - 1

(* A stream that is told the end belongs to a run that is over, or to one  *)
(* that was set running again by a pass that had read its status before    *)
(* the end.                                                                *)
EndIsTrue == \A c \in Clients : ended[c] => run \in Terminal \/ revived

(* When no pass overlapped or failed and no update was given up, what the  *)
(* message shows in the end is the run's status.                           *)
MessageTellsTheEnd ==
    message # "unknown" /\ (\A t \in Passes : ~Active(t)) => message = run

(* What the followers of a run are shown is true and in order.             *)
FollowersSeeTheRun ==
    InOrderOnce /\ SkippedWasSeen /\ NoGapButForgotten /\ EndIsTrue /\ MessageTellsTheEnd

(* The stream of a run that is over ends, whichever process finished it,   *)
(* unless the run is set running again.                                    *)
StreamEnds ==
    \A c \in Clients : (run \in Terminal /\ client[c] # Off) ~> (client[c] = Off \/ run \notin Terminal)
=============================================================================
