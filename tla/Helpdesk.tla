------------------------------ MODULE Helpdesk ------------------------------
(***************************************************************************)
(* One use of the helpdesk, with its repetitions (connectors/freshservice, *)
(* freshservice_ticket): a ticket is placed, the tasks of an onboarding    *)
(* are ensured, a note, an approval, a receipt record or the assignment of *)
(* an asset is written once, or a ticket is read to be made a request.     *)
(*                                                                         *)
(* The tenant, or the fixture that stands in for it, holds things under    *)
(* keys.  A request to the tenant may fail before it is sent, be refused,  *)
(* be acknowledged and yet leave nothing, or be given up while it is still *)
(* under way and land later.                                               *)
(***************************************************************************)
EXTENDS Naturals, Sequences, FiniteSets, SequencesExt

CONSTANTS
    Titles,                \* of the tasks, in order
    MaxTries, MaxFaults    \* bounds

VARIABLES
    live,      \* whether a tenant is configured
    use,       \* what is under way: [kind, at, key, tries, result, ...]
    held,      \* [store -> [key -> how often it is held]]
    flying,    \* keys of given-up requests that may still land
    strays,    \* how many landed, by key
    faults

vars == <<live, use, held, flying, strays, faults>>

Written == {"note", "approval", "record", "asset"}
Kinds == Written \cup {"tasks", "ticket", "read"}
Keys == Written \cup {"ticket"} \cup ToSet(Titles)
Stores == {"tenant", "fixture"}
Modes == {"LIVE", "FIXTURE", "none"}
Places == {"object", "list", "post", "incident", "check", "final", "ticket", "items", "requester", "done"}
Results == {"none", "confirmed", "unconfirmed", "placed", "request", "failed"}

TypeOK ==
    /\ live \in BOOLEAN
    /\ use \in [kind : Kinds, at : Places, key : Keys \cup {"none"}, tries : 1..MaxTries, result : Results,
                mode : Modes, text : {"none", "catalog", "description"}, textMode : Modes, whoMode : Modes]
    /\ DOMAIN held = Stores /\ \A s \in Stores : held[s] \in [Keys -> Nat]
    /\ flying \subseteq Keys /\ strays \in [Keys -> 0..MaxFaults] /\ faults \in 0..MaxFaults

Begins(kind) ==
    CASE kind \in {"ticket", "record"} -> "object" [] kind = "read" -> "ticket" [] OTHER -> "list"

(* What may be given: a ticket is no task, and something is tried at all.  *)
Given ==
    /\ Titles \in Seq(ToSet(Titles)) /\ "ticket" \notin ToSet(Titles)
    /\ MaxTries \in Nat \ {0} /\ MaxFaults \in Nat

Init ==
    /\ live \in BOOLEAN
    /\ \E kind \in Kinds :
          use = [kind |-> kind, at |-> Begins(kind), key |-> "none", tries |-> 1, result |-> "none",
                 mode |-> "none", text |-> "none", textMode |-> "none", whoMode |-> "none"]
    /\ held = [s \in Stores |-> [k \in Keys |-> 0]]
    /\ flying = {} /\ strays = [k \in Keys |-> 0] /\ faults = 0

-----------------------------------------------------------------------------
Store == IF live THEN "tenant" ELSE "fixture"
Mode == IF live THEN "LIVE" ELSE "FIXTURE"
Fault == live /\ faults < MaxFaults /\ faults' = faults + 1

(* The fixture refuses what it does not know; it does so at any time.      *)
Refused == Fault \/ (~live /\ UNCHANGED faults)
Wanted == IF use.kind = "tasks" THEN Titles ELSE <<use.kind>>
Missing == {i \in 1..Len(Wanted) : held[Store][Wanted[i]] = 0}
NextMissing == Wanted[CHOOSE i \in Missing : \A j \in Missing : i <= j]

Quiet == UNCHANGED <<live, held, flying, strays>>
Goes(place) == use' = [use EXCEPT !.at = place]
Returns(result) == use' = [use EXCEPT !.at = "done", !.result = result, !.mode = Mode]

(* A mutant: what failed is written again without a look.                  *)
Blindly(kind) == IF kind \in Written THEN "post" ELSE Begins(kind)

(* What failed starts over by reading.                                     *)
Again(kind) == Begins(kind)

(* Jobs are retried; a ticket is placed once and its tasks are ensured     *)
(* once, whatever comes of it.                                             *)
Fails ==
    IF use.kind \in Written \cup {"read"} /\ use.tries < MaxTries
    THEN use' = [use EXCEPT !.at = Again(use.kind), !.tries = @ + 1,
                            !.mode = "none", !.text = "none", !.textMode = "none"]
    ELSE use' = [use EXCEPT !.at = "done", !.result = "failed"]

ReadFails == Refused /\ Fails /\ Quiet

(* A ticket and a record go to an object an administrator has made: there  *)
(* must be exactly one.                                                    *)
FindObject ==
    /\ use.at = "object" /\ Quiet
    /\ \/ Refused /\ Fails
       \/ Fails /\ UNCHANGED faults
       \/ Goes(IF use.kind = "ticket" THEN "post" ELSE "list") /\ UNCHANGED faults

(* What is there already is not written.  The tasks are the tenant's only. *)
List ==
    /\ use.at = "list" /\ (use.kind = "tasks" => live)
    /\ \/ ReadFails
       \/ Missing = {} /\ Returns("confirmed") /\ UNCHANGED faults /\ Quiet
       \/ /\ Missing # {} /\ use' = [use EXCEPT !.at = "post", !.key = NextMissing]
          /\ UNCHANGED faults /\ Quiet

NoTenant ==
    /\ use.at = "list" /\ use.kind = "tasks" /\ ~live
    /\ Fails /\ Quiet /\ UNCHANGED faults

Key == IF use.kind = "tasks" THEN use.key ELSE use.kind
Holds(times) == held' = [held EXCEPT ![Store][Key] = @ + times]

(* A ticket and an approval are taken at their word, the rest is read back.*)
Acknowledged ==
    CASE use.kind = "ticket"   -> Returns("placed")
      [] use.kind = "approval" -> Returns("unconfirmed")
      [] OTHER                 -> Goes("check")

(* An uncertain task is looked for; anything else has failed, and is       *)
(* looked for when it is tried again, except a ticket.                     *)
Uncertain == IF use.kind = "tasks" THEN Goes("check") ELSE Fails

(* The tenant forbids the catalog: a plain incident is posted instead.     *)
Forbidden ==
    /\ use.kind = "ticket" /\ use.at \in {"object", "post"}
    /\ Fault /\ Goes("incident") /\ Quiet

Post ==
    /\ use.at \in {"post", "incident"} /\ UNCHANGED live
    /\ \/ Holds(1) /\ Acknowledged /\ UNCHANGED <<flying, strays, faults>>
       \/ Fault /\ Acknowledged /\ UNCHANGED <<held, flying, strays>>
       \/ Refused /\ Fails /\ UNCHANGED <<held, flying, strays>>
       \/ \E landed \in {0, 1} : Fault /\ Holds(landed) /\ Uncertain /\ UNCHANGED <<flying, strays>>
       \/ Fault /\ Uncertain /\ flying' = flying \cup {Key} /\ UNCHANGED <<held, strays>>

Land ==
    \E k \in flying :
       /\ flying' = flying \ {k} /\ strays' = [strays EXCEPT ![k] = @ + 1]
       /\ held' = [held EXCEPT !["tenant"][k] = @ + 1]
       /\ UNCHANGED <<live, use, faults>>

Seen == held[Store][Key] > 0

(* What was written is read back; a task not seen is uncertain.            *)
Check ==
    /\ use.at = "check"
    /\ \/ ReadFails
       \/ /\ use.kind # "tasks" /\ Returns(IF Seen THEN "confirmed" ELSE "unconfirmed")
          /\ UNCHANGED faults /\ Quiet
       \/ /\ use.kind = "tasks" /\ ~Seen /\ Fails /\ UNCHANGED faults /\ Quiet
       \/ /\ use.kind = "tasks" /\ Seen /\ UNCHANGED faults /\ Quiet
          /\ use' = IF Missing = {} THEN [use EXCEPT !.at = "final"]
                                      ELSE [use EXCEPT !.at = "post", !.key = NextMissing]

Final ==
    /\ use.at = "final"
    /\ \/ ReadFails
       \/ (IF Missing = {} THEN Returns("confirmed") ELSE Fails) /\ UNCHANGED faults /\ Quiet

-----------------------------------------------------------------------------
(* A ticket is read to be made a request.  Where a read of the tenant      *)
(* fails the fixture, which says that it answers, may know the record.     *)
ReadFrom(mode) ==
    \/ mode = Mode /\ UNCHANGED faults
    \/ mode = "FIXTURE" /\ Fault
    \/ mode = "none" /\ Refused

OfTheTenant(mode) == live => mode = "LIVE"

ReadTicket ==
    /\ use.at = "ticket" /\ Quiet
    /\ \E mode \in Modes :
          /\ ReadFrom(mode)
          /\ IF mode # "none" /\ OfTheTenant(mode) THEN use' = [use EXCEPT !.at = "items", !.mode = mode] ELSE Fails

(* The text of the catalog form comes first, then the description; a form  *)
(* with two texts, or a ticket without any, is an error.                   *)
ReadItems ==
    /\ use.at = "items" /\ Quiet
    /\ \E mode \in Modes, texts \in {0, 1, 2}, described \in BOOLEAN :
          /\ ReadFrom(mode)
          /\ LET found == IF mode = use.mode THEN texts ELSE 0 IN
             \/ found = 1 /\ use' = [use EXCEPT !.at = "requester", !.text = "catalog", !.textMode = mode]
             \/ /\ found = 0 /\ described
                /\ use' = [use EXCEPT !.at = "requester", !.text = "description", !.textMode = use.mode]
             \/ (found = 2 \/ (found = 0 /\ ~described)) /\ Fails

(* Without a requester the request is nobody's; the address comes from the *)
(* system the ticket came from.                                            *)
ReadRequester ==
    /\ use.at = "requester" /\ Quiet
    /\ \/ use' = [use EXCEPT !.at = "done", !.result = "request"] /\ UNCHANGED faults
       \/ \E mode \in Modes :
             /\ ReadFrom(mode)
             /\ IF live /\ mode # "LIVE" THEN Fails
                ELSE use' = [use EXCEPT !.at = "done", !.result = "request",
                                        !.whoMode = IF mode = use.mode THEN mode ELSE "none"]

-----------------------------------------------------------------------------
Next ==
    \/ FindObject \/ List \/ NoTenant \/ Forbidden \/ Post \/ Land \/ Check \/ Final
    \/ ReadTicket \/ ReadItems \/ ReadRequester

Spec == Init /\ [][Next]_vars

-----------------------------------------------------------------------------
(* What is reported as confirmed is there, though the tenant may           *)
(* acknowledge a write and lose it.                                        *)
ConfirmedIsHeld ==
    use.result = "confirmed" => \A k \in ToSet(Wanted) : held[Store][k] > 0

(* The fixture never stands in for a tenant that is configured.            *)
NoStandIn ==
    live => \A k \in Keys : held["fixture"][k] = 0

(* Nothing is written twice by retrying, but for requests that land after  *)
(* they were given up; a ticket is not placed twice even then.             *)
WrittenOnce ==
    \A k \in Keys :
        /\ held[Store][k] <= 1 + strays[k]
        /\ held[Store]["ticket"] <= 1

(* A request is made of one system's records only: its text and its        *)
(* requester are the tenant's where a tenant is configured.                *)
Unmixed ==
    use.result = "request" =>
        /\ use.textMode = Mode /\ use.mode = Mode
        /\ use.whoMode \in {Mode, "none"}

(* Together: what the helpdesk is said to hold it holds, once, and itself. *)
HelpdeskIsSound == ConfirmedIsHeld /\ NoStandIn /\ WrittenOnce /\ Unmixed
=============================================================================
