----------------------------- MODULE Authority -----------------------------
(***************************************************************************)
(* What a run promises to everyone outside it, whatever crashes, races and *)
(* repeats happen inside: a target changes only on somebody's authority,   *)
(* an approver is asked once about an action and decides it once, and the  *)
(* customer is billed once.  Module Rail is shown to implement it.         *)
(***************************************************************************)
CONSTANTS
    Ents,       \* the entitlements of the request
    GrantEnts,  \* those it gives; it takes the others away
    Slots,      \* the action ids
    Verdict,    \* policy's verdict on each entitlement
    NoEnt

VARIABLES
    held,       \* the entitlements the subject holds in the targets
    asked,      \* per action id, the entitlement its approver was asked about
    decided,    \* per action id, the decision on record
    billed      \* the outcome the customer was billed for

vars == <<held, asked, decided, billed>>

NotDecided == [ent |-> NoEnt, decision |-> "none"]

Init ==
    /\ held = Ents \ GrantEnts
    /\ asked = [s \in Slots |-> NoEnt]
    /\ decided = [s \in Slots |-> NotDecided]
    /\ billed = "none"

(* Policy allows the change, or the approver of some action approved it    *)
(* with exactly these parameters.  Nothing allows a refused one.           *)
Authorised(e) ==
    \/ Verdict[e] = "ALLOW"
    \/ /\ Verdict[e] = "HOLD"
       /\ \E s \in Slots : decided[s] = [ent |-> e, decision |-> "approved"]

Change(e) ==
    /\ Authorised(e)
    /\ held' = IF e \in GrantEnts THEN held \cup {e} ELSE held \ {e}
    /\ UNCHANGED <<asked, decided, billed>>

(* Approvers are asked about held actions only, once for each action id.   *)
Ask ==
    /\ asked' \in [Slots -> Ents \cup {NoEnt}]
    /\ \A s \in Slots :
        asked'[s] # asked[s] => asked[s] = NoEnt /\ Verdict[asked'[s]] = "HOLD"
    /\ UNCHANGED <<held, decided, billed>>

Decide(s, e, d) ==
    /\ Verdict[e] = "HOLD"
    /\ decided[s] = NotDecided
    /\ decided' = [decided EXCEPT ![s] = [ent |-> e, decision |-> d]]
    /\ UNCHANGED <<held, asked, billed>>

Bill ==
    /\ billed = "none" /\ billed' \in {"partial", "done"}
    /\ UNCHANGED <<held, asked, decided>>

Next ==
    \/ \E e \in Ents : Change(e)
    \/ Ask
    \/ \E s \in Slots, e \in Ents, d \in {"approved", "refused"} : Decide(s, e, d)
    \/ Bill

Spec == Init /\ [][Next]_vars
=============================================================================
