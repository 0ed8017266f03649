------------------------------ MODULE RailInv ------------------------------
(***************************************************************************)
(* The inductive invariant behind the theorems about Rail: what must be    *)
(* true of every copy of the case, wherever a task holds it, for the run's *)
(* promises to survive the next step.                                      *)
(***************************************************************************)
EXTENDS Rail

(* An action waits, or was approved, only if policy held it; it was        *)
(* approved only by a decision on record for its id and its parameters.    *)
Sound(c, decisions) ==
    \A s \in Slots :
        /\ c[s].st \in {"awaiting", "approved"} => Verdict[c[s].ent] = "HOLD"
        /\ c[s].st = "approved" =>
               decisions[s] = [ent |-> c[s].ent, decision |-> "approved"]

(* The actions table has a row for every action of the case.               *)
Known(c, table) == \A s \in Slots : c[s] # Absent => table[s] # Absent

(* A row that waits is of an action policy held.                           *)
HeldWait(table) ==
    \A s \in Slots : table[s].st = "awaiting" => Verdict[table[s].ent] = "HOLD"

TableInv == Sound(capsule, approvals) /\ Known(capsule, rows) /\ HeldWait(rows)

Touching == {"execute", "verify"}
LatePCs == {"approve", "execute", "verify", "finalize"}
Moved == {"executed", "unknown", "failed", "verified"}

(* What a task carries between two of its steps.                           *)
TaskInv(t) ==
    /\ Sound(case[t], approvals)
    /\ pc[t] \in LatePCs => Known(case[t], rows)
    /\ pc[t] \notin Touching => touched[t] = {}
    /\ \A s \in touched[t] : case[t][s].st \in Moved
    /\ pc[t] = "record" => ask[t] # NoAsk /\ Verdict[ask[t].ent] = "HOLD"

(* The inductive invariant: no copy of the case, stored or held by a task, *)
(* claims an authority that the approvals table does not give.             *)
IInv ==
    /\ TypeOK
    /\ TableInv
    /\ \A t \in Tasks : TaskInv(t)
    /\ WritesAreAuthorised
=============================================================================
