------------------------------ MODULE CasePlan ------------------------------
(***************************************************************************)
(* What Compile, Govern and Plan compute for one access request: from what *)
(* the subject holds now, the numbered actions of the case, each with its  *)
(* verdict's first state (rail/govern.py, rail/plan.py).                   *)
(*                                                                         *)
(* An action id is a position, not a name: A01, A02, ... number the wanted *)
(* entitlements that are not held yet, R01, R02, ... the held ones a       *)
(* transfer takes away.  The same entitlement may therefore get another id *)
(* when the plan is built again.  A slot stands for the id; the slots of   *)
(* the revocations follow those of the grants, as "R.." sorts after "A..". *)
(***************************************************************************)
EXTENDS Lifecycle, Sequences, FiniteSets

CONSTANTS
    Grants,     \* the wanted entitlements, in the order build_candidates lists them
    Revokes,    \* the entitlements a transfer would take away, in holding order
    Verdict,    \* the policy engine's verdict on each entitlement
    Unresolved, \* the held entitlements whose approver is a role nobody fills
    NoEnt       \* stands for "no action has this id"

Ents == {Grants[i] : i \in DOMAIN Grants} \cup {Revokes[i] : i \in DOMAIN Revokes}
GrantEnts == {Grants[i] : i \in DOMAIN Grants}
Slots == 1 .. (Len(Grants) + Len(Revokes))

ASSUME PlanAssumption ==
    /\ Grants \in Seq(Ents) /\ Revokes \in Seq(Ents)
    /\ Cardinality(Ents) = Len(Grants) + Len(Revokes)   \* no entitlement is listed twice
    /\ NoEnt \notin Ents
    /\ Verdict \in [Ents -> VerdictKind]
    /\ Unresolved \subseteq {e \in Ents : Verdict[e] = "HOLD"}

Cell == [ent : Ents, st : ActionState] \cup [ent : {NoEnt}, st : {"absent"}]
Absent == [ent |-> NoEnt, st |-> "absent"]

Governed(e) == [ent |-> e, st |-> StateAfterVerdict(Verdict[e])]

(* The i-th entitlement of the list that is in keep, or Absent.            *)
Numbered(list, keep, i) ==
    LET IsIth(k) == /\ list[k] \in keep
                    /\ Cardinality({j \in 1 .. k : list[j] \in keep}) = i
    IN  IF \E k \in DOMAIN list : IsIth(k)
        THEN Governed(list[CHOOSE k \in DOMAIN list : IsIth(k)])
        ELSE Absent

(* build_candidates: the wanted entitlements the subject does not hold.    *)
Candidates(holdings) ==
    [s \in Slots |-> IF s <= Len(Grants)
                     THEN Numbered(Grants, Ents \ holdings, s)
                     ELSE Absent]

(* build_plan: the transfer's revocations join the candidates.             *)
BuildPlan(candidates, holdings) ==
    [s \in Slots |-> IF s <= Len(Grants)
                     THEN candidates[s]
                     ELSE Numbered(Revokes, holdings, s - Len(Grants))]

(* _rank: allowed grants, allowed revocations, held, refused; ties by id.  *)
Rank(cell) ==
    CASE Verdict[cell.ent] = "ALLOW" -> IF cell.ent \in GrantEnts THEN 0 ELSE 1
      [] Verdict[cell.ent] = "HOLD"   -> 2
      [] Verdict[cell.ent] = "REFUSE" -> 3

Precedes(case, s, t) ==
    \/ Rank(case[s]) < Rank(case[t])
    \/ Rank(case[s]) = Rank(case[t]) /\ s < t

(* The first action, in the plan's order, of a set of the case's actions.  *)
IsFirst(case, s, among) ==
    s \in among /\ \A t \in among \ {s} : Precedes(case, s, t)
=============================================================================
