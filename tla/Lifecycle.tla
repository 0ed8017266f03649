----------------------------- MODULE Lifecycle -----------------------------
(***************************************************************************)
(* The lifecycles every other module speaks of: the states of an action,   *)
(* the statuses of a run, and the moves the engine allows between them     *)
(* (engine/contextrail/models.py).                                         *)
(***************************************************************************)
EXTENDS Naturals

ActionState == {"planned", "awaiting", "approved", "refused",
                "executed", "verified", "failed", "unknown"}

(* ACTION_TRANSITIONS, as a relation: the moves Action.transition accepts.  *)
ActionTransitions ==
    {<<"planned", to>> : to \in {"awaiting", "refused", "executed", "unknown", "failed"}}
    \cup {<<"awaiting", to>> : to \in {"approved", "refused"}}
    \cup {<<"approved", to>> : to \in {"executed", "unknown", "failed"}}
    \cup {<<"executed", to>> : to \in {"verified", "failed"}}
    \cup {<<"unknown", to>> : to \in {"executed", "verified", "failed"}}

VerdictKind == {"ALLOW", "HOLD", "REFUSE"}

(* Action.transition: a REFUSE verdict may only ever become "refused".     *)
MayTransition(verdict, from, to) ==
    /\ verdict = "REFUSE" => to = "refused"
    /\ <<from, to>> \in ActionTransitions

(* apply_verdict: the state a freshly governed action starts in.           *)
StateAfterVerdict(verdict) ==
    CASE verdict = "ALLOW"  -> "planned"
      [] verdict = "HOLD"   -> "awaiting"
      [] verdict = "REFUSE" -> "refused"

RunStatus == {"running", "needs_input", "awaiting_approval",
              "partial", "done", "failed"}

FinishedStatus == {"partial", "done", "failed"}

(* RUN_TRANSITIONS: the moves check_run_transition accepts.                *)
RunTransitions ==
    {<<"running", to>> : to \in {"needs_input", "awaiting_approval"} \cup FinishedStatus}
    \cup {<<"needs_input", to>> : to \in {"running", "failed"}}
    \cup {<<"awaiting_approval", to>> : to \in {"running"} \cup FinishedStatus}

(* Runner._status: writing the status the row already has is no move.      *)
MayBecome(from, to) == from = to \/ <<from, to>> \in RunTransitions
=============================================================================
