------------------------------- MODULE Target -------------------------------
(***************************************************************************)
(* What one execute_action may come to, as its caller and the target see   *)
(* it: the action's next state, whether the target changed, and whether it *)
(* knows the idempotency key afterwards (rail/execute.py over the          *)
(* connectors of connectors/fixture.py).  Module Rail takes one call as    *)
(* one such step; module Execute has the attempts inside.                  *)
(***************************************************************************)

(* A mutant: the target does not recognise a key it has seen.              *)
ForgetfulOutcomes(known, inPlace) ==
    {[st |-> "executed", applies |-> TRUE,  records |-> TRUE],
     [st |-> "unknown",  applies |-> TRUE,  records |-> TRUE],
     [st |-> "failed",   applies |-> FALSE, records |-> FALSE]}

(* A target that knows the key replays its answer and changes nothing.  A  *)
(* target may acknowledge a write and change nothing.  A doubtful write is *)
(* read back: if the change is there, whoever made it, the action is       *)
(* executed; if it cannot be read, or never lands, it is unknown.          *)
WriteOutcomes(known, inPlace) ==
    {[st |-> "executed", applies |-> ~known, records |-> TRUE],
     [st |-> "executed", applies |-> FALSE,  records |-> TRUE],
     [st |-> "unknown",  applies |-> ~known, records |-> TRUE],
     [st |-> "unknown",  applies |-> FALSE,  records |-> known],
     [st |-> "failed",   applies |-> FALSE,  records |-> known]}
    \cup (IF inPlace THEN {[st |-> "executed", applies |-> FALSE, records |-> known]} ELSE {})
=============================================================================
