------------------------------- MODULE MCRail -------------------------------
(***************************************************************************)
(* Small instances of Rail for TLC.  The entitlements: "a" is allowed and  *)
(* shows in the holdings once granted; "g" is an allowed GitHub grant,     *)
(* which does not; "h" and "k" are held for an approver; "x" is refused by *)
(* policy; "r" is an allowed revocation of a transfer.                     *)
(***************************************************************************)
EXTENDS RailOrder, TLC

MCVerdict == [e \in Ents |-> CASE e \in {"a", "g", "r"} -> "ALLOW"
                               [] e \in {"h", "k"}      -> "HOLD"
                               [] e = "x"               -> "REFUSE"]

None == <<>>
GithubAllowHoldHold == <<"g", "a", "h", "k">>
AllowHoldHold == <<"a", "h", "k">>
AllowHold == <<"a", "h">>
AllowGithub == <<"a", "g">>
AllowHoldRefuse == <<"a", "h", "x">>
TransferRevoke == <<"r">>
=============================================================================
