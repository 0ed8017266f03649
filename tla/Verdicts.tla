------------------------------ MODULE Verdicts ------------------------------
(***************************************************************************)
(* How the outcomes of rules become one verdict (policy/engine).  An       *)
(* outcome is what one rule says about one action:                         *)
(*   [rule, verdict, rank, terminal, box, offer]                           *)
(* rule is the position of the rule's id among all ids, rank the seniority *)
(* of the approver role it names (0 for none), box the time it grants (0   *)
(* for no limit), offer what it offers instead.                            *)
(***************************************************************************)
EXTENDS Integers, FiniteSets

DefaultDeny == [verdict |-> "REFUSE", rule |-> 0, rank |-> 0, terminal |-> FALSE]

With(verdict, fired) == {o \in fired : o.verdict = verdict}

Quoting(verdict, o) == [verdict |-> verdict, rule |-> o.rule, rank |-> o.rank, terminal |-> o.terminal]

First(outcomes) == CHOOSE o \in outcomes : \A p \in outcomes : o.rule <= p.rule

(* Terminal refusals before the others.                                    *)
FirstRefusal(refusals) ==
    LET terminal == {o \in refusals : o.terminal} IN
    First(IF terminal # {} THEN terminal ELSE refusals)

(* The most senior approver; between equals the rule that comes first.     *)
Senior(holds) == First({o \in holds : \A p \in holds : p.rank <= o.rank})

(* Any refusal wins, then any hold; nothing is allowed that no rule allows.*)
Resolve(fired) ==
    IF With("REFUSE", fired) # {} THEN Quoting("REFUSE", FirstRefusal(With("REFUSE", fired)))
    ELSE IF With("HOLD", fired) # {} THEN Quoting("HOLD", Senior(With("HOLD", fired)))
    ELSE IF With("ALLOW", fired) # {} THEN Quoting("ALLOW", First(With("ALLOW", fired)))
    ELSE DefaultDeny

(* The shortest time among the rules that granted; 0 when none limits it.  *)
TimeBox(fired) ==
    LET boxes == {o.box : o \in {p \in fired : p.verdict # "REFUSE" /\ p.box > 0}} IN
    IF Resolve(fired).verdict = "REFUSE" \/ boxes = {} THEN 0
    ELSE CHOOSE b \in boxes : \A other \in boxes : b <= other

(* What the quoted rule offers instead of its hold or refusal.             *)
Alternative(fired) ==
    LET v == Resolve(fired) IN
    {o.offer : o \in {p \in fired : p.rule = v.rule /\ v.verdict # "ALLOW" /\ p.offer # "none"}}

-----------------------------------------------------------------------------
(* Policy Studio: what one rule is for.                                    *)
Strictness == [ALLOW |-> 0, HOLD |-> 1, REFUSE |-> 2]

HeldOut(fired, rule) == {o \in fired : o.rule # rule}

Change(before, after) ==
    LET delta == Strictness[after.verdict] - Strictness[before.verdict] IN
    IF delta < 0 THEN "loosened"
    ELSE IF delta > 0 THEN "tightened"
    ELSE IF before.rule = after.rule /\ before.rank = after.rank THEN "none" ELSE "same_verdict"
=============================================================================
