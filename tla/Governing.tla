----------------------------- MODULE Governing -----------------------------
(***************************************************************************)
(* The rules the engine ships with, the verdict they give on one action,   *)
(* and who may decide what is held (policy/rules, policy/conditions,       *)
(* policy/matchers, policy/approvers, surfaces/door).                      *)
(*                                                                         *)
(* A case is an action of a subject: what the records say of the person,   *)
(* what the catalogue says of the entitlement, and who asked.  A record    *)
(* may lack a value.  Of a repository's tags the one that matters is kept, *)
(* of a seat whether it is paid for.                                       *)
(***************************************************************************)
EXTENDS Integers, Sequences, Verdicts

CONSTANTS
    Subjects,      \* records of people: [person, employment, seniority, team, role, sow, manager]
    Entries,       \* of the catalogue: [system, class, permission, repo, tags, seat, data, masked, scope, baseline]
    Requesters,    \* who may have asked, or Unknown
    Roster,        \* [role -> sequence of persons], manager left out
    RuleBooks      \* the sets of rules that may be loaded

VARIABLES
    rules,     \* the ids that are loaded
    case,      \* [subject, entry, kind, origin, incident, requester]
    action,    \* [state, verdict, rule, rank, approver, box]
    decided    \* by whom

vars == <<rules, case, action, decided>>

Missing == "missing"
Unknown == "unknown"

Roles == <<"manager", "security-oncall", "incident-commander">>
Rank(role) == CHOOSE i \in 1..Len(Roles) : Roles[i] = role

People == {s.person : s \in Subjects} \cup {s.manager : s \in Subjects}
          \cup UNION {{Roster[role][i] : i \in 1..Len(Roster[role])} : role \in DOMAIN Roster}

-----------------------------------------------------------------------------
(* A comparison with what is missing is false, whichever way it is put.    *)
Known(a) == a # Missing
Equal(a, b) == Known(a) /\ Known(b) /\ a = b
Differs(a, b) == Known(a) /\ Known(b) /\ a # b
IsIn(a, set) == Known(a) /\ a \in set

(* What a rule says: its verdict where its conditions hold, raised where   *)
(* it escalates; otherwise its other verdict, or nothing.                  *)
Says(rule, verdict, role) ==
    {[rule |-> rule.id, verdict |-> verdict, rank |-> IF role = "none" THEN 0 ELSE Rank(role),
      terminal |-> rule.terminal, box |-> rule.box, offer |-> rule.offer]}

RuleOutcome(rule, met, raised) ==
    IF met THEN IF raised THEN Says(rule, "HOLD", rule.raisedTo) ELSE Says(rule, rule.verdict, rule.approver)
    ELSE IF rule.otherwise # "none" THEN Says(rule, rule.otherwise, "none")
    ELSE {}

Rule(id, verdict, otherwise) ==
    [id |-> id, verdict |-> verdict, otherwise |-> otherwise, approver |-> "none", raisedTo |-> "none",
     terminal |-> FALSE, box |-> 0, offer |-> "none"]

(* The rules, in the order of their ids.                                   *)
Acc001(c) == RuleOutcome(Rule(1, "ALLOW", "none"), c.entry.baseline, FALSE)

Acc002(c) ==
    IF c.origin # "same_as_peer" THEN {}
    ELSE RuleOutcome(Rule(2, "ALLOW", "REFUSE"), IsIn(c.subject.role, c.entry.scope), FALSE)

Acc003(c) ==
    IF ~IsIn(c.entry.class, {"admin", "production_admin"}) THEN {}
    ELSE RuleOutcome([Rule(3, "HOLD", "REFUSE") EXCEPT !.approver = "security-oncall"],
                     IsIn(c.subject.seniority, {"senior", "lead", "principal"}), FALSE)

Acc004(c) ==
    IF ~Equal(c.entry.system, "github") THEN {}
    ELSE RuleOutcome([Rule(4, "ALLOW", "REFUSE") EXCEPT !.raisedTo = "security-oncall"],
                     \/ Equal(c.subject.employment, "employee")
                     \/ IsIn(c.entry.repo, c.subject.sow) /\ Equal(c.entry.permission, "read"),
                     Equal(c.entry.tags, "production"))

Acc005(c) == RuleOutcome([Rule(5, "HOLD", "none") EXCEPT !.approver = "manager"], Equal(c.entry.seat, "paid"), FALSE)

Barred == {"production_credential", "production_admin", "production_db", "customer_pii_export"}
Outside == {"contractor", "vendor"}

Ctr001(c) ==
    IF ~(c.subject.employment \in Outside /\ IsIn(c.entry.class, Barred)) THEN {}
    ELSE RuleOutcome([Rule(6, "REFUSE", "none") EXCEPT !.terminal = TRUE], TRUE, FALSE)

Dat001(c) ==
    IF ~Equal(c.entry.data, "raw_pii") THEN {}
    ELSE RuleOutcome([Rule(7, "ALLOW", "REFUSE") EXCEPT !.offer = c.entry.masked],
                     Equal(c.subject.team, "data-analytics"), FALSE)

Emg001(c) ==
    IF c.origin # "incident" THEN {}
    ELSE RuleOutcome([Rule(8, "HOLD", "REFUSE") EXCEPT !.approver = "incident-commander", !.box = 4],
                     /\ Equal(c.subject.employment, "employee")
                     /\ IsIn(c.entry.permission, {"read", "viewer"})
                     /\ Differs(c.incident, ""), FALSE)

Off001(c) == IF c.origin = "transfer" THEN RuleOutcome(Rule(9, "ALLOW", "none"), TRUE, FALSE) ELSE {}

(* Nobody approves what they raised or benefit from.                       *)
Sod001(approver, requester, beneficiary) ==
    RuleOutcome([Rule(10, "ALLOW", "REFUSE") EXCEPT !.terminal = TRUE],
                Differs(approver, requester) /\ Differs(approver, beneficiary), FALSE)

OfGrants(c) ==
    Acc001(c) \cup Acc002(c) \cup Acc003(c) \cup Acc004(c) \cup Acc005(c) \cup Ctr001(c) \cup Dat001(c) \cup Emg001(c)

Fired(c) == {o \in IF c.kind = "grant" THEN OfGrants(c) ELSE Off001(c) : o.rule \in rules}

-----------------------------------------------------------------------------
(* The roster of a role, or the manager the record names, but never the    *)
(* one who asked.                                                          *)
Candidates(role, subject) ==
    IF role = "manager" THEN IF Known(subject.manager) THEN <<subject.manager>> ELSE <<>> ELSE Roster[role]

Approver(rank, c) ==
    LET listed == Candidates(Roles[rank], c.subject)
        named == {i \in 1..Len(listed) : listed[i] # c.requester}
    IN  IF named = {} THEN Unknown ELSE listed[CHOOSE i \in named : \A j \in named : i <= j]

Undecided == [state |-> "proposed", verdict |-> "none", rule |-> 0, rank |-> 0, approver |-> "none", box |-> 0]

(* A transfer takes away what another role covered.                        *)
KindOf(origin) == IF origin = "transfer" THEN "revoke" ELSE "grant"

Init ==
    /\ rules \in RuleBooks
    /\ \E s \in Subjects, e \in Entries, r \in Requesters,
          o \in {"same_as_peer", "onboarding", "incident", "transfer"} :
         \E i \in IF o = "incident" THEN {"INC", "", Missing} ELSE {Missing} :
            case = [subject |-> s, entry |-> e, requester |-> r, origin |-> o, kind |-> KindOf(o), incident |-> i]
    /\ action = Undecided /\ decided = "none"

StateFor == [ALLOW |-> "proposed", HOLD |-> "awaiting", REFUSE |-> "refused"]

(* The verdict is stamped once, and time-boxed.                            *)
Govern ==
    /\ action.state = "proposed" /\ action.verdict = "none"
    /\ LET v == Resolve(Fired(case)) IN
       action' = [state |-> StateFor[v.verdict], verdict |-> v.verdict, rule |-> v.rule, rank |-> v.rank,
                  approver |-> IF v.verdict = "HOLD" THEN Approver(v.rank, case) ELSE "none",
                  box |-> TimeBox(Fired(case))]
    /\ UNCHANGED <<rules, case, decided>>

(* A mutant: separation of duties looks at the requester only.             *)
RequesterOnly(by) ==
    LET v == Resolve({o \in Sod001(by, case.requester, Unknown) : o.rule \in rules}) IN v.verdict = "ALLOW"

(* Separation of duties, by the same engine; who is unknown is missing.    *)
MayDecide(by) ==
    LET v == Resolve({o \in Sod001(by, IF case.requester = Unknown THEN Missing ELSE case.requester,
                                   case.subject.person) : o.rule \in rules})
    IN  v.verdict = "ALLOW"

(* Only the named approver decides, and not for himself.                   *)
Decide(by) ==
    /\ action.state = "awaiting" /\ action.approver = by /\ MayDecide(by)
    /\ decided' = by
    /\ \E state \in {"approved", "refused"} : action' = [action EXCEPT !.state = state]
    /\ UNCHANGED <<rules, case>>

Next == Govern \/ \E by \in People : Decide(by)

Spec == Init /\ [][Next]_vars

TypeOK ==
    /\ rules \in RuleBooks /\ case.subject \in Subjects /\ case.entry \in Entries
    /\ action.state \in {"proposed", "awaiting", "refused", "approved"}
    /\ action.verdict \in {"none", "ALLOW", "HOLD", "REFUSE"}
    /\ decided \in People \cup {"none"}

-----------------------------------------------------------------------------
Granted == action.verdict = "ALLOW" \/ action.state = "approved"
Grant == Granted /\ case.kind = "grant"

(* Whatever else is said for it, no contractor gets production credentials,*)
(* production data or exports, and there is no way to approve it.          *)
ContractorsAreKeptOut ==
    (6 \in rules /\ case.kind = "grant" /\ action.verdict # "none"
        /\ case.subject.employment \in Outside /\ case.entry.class \in Barred)
        => action.state = "refused" /\ decided = "none"

(* What one or more rules hold is granted by somebody senior enough for    *)
(* each of them.                                                           *)
HoldsAreAnswered ==
    Granted => \A o \in With("HOLD", Fired(case)) :
                   /\ action.state = "approved" /\ o.rank <= action.rank
                   /\ action.rank > 1 =>
                        \E i \in 1..Len(Roster[Roles[action.rank]]) : Roster[Roles[action.rank]][i] = decided

(* Incident access is read-only, for employees, for four hours at most,    *)
(* and mirrored access stays in the scope of the receiver's own role.      *)
BoundsAreKept ==
    /\ Grant /\ case.origin = "incident" =>
           /\ case.subject.employment = "employee" /\ case.entry.permission \in {"read", "viewer"}
           /\ action.box \in 1..4 /\ decided # "none"
    /\ Grant /\ case.origin = "same_as_peer" => case.subject.role \in case.entry.scope
    /\ Grant /\ case.entry.data = "raw_pii" => case.subject.team = "data-analytics"

(* What is approved is approved by the one the verdict names, who neither  *)
(* asked for it nor gains by it.                                           *)
NobodyForHimself ==
    action.state = "approved" =>
        decided = action.approver /\ decided # case.requester /\ decided # case.subject.person

(* Nothing is decided where the rule on deciding is not loaded, nor where  *)
(* it is not known who asked.                                              *)
DecisionsNeedTheRule ==
    decided # "none" => 10 \in rules /\ case.requester # Unknown

(* The raw data's masked view is offered by the rule that refused the raw. *)
OffersComeFromTheRule ==
    \A offer \in Alternative(Fired(case)) :
        offer = case.entry.masked /\ Resolve(Fired(case)).rule = 7

(* Holding a rule out changes a verdict only through what that rule said:  *)
(* it loosens what the rule held or refused, and tightens only what it     *)
(* alone had spoken about.                                                 *)
StudioIsRight ==
    \A r \in rules :
        LET fired == Fired(case)
            change == Change(Resolve(fired), Resolve(HeldOut(fired, r)))
            said == {o.verdict : o \in {p \in fired : p.rule = r}}
        IN  /\ said = {} => change = "none"
            /\ change = "loosened" => said \subseteq {"HOLD", "REFUSE"}
            /\ change = "tightened" => HeldOut(fired, r) = {} /\ said \subseteq {"ALLOW", "HOLD"}

(* Together: what the written rules promise.                               *)
PolicyIsKept ==
    /\ ContractorsAreKeptOut /\ HoldsAreAnswered /\ NobodyForHimself /\ BoundsAreKept
    /\ DecisionsNeedTheRule /\ OffersComeFromTheRule /\ StudioIsRight
=============================================================================
