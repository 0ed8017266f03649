--------------------------- MODULE DecisionProofs ---------------------------
(***************************************************************************)
(* Proofs about Services: that each of them keeps to itself, and what may  *)
(* be done and how much of it, and what answers rest on: decisions under   *)
(* the rule book, writes to the helpdesk, budgets, the rate of calls and   *)
(* questions; for any subjects, catalogue, callers, budgets, rates,        *)
(* askers and threads.                                                     *)
(*                                                                         *)
(* The services share no variable, so a behaviour of all of them is one of *)
(* each (EachKeepsItsOwn), and what is proved of a component from its own  *)
(* inductive invariant holds of Services.  One section for each component: *)
(* its invariant, a lemma for every action, and what it comes to.          *)
(***************************************************************************)
EXTENDS Services, SequenceTheorems, FiniteSetTheorems, WellFoundedInduction, TLAPS

(* Each component takes its own steps or none.                             *)
LEMMA StepsAreTheirOwn ==
  /\ ServicesInit => Init /\ S!Init /\ R!Init /\ Q!Init /\ V!Init /\ H!Init /\ L!Init
  /\ [ServicesNext]_serviceVars =>
        /\ [Next]_vars /\ [S!Next]_(S!vars) /\ [R!Next]_(R!vars) /\ [Q!Next]_(Q!vars)
        /\ [V!Next]_(V!vars) /\ [H!Next]_(H!vars) /\ [L!Next]_(L!vars)
<1>1. S!vars = sVars /\ R!vars = rVars /\ Q!vars = qVars /\ V!vars = vVars /\ H!vars = hVars /\ L!vars = lVars
  BY DEF S!vars, R!vars, Q!vars, V!vars, H!vars, L!vars, sVars, rVars, qVars, vVars, hVars, lVars
<1>2. [ServicesNext]_serviceVars =>
        /\ [Next]_vars /\ [S!Next]_sVars /\ [R!Next]_rVars /\ [Q!Next]_qVars
        /\ [V!Next]_vVars /\ [H!Next]_hVars /\ [L!Next]_lVars
  BY DEF ServicesNext, serviceVars, Deciding, Streaming, Routing, Asking, Calling, UsingHelpdesk, Limiting
<1>3. ServicesInit => Init /\ S!Init /\ R!Init /\ Q!Init /\ V!Init /\ H!Init /\ L!Init
  BY DEF ServicesInit
<1>4. /\ sVars' = (S!vars)' /\ rVars' = (R!vars)' /\ qVars' = (Q!vars)' /\ vVars' = (V!vars)'
      /\ hVars' = (H!vars)' /\ lVars' = (L!vars)'
  BY DEF S!vars, R!vars, Q!vars, V!vars, H!vars, L!vars, sVars, rVars, qVars, vVars, hVars, lVars
<1> QED BY <1>1, <1>2, <1>3, <1>4

(* A behaviour of the services is a behaviour of each.                     *)
LEMMA EachKeepsItsOwn ==
  ServicesSpec => Spec /\ S!Spec /\ R!Spec /\ Q!Spec /\ V!Spec /\ H!Spec /\ L!Spec
  BY StepsAreTheirOwn, PTL DEF ServicesSpec, Spec, S!Spec, R!Spec, Q!Spec, V!Spec, H!Spec, L!Spec

-----------------------------------------------------------------------------
(* Verdicts and decisions.  What a rule says bears its own number, so the  *)
(* verdict is that of the strictest rule that spoke: PolicyInv keeps,      *)
(* beside the verdict, what fired and who was named, until somebody        *)
(* decides.                                                                *)

Outcomes(fired) == \A o \in fired : o.verdict \in {"ALLOW", "HOLD", "REFUSE"}

(* The verdict follows the strictest outcome; without one it is a refusal. *)
LEMMA Strictest ==
  ASSUME NEW fired, Outcomes(fired)
  PROVE  /\ Resolve(fired).verdict = "REFUSE" <=> fired = {} \/ \E o \in fired : o.verdict = "REFUSE"
         /\ Resolve(fired).verdict = "HOLD" <=> /\ \E o \in fired : o.verdict = "HOLD"
                                                /\ \A o \in fired : o.verdict # "REFUSE"
         /\ Resolve(fired).verdict = "ALLOW" <=> fired # {} /\ \A o \in fired : o.verdict = "ALLOW"
         /\ Resolve(fired).verdict \in {"ALLOW", "HOLD", "REFUSE"}
<1>1. CASE With("REFUSE", fired) # {}
  <2>1. Resolve(fired).verdict = "REFUSE"
    BY <1>1 DEF Resolve, Quoting
  <2>2. PICK o \in fired : o.verdict = "REFUSE"
    BY <1>1 DEF With
  <2> QED BY <2>1, <2>2
<1>2. CASE With("REFUSE", fired) = {} /\ With("HOLD", fired) # {}
  <2>1. Resolve(fired).verdict = "HOLD"
    BY <1>2 DEF Resolve, Quoting
  <2>2. PICK o \in fired : o.verdict = "HOLD"
    BY <1>2 DEF With
  <2>3. \A p \in fired : p.verdict # "REFUSE"
    BY <1>2 DEF With
  <2> QED BY <2>1, <2>2, <2>3
<1>3. CASE With("REFUSE", fired) = {} /\ With("HOLD", fired) = {} /\ With("ALLOW", fired) # {}
  <2>1. Resolve(fired).verdict = "ALLOW"
    BY <1>3 DEF Resolve, Quoting
  <2>2. fired # {}
    BY <1>3 DEF With
  <2>3. \A p \in fired : p.verdict = "ALLOW"
    BY <1>3 DEF With, Outcomes
  <2> QED BY <2>1, <2>2, <2>3
<1>4. CASE With("REFUSE", fired) = {} /\ With("HOLD", fired) = {} /\ With("ALLOW", fired) = {}
  <2>1. Resolve(fired).verdict = "REFUSE"
    BY <1>4 DEF Resolve, DefaultDeny
  <2>2. fired = {}
    BY <1>4 DEF With, Outcomes
  <2> QED BY <2>1, <2>2
<1> QED BY <1>1, <1>2, <1>3, <1>4

(* Where some rule has spoken, another rule that speaks too never makes    *)
(* the verdict more lenient: no rule can undo a hold or a refusal.         *)
THEOREM MoreRulesNeverLoosen ==
  ASSUME NEW fired, Outcomes(fired), NEW some \in SUBSET fired, some # {}
  PROVE  Strictness[Resolve(some).verdict] <= Strictness[Resolve(fired).verdict]
<1>1. Outcomes(some)
  BY DEF Outcomes
<1>2. CASE Resolve(fired).verdict = "REFUSE"
  BY <1>1, <1>2, Strictest DEF Strictness
<1>3. CASE Resolve(fired).verdict = "HOLD"
  <2>1. Resolve(some).verdict # "REFUSE"
    BY <1>1, <1>3, Strictest
  <2> QED BY <1>1, <1>3, <2>1, Strictest DEF Strictness
<1>4. CASE Resolve(fired).verdict = "ALLOW"
  <2>1. Resolve(some).verdict = "ALLOW"
    BY <1>1, <1>4, Strictest
  <2> QED BY <1>4, <2>1 DEF Strictness
<1> QED BY <1>2, <1>3, <1>4, Strictest

(* Policy Studio: leaving a rule out loosens a verdict only when that rule *)
(* held or refused, and tightens it only when no other rule spoke.         *)
THEOREM HoldingOutTellsTheTruth ==
  ASSUME NEW fired, Outcomes(fired), NEW rule
  PROVE  LET change == Change(Resolve(fired), Resolve(HeldOut(fired, rule))) IN
         /\ change = "loosened" => \E o \in fired : o.rule = rule /\ o.verdict \in {"HOLD", "REFUSE"}
         /\ change = "tightened" => HeldOut(fired, rule) = {}
<1> DEFINE rest == HeldOut(fired, rule)
           before == Resolve(fired).verdict
           after == Resolve(rest).verdict
           delta == Strictness[after] - Strictness[before]
           change == Change(Resolve(fired), Resolve(rest))
<1>1. rest \subseteq fired /\ Outcomes(rest)
  BY DEF HeldOut, Outcomes
<1>2. before \in {"ALLOW", "HOLD", "REFUSE"} /\ after \in {"ALLOW", "HOLD", "REFUSE"}
  BY <1>1, Strictest
<1>3. Strictness[before] \in Int /\ Strictness[after] \in Int
  BY <1>2 DEF Strictness
<1>4. (change = "loosened" => delta < 0) /\ (change = "tightened" => delta > 0)
  BY <1>3 DEF Change
<1>5. ASSUME delta > 0 PROVE rest = {}
  <2>1. SUFFICES ASSUME rest # {} PROVE FALSE
    OBVIOUS
  <2>2. Strictness[after] <= Strictness[before]
    BY <1>1, <2>1, MoreRulesNeverLoosen
  <2> QED BY <1>3, <1>5, <2>2
<1>6. ASSUME delta < 0 PROVE \E o \in fired : o.rule = rule /\ o.verdict \in {"HOLD", "REFUSE"}
  <2>1. SUFFICES ASSUME \A o \in fired : o.verdict \in {"HOLD", "REFUSE"} => o \in rest PROVE FALSE
    BY DEF HeldOut
  <2>2. after # "REFUSE" /\ before # "ALLOW"
    BY <1>2, <1>3, <1>6 DEF Strictness
  <2>3. fired # {}
    BY <1>1, <2>2, Strictest
  <2>4. CASE before = "REFUSE"
    BY <1>1, <2>1, <2>2, <2>3, <2>4, Strictest
  <2>5. CASE before = "HOLD"
    <3>1. after = "ALLOW"
      BY <1>2, <1>3, <1>6, <2>5 DEF Strictness
    <3> QED BY <1>1, <2>1, <2>5, <3>1, Strictest
  <2> QED BY <1>2, <2>2, <2>4, <2>5
<1> HIDE DEF delta, rest
<1> QED BY <1>4, <1>5, <1>6 DEF rest

-----------------------------------------------------------------------------
(* Every rule that speaks says one of the three verdicts.                  *)
LEMMA RulesSpeakPlainly ==
  ASSUME NEW c
  PROVE  Outcomes(Fired(c))
<1>1. ASSUME NEW id, NEW verdict \in {"ALLOW", "HOLD", "REFUSE"}, NEW otherwise \in {"none", "REFUSE"},
             NEW rule, rule.verdict = verdict, rule.otherwise = otherwise, NEW met, NEW raised
      PROVE  Outcomes(RuleOutcome(rule, met, raised))
  BY <1>1 DEF Outcomes, RuleOutcome, Says
<1>2. Outcomes(Acc001(c)) /\ Outcomes(Acc002(c)) /\ Outcomes(Off001(c))
  BY <1>1 DEF Acc001, Acc002, Off001, Rule, Outcomes
<1>3. Outcomes(Acc003(c)) /\ Outcomes(Acc004(c)) /\ Outcomes(Acc005(c))
  BY <1>1 DEF Acc003, Acc004, Acc005, Rule, Outcomes
<1>4. Outcomes(Ctr001(c)) /\ Outcomes(Dat001(c)) /\ Outcomes(Emg001(c))
  BY Zenon, <1>1 DEF Ctr001, Dat001, Emg001, Rule, Outcomes
<1> QED BY <1>2, <1>3, <1>4 DEF Outcomes, Fired, OfGrants

(* The contractor rule refuses whatever the others say.                    *)
LEMMA ContractorsAreRefused ==
  ASSUME 6 \in rules, case.kind = "grant", case.subject.employment \in Outside, case.entry.class \in Barred
  PROVE  Resolve(Fired(case)).verdict = "REFUSE"
<1>1. \E o \in Ctr001(case) : o.rule = 6 /\ o.verdict = "REFUSE"
  BY DEF Ctr001, RuleOutcome, Says, Rule, IsIn, Known, Missing, Barred
<1>2. \E o \in Fired(case) : o.verdict = "REFUSE"
  BY <1>1 DEF Fired, OfGrants
<1> QED BY <1>2, RulesSpeakPlainly, Strictest

(* Who may decide is somebody else, and the rule on deciding is loaded.    *)
LEMMA DecidersAreOthers ==
  ASSUME NEW by, MayDecide(by)
  PROVE  /\ 10 \in rules /\ case.requester # Unknown
         /\ by # case.requester /\ by # case.subject.person
<1> DEFINE asked == IF case.requester = Unknown THEN Missing ELSE case.requester
           spoken == Sod001(by, asked, case.subject.person)
           heard == {o \in spoken : o.rule \in rules}
<1>1. Outcomes(heard)
  BY DEF Outcomes, Sod001, RuleOutcome, Says, Rule
<1>2. heard # {} /\ \A o \in heard : o.verdict = "ALLOW"
  BY <1>1, Strictest DEF MayDecide
<1>3. PICK o \in spoken : o.rule \in rules /\ o.verdict = "ALLOW"
  BY <1>2
<1>4. o.rule = 10
  BY <1>3 DEF Sod001, RuleOutcome, Says, Rule
<1>5. Differs(by, asked) /\ Differs(by, case.subject.person)
  BY <1>3 DEF Sod001, RuleOutcome, Says, Rule
<1> QED BY <1>3, <1>4, <1>5 DEF Differs, Known

-----------------------------------------------------------------------------
(* Any set of natural numbers with an element has a least one.             *)
LEMMA Least ==
  ASSUME NEW U, U \subseteq Nat, U # {}
  PROVE  \E i \in U : \A j \in U : i <= j
<1> DEFINE Below == OpToRel(<, Nat)
<1>1. IsWellFoundedOn(Below, Nat)
  BY Zenon, NatLessThanWellFounded
<1> HIDE DEF Below
<1>2. PICK x \in U : \A y \in U : ~ (<<y, x>> \in Below)
  BY <1>1, WFMin
<1>3. \A y \in U : y < x => <<y, x>> \in Below
  BY DEF Below, OpToRel
<1>4. x \in Nat /\ \A y \in U : y \in Nat
  OBVIOUS
<1>5. \A y \in U : ~(y < x)
  BY <1>2, <1>3
<1>6. \A y \in U : x <= y
  BY <1>4, <1>5, SMT
<1> QED BY <1>6

(* The first of some outcomes is one of them.                              *)
LEMMA FirstIsOneOfThem ==
  ASSUME NEW outcomes, outcomes # {}, \A o \in outcomes : o.rule \in Nat
  PROVE  First(outcomes) \in outcomes
<1> DEFINE ids == {o.rule : o \in outcomes}
<1>1. PICK i \in ids : \A j \in ids : i <= j
  BY Least
<1>2. PICK o \in outcomes : o.rule = i
  OBVIOUS
<1>3. \A p \in outcomes : o.rule <= p.rule
  BY <1>1, <1>2
<1> QED BY <1>3 DEF First

(* The senior one of some holds is one of them, and none outranks it.      *)
LEMMA SeniorOutranks ==
  ASSUME NEW holds, holds # {}, \A o \in holds : o.rule \in Nat /\ o.rank \in 0..3
  PROVE  Senior(holds) \in holds /\ \A o \in holds : o.rank <= Senior(holds).rank
<1> DEFINE top == {o \in holds : \A p \in holds : p.rank <= o.rank}
           below == {3 - o.rank : o \in holds}
<1>1. below \subseteq Nat /\ below # {}
  OBVIOUS
<1>2. PICK i \in below : \A j \in below : i <= j
  BY <1>1, Least
<1>3. PICK o \in holds : i = 3 - o.rank
  OBVIOUS
<1>4. \A p \in holds : 3 - o.rank <= 3 - p.rank
  BY <1>2, <1>3
<1>5. o \in top
  BY <1>4
<1>6. First(top) \in top
  BY <1>5, FirstIsOneOfThem
<1> QED BY <1>6 DEF Senior

(* The ranks of the roles.                                                 *)
LEMMA Ranks == Rank("manager") = 1 /\ Rank("security-oncall") = 2 /\ Rank("incident-commander") = 3
<1>1. Len(Roles) = 3 /\ Roles[1] = "manager" /\ Roles[2] = "security-oncall" /\ Roles[3] = "incident-commander"
  BY DEF Roles
<1>2. \A i \in 1..3 : i = 1 \/ i = 2 \/ i = 3
  OBVIOUS
<1>3. \A i \in 1..3 : Roles[i] = "manager" => i = 1
  BY <1>1, <1>2
<1>4. \A i \in 1..3 : Roles[i] = "security-oncall" => i = 2
  BY <1>1, <1>2
<1>5. \A i \in 1..3 : Roles[i] = "incident-commander" => i = 3
  BY <1>1, <1>2
<1>6. 1 \in 1..3 /\ 2 \in 1..3 /\ 3 \in 1..3
  OBVIOUS
<1>7. Rank("manager") = 1
  BY <1>1, <1>3, <1>6 DEF Rank
<1>8. Rank("security-oncall") = 2
  BY <1>1, <1>4, <1>6 DEF Rank
<1>9. Rank("incident-commander") = 3
  BY <1>1, <1>5, <1>6 DEF Rank
<1> QED BY <1>7, <1>8, <1>9

(* A rule says one thing: under its id, with its box and its offer, and    *)
(* at the rank of one of the two roles it names.                           *)
SpeaksOnce(spoken, id, ranks, box, offer) ==
    /\ \A o, p \in spoken : o = p
    /\ \A o \in spoken : o.rule = id /\ o.rank \in ranks /\ o.box = box /\ o.offer = offer

(* What one rule says bears its id, the rank of an approver it names, and  *)
(* its box and offer.                                                      *)
LEMMA RuleSpeaksOnce ==
  ASSUME NEW rule, NEW met, NEW raised
  PROVE  SpeaksOnce(RuleOutcome(rule, met, raised), rule.id,
                    {0} \cup {Rank(r) : r \in {rule.approver, rule.raisedTo} \ {"none"}}, rule.box, rule.offer)
<1>1. ASSUME NEW verdict, NEW role \in {rule.approver, rule.raisedTo, "none"}
      PROVE  SpeaksOnce(Says(rule, verdict, role), rule.id,
                        {0} \cup {Rank(r) : r \in {rule.approver, rule.raisedTo} \ {"none"}}, rule.box, rule.offer)
  BY <1>1 DEF SpeaksOnce, Says
<1> QED BY <1>1 DEF RuleOutcome, SpeaksOnce

(* What the shipped rules say, each of them at most once.                  *)
LEMMA EachSpeaksOnce ==
  ASSUME NEW c
  PROVE  /\ SpeaksOnce(Acc001(c), 1, 0..3, 0, "none") /\ SpeaksOnce(Acc002(c), 2, 0..3, 0, "none")
         /\ SpeaksOnce(Acc003(c), 3, 0..3, 0, "none") /\ SpeaksOnce(Acc004(c), 4, 0..3, 0, "none")
         /\ SpeaksOnce(Acc005(c), 5, 0..3, 0, "none") /\ SpeaksOnce(Ctr001(c), 6, 0..3, 0, "none")
         /\ SpeaksOnce(Dat001(c), 7, 0..3, 0, c.entry.masked) /\ SpeaksOnce(Emg001(c), 8, 0..3, 4, "none")
         /\ SpeaksOnce(Off001(c), 9, 0..3, 0, "none")
<1>1. ASSUME NEW rule, NEW met, NEW raised, NEW id, NEW box, NEW offer,
             rule.id = id, rule.box = box, rule.offer = offer,
             {rule.approver, rule.raisedTo} \subseteq {"none", "manager", "security-oncall", "incident-commander"}
      PROVE  SpeaksOnce(RuleOutcome(rule, met, raised), id, 0..3, box, offer)
  <2>1. {0} \cup {Rank(r) : r \in {rule.approver, rule.raisedTo} \ {"none"}} \subseteq 0..3
    BY <1>1, Ranks
  <2> QED BY <1>1, <2>1, RuleSpeaksOnce DEF SpeaksOnce
<1>2. \A id, box, offer : SpeaksOnce({}, id, 0..3, box, offer)
  BY DEF SpeaksOnce
<1>3. SpeaksOnce(Acc001(c), 1, 0..3, 0, "none")
  BY <1>1 DEF Acc001, Rule
<1>4. SpeaksOnce(Acc002(c), 2, 0..3, 0, "none")
  BY <1>1, <1>2 DEF Acc002, Rule
<1>5. SpeaksOnce(Acc003(c), 3, 0..3, 0, "none")
  BY <1>1, <1>2 DEF Acc003, Rule
<1>6. SpeaksOnce(Acc004(c), 4, 0..3, 0, "none")
  BY <1>1, <1>2 DEF Acc004, Rule
<1>7. SpeaksOnce(Acc005(c), 5, 0..3, 0, "none")
  BY <1>1 DEF Acc005, Rule
<1>8. SpeaksOnce(Ctr001(c), 6, 0..3, 0, "none")
  BY <1>1, <1>2 DEF Ctr001, Rule
<1>9. SpeaksOnce(Dat001(c), 7, 0..3, 0, c.entry.masked)
  BY <1>1, <1>2 DEF Dat001, Rule
<1>10. SpeaksOnce(Emg001(c), 8, 0..3, 4, "none")
  BY Zenon, <1>1, <1>2 DEF Emg001, Rule
<1>11. SpeaksOnce(Off001(c), 9, 0..3, 0, "none")
  BY <1>1, <1>2 DEF Off001, Rule
<1> QED BY <1>3, <1>4, <1>5, <1>6, <1>7, <1>8, <1>9, <1>10, <1>11

(* Each rule speaks once of a case, and only rule 7 offers something else. *)
LEMMA FiredSpeakOnce ==
  ASSUME NEW c
  PROVE  /\ \A o, p \in Fired(c) : o.rule = p.rule => o = p
         /\ \A o \in Fired(c) : /\ o.rule \in Nat /\ o.rank \in 0..3 /\ o.box \in {0, 4}
                                /\ o.offer # "none" => o.rule = 7 /\ o.offer = c.entry.masked
                                /\ o.rule \in 1..9 \cap rules
<1>1. ASSUME NEW o \in Fired(c)
      PROVE  /\ o.rule \in 1..9 /\ o.rule \in rules
             /\ o.rule = 1 => o \in Acc001(c)
             /\ o.rule = 2 => o \in Acc002(c)
             /\ o.rule = 3 => o \in Acc003(c)
             /\ o.rule = 4 => o \in Acc004(c)
             /\ o.rule = 5 => o \in Acc005(c)
             /\ o.rule = 6 => o \in Ctr001(c)
             /\ o.rule = 7 => o \in Dat001(c)
             /\ o.rule = 8 => o \in Emg001(c)
             /\ o.rule = 9 => o \in Off001(c)
  <2>1. o.rule \in rules
    BY DEF Fired
  <2>2. \/ o \in Acc001(c) \/ o \in Acc002(c) \/ o \in Acc003(c) \/ o \in Acc004(c) \/ o \in Acc005(c)
        \/ o \in Ctr001(c) \/ o \in Dat001(c) \/ o \in Emg001(c) \/ o \in Off001(c)
    BY DEF Fired, OfGrants
  <2> QED BY <2>1, <2>2, EachSpeaksOnce DEF SpeaksOnce
<1>2. ASSUME NEW o \in Fired(c)
      PROVE  o.rank \in 0..3 /\ o.box \in {0, 4} /\ (o.offer # "none" => o.rule = 7 /\ o.offer = c.entry.masked)
  BY <1>1, EachSpeaksOnce DEF SpeaksOnce
<1>3. ASSUME NEW o \in Fired(c), NEW p \in Fired(c), o.rule = p.rule PROVE o = p
  <2>1. o.rule \in 1..9
    BY <1>1
  <2> QED BY <1>1, <1>3, <2>1, EachSpeaksOnce DEF SpeaksOnce
<1> QED BY <1>1, <1>2, <1>3

(* The masked view is offered by the rule that refused the raw data.       *)
LEMMA OffersAreTheRules == OffersComeFromTheRule
<1> SUFFICES ASSUME NEW offer \in Alternative(Fired(case))
             PROVE  offer = case.entry.masked /\ Resolve(Fired(case)).rule = 7
  BY DEF OffersComeFromTheRule
<1>1. PICK o \in Fired(case) : o.rule = Resolve(Fired(case)).rule /\ o.offer # "none" /\ offer = o.offer
  BY DEF Alternative
<1> QED BY <1>1, FiredSpeakOnce

(* Policy Studio tells what a rule is for.                                 *)
LEMMA StudioTellsTheTruth == StudioIsRight
<1> SUFFICES ASSUME NEW r \in rules
             PROVE  LET fired == Fired(case)
                        change == Change(Resolve(fired), Resolve(HeldOut(fired, r)))
                        spoken == {o.verdict : o \in {p \in fired : p.rule = r}}
                    IN  /\ spoken = {} => change = "none"
                        /\ change = "loosened" => spoken \subseteq {"HOLD", "REFUSE"}
                        /\ change = "tightened" => HeldOut(fired, r) = {} /\ spoken \subseteq {"ALLOW", "HOLD"}
  BY DEF StudioIsRight
<1> DEFINE fired == Fired(case)
           change == Change(Resolve(fired), Resolve(HeldOut(fired, r)))
           spoken == {o.verdict : o \in {p \in fired : p.rule = r}}
<1>1. Outcomes(fired) /\ \A o, p \in fired : o.rule = p.rule => o = p
  BY RulesSpeakPlainly, FiredSpeakOnce
<1> HIDE DEF fired
<1>2. ASSUME spoken = {} PROVE change = "none"
  <2>1. HeldOut(fired, r) = fired
    BY <1>2 DEF HeldOut
  <2>2. Resolve(fired).verdict \in {"ALLOW", "HOLD", "REFUSE"}
    BY <1>1, Strictest
  <2>3. Strictness[Resolve(fired).verdict] \in Int
    BY <2>2 DEF Strictness
  <2> QED BY <2>1, <2>3 DEF Change
<1>3. ASSUME change = "loosened" PROVE spoken \subseteq {"HOLD", "REFUSE"}
  <2>1. PICK o \in fired : o.rule = r /\ o.verdict \in {"HOLD", "REFUSE"}
    BY <1>1, <1>3, HoldingOutTellsTheTruth
  <2> QED BY <1>1, <2>1
<1>4. ASSUME change = "tightened" PROVE HeldOut(fired, r) = {} /\ spoken \subseteq {"ALLOW", "HOLD"}
  <2>1. HeldOut(fired, r) = {}
    BY <1>1, <1>4, HoldingOutTellsTheTruth
  <2>2. Outcomes({}) /\ Resolve({}).verdict = "REFUSE"
    <3>1. Outcomes({})
      BY DEF Outcomes
    <3> QED BY <3>1, Strictest
  <2>3. Resolve(fired).verdict # "REFUSE"
    <3>1. SUFFICES ASSUME Resolve(fired).verdict = "REFUSE" PROVE FALSE
      OBVIOUS
    <3>2. Resolve(HeldOut(fired, r)).verdict = "REFUSE"
      BY <2>1, <2>2
    <3> QED BY <1>4, <3>1, <3>2 DEF Change, Strictness
  <2>4. \A o \in fired : o.verdict # "REFUSE"
    BY <1>1, <2>3, Strictest
  <2> QED BY <1>1, <2>1, <2>4 DEF Outcomes
<1> QED BY <1>2, <1>3, <1>4 DEF fired

-----------------------------------------------------------------------------
(* What holds throughout: a verdict that is stamped is the one the rules   *)
(* still give; only what is held is decided, once, by the approver named.  *)
PolicyInv ==
    /\ TypeOK /\ case.kind = KindOf(case.origin)
    /\ \E s, v, r, k, a, b :
         action = [state |-> s, verdict |-> v, rule |-> r, rank |-> k, approver |-> a, box |-> b]
    /\ action.verdict = "none" => action.state = "proposed"
    /\ action.verdict # "none" =>
          /\ action.verdict = Resolve(Fired(case)).verdict /\ action.rank = Resolve(Fired(case)).rank
          /\ action.box = TimeBox(Fired(case))
          /\ action.verdict = "HOLD" => action.approver = Approver(action.rank, case)
    /\ action.state = "proposed" => action.verdict \in {"none", "ALLOW"}
    /\ action.state \in {"awaiting", "approved"} => action.verdict = "HOLD"
    /\ action.state \in {"proposed", "awaiting"} => decided = "none"
    /\ action.state = "approved" => decided \in People
    /\ ContractorsAreKeptOut /\ NobodyForHimself /\ DecisionsNeedTheRule

(* The invariant holds of a case before it is governed.                    *)
LEMMA PolicyStarts ==
  Init => PolicyInv
<1> SUFFICES ASSUME Init PROVE PolicyInv
  OBVIOUS
<1>1. PICK s \in Subjects, e \in Entries, r \in Requesters, o \in {"same_as_peer", "onboarding", "incident", "transfer"} :
         \E i \in IF o = "incident" THEN {"INC", "", Missing} ELSE {Missing} :
            case = [subject |-> s, entry |-> e, requester |-> r, origin |-> o, kind |-> KindOf(o), incident |-> i]
  BY Zenon DEF Init
<1>2. PICK i \in IF o = "incident" THEN {"INC", "", Missing} ELSE {Missing} :
         case = [subject |-> s, entry |-> e, requester |-> r, origin |-> o, kind |-> KindOf(o), incident |-> i]
  BY Zenon, <1>1
<1>3. case.kind = KindOf(case.origin) /\ case.subject \in Subjects /\ case.entry \in Entries
  BY Zenon, <1>2
<1>4. action = Undecided /\ decided = "none" /\ rules \in RuleBooks
  BY Zenon DEF Init
<1>5. action.verdict = "none" /\ action.state = "proposed"
  BY Zenon, <1>4 DEF Undecided
<1>6. TypeOK
  BY Zenon, <1>3, <1>4, <1>5 DEF TypeOK
<1> QED BY Zenon, <1>3, <1>4, <1>5, <1>6
        DEF PolicyInv, Undecided, ContractorsAreKeptOut, NobodyForHimself, DecisionsNeedTheRule

(* Neither governing nor deciding breaks the invariant.                    *)
LEMMA PolicyKeeps ==
  PolicyInv /\ [Next]_vars => PolicyInv'
<1> SUFFICES ASSUME PolicyInv, [Next]_vars PROVE PolicyInv'
  OBVIOUS
<1>1. CASE Govern
  <2> DEFINE v == Resolve(Fired(case))
  <2>1. v.verdict \in {"ALLOW", "HOLD", "REFUSE"}
    BY RulesSpeakPlainly, Strictest
  <2>2. decided = "none" /\ decided' = "none" /\ case' = case /\ rules' = rules
    BY <1>1 DEF Govern, PolicyInv
  <2>3. action'.verdict = v.verdict /\ action'.state = StateFor[v.verdict] /\ action'.rank = v.rank
        /\ action'.box = TimeBox(Fired(case))
        /\ (v.verdict = "HOLD" => action'.approver = Approver(v.rank, case))
    BY <1>1 DEF Govern
  <2>4. /\ v.verdict = "ALLOW" => action'.state = "proposed"
        /\ v.verdict = "HOLD" => action'.state = "awaiting"
        /\ v.verdict = "REFUSE" => action'.state = "refused"
    BY <2>1, <2>3 DEF StateFor
  <2>5. ContractorsAreKeptOut'
    <3>1. SUFFICES ASSUME 6 \in rules, case.kind = "grant", case.subject.employment \in Outside,
                          case.entry.class \in Barred
                   PROVE  action'.state = "refused"
      BY <2>2 DEF ContractorsAreKeptOut
    <3>2. v.verdict = "REFUSE"
      BY <3>1, ContractorsAreRefused
    <3> QED BY <2>4, <3>2
  <2>6. \E s, w, r, k, a, b :
           action' = [state |-> s, verdict |-> w, rule |-> r, rank |-> k, approver |-> a, box |-> b]
    BY <1>1 DEF Govern
  <2>7. /\ Resolve(Fired(case))' = Resolve(Fired(case)) /\ TimeBox(Fired(case))' = TimeBox(Fired(case))
        /\ Approver(action.rank, case)' = Approver(action'.rank, case)
    BY <2>2 DEF Fired, Resolve, TimeBox, Approver
  <2>8. TypeOK'
    BY <2>1, <2>2, <2>3, <2>4 DEF PolicyInv, TypeOK
  <2> HIDE DEF v
  <2>9. /\ action'.verdict # "none" /\ action'.state \in {"proposed", "awaiting", "refused"}
        /\ action'.state = "proposed" => action'.verdict = "ALLOW"
        /\ action'.state = "awaiting" => action'.verdict = "HOLD"
    BY <2>1, <2>3, <2>4
  <2>10. /\ action'.verdict = Resolve(Fired(case))'.verdict /\ action'.rank = Resolve(Fired(case))'.rank
         /\ action'.box = TimeBox(Fired(case))'
         /\ (action'.verdict = "HOLD" => action'.approver = Approver(action.rank, case)')
    BY <2>2, <2>3, <2>7 DEF v
  <2>11. case'.kind = KindOf(case'.origin)
    BY <2>2 DEF PolicyInv
  <2> QED BY <2>2, <2>5, <2>6, <2>8, <2>9, <2>10, <2>11 DEF PolicyInv, NobodyForHimself, DecisionsNeedTheRule
<1>2. ASSUME NEW by \in People, Decide(by) PROVE PolicyInv'
  <2>1. PICK state \in {"approved", "refused"} : action' = [action EXCEPT !.state = state]
    BY <1>2 DEF Decide
  <2>2. PICK s, w, r, k, a, b :
           action = [state |-> s, verdict |-> w, rule |-> r, rank |-> k, approver |-> a, box |-> b]
    BY DEF PolicyInv
  <2>3. action' = [state |-> state, verdict |-> w, rule |-> r, rank |-> k, approver |-> a, box |-> b]
    BY <2>1, <2>2
  <2>4. action.state = "awaiting" /\ action.approver = by /\ decided' = by /\ case' = case /\ rules' = rules
    BY <1>2 DEF Decide
  <2>5. 10 \in rules /\ case.requester # Unknown /\ by # case.requester /\ by # case.subject.person
    BY <1>2, DecidersAreOthers DEF Decide
  <2>6. /\ action'.verdict = action.verdict /\ action'.approver = by /\ action.verdict = "HOLD"
        /\ action'.rank = action.rank /\ action'.box = action.box /\ action'.state \in {"approved", "refused"}
    BY <2>2, <2>3, <2>4 DEF PolicyInv
  <2>7. ContractorsAreKeptOut'
    BY <2>4, <2>6 DEF PolicyInv, ContractorsAreKeptOut
  <2>8. NobodyForHimself' /\ DecisionsNeedTheRule'
    BY <2>4, <2>5, <2>6 DEF NobodyForHimself, DecisionsNeedTheRule
  <2>9. /\ Resolve(Fired(case))' = Resolve(Fired(case)) /\ TimeBox(Fired(case))' = TimeBox(Fired(case))
        /\ Approver(action.rank, case)' = Approver(action'.rank, case)
    BY <2>4 DEF Fired, Resolve, TimeBox, Approver
  <2>10. /\ action'.verdict = Resolve(Fired(case))'.verdict /\ action'.rank = Resolve(Fired(case))'.rank
         /\ action'.box = TimeBox(Fired(case))'
         /\ action'.approver = Approver(action.rank, case)'
    BY <2>4, <2>6, <2>9 DEF PolicyInv
  <2>11. TypeOK' /\ case'.kind = KindOf(case'.origin)
    BY <2>4, <2>6 DEF PolicyInv, TypeOK
  <2> QED BY <2>3, <2>4, <2>6, <2>7, <2>8, <2>10, <2>11 DEF PolicyInv
<1>3. CASE UNCHANGED vars
  BY <1>3 DEF vars, PolicyInv, TypeOK, Fired, ContractorsAreKeptOut, NobodyForHimself, DecisionsNeedTheRule
<1> QED BY <1>1, <1>2, <1>3 DEF Next

(* What is granted was allowed, or held and approved.                      *)
LEMMA GrantedNotRefused ==
  ASSUME PolicyInv, Granted
  PROVE  /\ \A o \in Fired(case) : o.verdict # "REFUSE"
         /\ action.verdict = Resolve(Fired(case)).verdict
         /\ action.verdict = "ALLOW" \/ (action.state = "approved" /\ action.verdict = "HOLD")
<1>1. action.verdict = "ALLOW" \/ (action.state = "approved" /\ action.verdict = "HOLD")
  BY DEF PolicyInv, Granted
<1>2. action.verdict = Resolve(Fired(case)).verdict
  BY <1>1 DEF PolicyInv
<1>3. Outcomes(Fired(case))
  BY RulesSpeakPlainly
<1> QED BY <1>1, <1>2, <1>3, Strictest

(* The approver of a role with a roster is on it.                          *)
LEMMA ApproverIsOnTheRoster ==
  ASSUME NEW rank \in 2..3, NEW c, Approver(rank, c) # Unknown
  PROVE  \E i \in 1..Len(Roster[Roles[rank]]) : Roster[Roles[rank]][i] = Approver(rank, c)
<1> DEFINE listed == Candidates(Roles[rank], c.subject)
           named == {i \in 1..Len(listed) : listed[i] # c.requester}
<1>1. listed = Roster[Roles[rank]]
  BY DEF Candidates, Roles
<1>2. named # {} /\ named \subseteq Nat
  BY SMT DEF Approver
<1>3. PICK i \in named : \A j \in named : i <= j
  BY <1>2, Least
<1>4. (CHOOSE k \in named : \A j \in named : k <= j) \in named
  BY <1>3
<1>5. Approver(rank, c) = listed[CHOOSE k \in named : \A j \in named : k <= j]
  BY <1>2 DEF Approver
<1> QED BY <1>1, <1>4, <1>5

(* Every hold is answered by somebody as senior as it asks for.            *)
LEMMA HoldsAreAnsweredNow ==
  ASSUME PolicyInv, {"none", Unknown} \cap People = {}
  PROVE  HoldsAreAnswered
<1> SUFFICES ASSUME Granted, NEW o \in With("HOLD", Fired(case))
             PROVE  /\ action.state = "approved" /\ o.rank <= action.rank
                    /\ action.rank > 1 =>
                          \E i \in 1..Len(Roster[Roles[action.rank]]) : Roster[Roles[action.rank]][i] = decided
  BY DEF HoldsAreAnswered
<1> DEFINE holds == With("HOLD", Fired(case))
<1>1. o \in Fired(case) /\ o.verdict = "HOLD"
  BY DEF With
<1>2. Outcomes(Fired(case))
  BY RulesSpeakPlainly
<1>3. action.state = "approved" /\ action.verdict = "HOLD" /\ Resolve(Fired(case)).verdict = "HOLD"
  BY <1>1, <1>2, GrantedNotRefused, Strictest
<1>4. With("REFUSE", Fired(case)) = {}
  BY GrantedNotRefused DEF With
<1>5. action.rank = Senior(holds).rank
  BY <1>3, <1>4 DEF PolicyInv, Resolve, Quoting
<1>6. \A p \in holds : p.rule \in Nat /\ p.rank \in 0..3
  BY FiredSpeakOnce DEF With
<1>7. o.rank <= action.rank /\ action.rank \in 0..3
  BY <1>5, <1>6, SeniorOutranks
<1>8. ASSUME action.rank > 1
      PROVE  \E i \in 1..Len(Roster[Roles[action.rank]]) : Roster[Roles[action.rank]][i] = decided
  <2>1. decided = action.approver /\ decided \in People /\ action.approver = Approver(action.rank, case)
    BY <1>3 DEF PolicyInv, NobodyForHimself
  <2>2. action.rank \in 2..3
    BY <1>7, <1>8
  <2> QED BY <2>1, <2>2, ApproverIsOnTheRoster
<1> QED BY <1>3, <1>7, <1>8

(* The bounds that the rules on peers, raw data and incidents set.         *)
LEMMA BoundsAreKeptNow ==
  ASSUME PolicyInv, {2, 7, 8} \subseteq rules, {"none", Unknown} \cap People = {}
  PROVE  BoundsAreKept
<1> SUFFICES ASSUME Grant
             PROVE  /\ case.origin = "incident" =>
                         /\ case.subject.employment = "employee" /\ case.entry.permission \in {"read", "viewer"}
                         /\ action.box \in 1..4 /\ decided # "none"
                    /\ case.origin = "same_as_peer" => case.subject.role \in case.entry.scope
                    /\ case.entry.data = "raw_pii" => case.subject.team = "data-analytics"
  BY DEF BoundsAreKept
<1> USE DEF Grant
<1>1. Granted /\ case.kind = "grant"
  OBVIOUS
<1>2. \A o \in Acc002(case) \cup Dat001(case) \cup Emg001(case) : o \in Fired(case)
  <2>1. \A o \in Acc002(case) \cup Dat001(case) \cup Emg001(case) : o.rule \in rules
    BY EachSpeaksOnce DEF SpeaksOnce
  <2> QED BY <1>1, <2>1 DEF Fired, OfGrants
<1>3. \A o \in Fired(case) : o.verdict # "REFUSE"
  BY <1>1, GrantedNotRefused
<1>4. ASSUME case.origin = "same_as_peer" PROVE case.subject.role \in case.entry.scope
  <2>1. SUFFICES ASSUME ~IsIn(case.subject.role, case.entry.scope) PROVE FALSE
    BY DEF IsIn
  <2>2. \E o \in Acc002(case) : o.verdict = "REFUSE"
    BY <1>4, <2>1 DEF Acc002, RuleOutcome, Says, Rule
  <2> QED BY <1>2, <1>3, <2>2
<1>5. ASSUME case.entry.data = "raw_pii" PROVE case.subject.team = "data-analytics"
  <2>1. SUFFICES ASSUME ~Equal(case.subject.team, "data-analytics") PROVE FALSE
    BY DEF Equal
  <2>2. Equal(case.entry.data, "raw_pii")
    BY <1>5 DEF Equal, Known, Missing
  <2>3. \E o \in Dat001(case) : o.verdict = "REFUSE"
    BY <2>1, <2>2 DEF Dat001, RuleOutcome, Says, Rule
  <2> QED BY <1>2, <1>3, <2>3
<1>6. ASSUME case.origin = "incident"
      PROVE  /\ case.subject.employment = "employee" /\ case.entry.permission \in {"read", "viewer"}
             /\ action.box \in 1..4 /\ decided # "none"
  <2> DEFINE met == /\ Equal(case.subject.employment, "employee")
                    /\ IsIn(case.entry.permission, {"read", "viewer"})
                    /\ Differs(case.incident, "")
  <2>0. ASSUME NEW spoken, NEW verdict, NEW role
        PROVE  \E o \in Says(spoken, verdict, role) : o.verdict = verdict /\ o.box = spoken.box
    BY DEF Says
  <2> DEFINE rule == [Rule(8, "HOLD", "REFUSE") EXCEPT !.approver = "incident-commander", !.box = 4]
  <2>01. rule.box = 4 /\ rule.verdict = "HOLD" /\ rule.otherwise = "REFUSE" /\ rule.approver = "incident-commander"
    BY DEF Rule
  <2>02. Emg001(case) = RuleOutcome(rule, met, FALSE)
    BY <1>6 DEF Emg001
  <2> HIDE DEF rule
  <2>1. met
    <3>1. SUFFICES ASSUME ~met PROVE FALSE
      BY Zenon
    <3>2. Emg001(case) = Says(rule, "REFUSE", "none")
      BY Zenon, <2>01, <2>02, <3>1 DEF RuleOutcome
    <3> QED BY <1>2, <1>3, <2>0, <3>2
  <2>2. PICK o \in Emg001(case) : o.verdict = "HOLD" /\ o.box = 4
    <3>1. Emg001(case) = Says(rule, "HOLD", "incident-commander")
      BY Zenon, <2>01, <2>02, <2>1 DEF RuleOutcome
    <3> QED BY <2>0, <2>01, <3>1
  <2>3. o \in Fired(case)
    BY <1>2
  <2>4. Outcomes(Fired(case))
    BY RulesSpeakPlainly
  <2>5. Resolve(Fired(case)).verdict = "HOLD"
    BY <1>3, <2>2, <2>3, <2>4, Strictest
  <2>6. action.state = "approved" /\ action.verdict = "HOLD"
    BY <1>1, <2>5, GrantedNotRefused
  <2>7. decided # "none"
    BY <2>6 DEF PolicyInv
  <2>8. action.box = TimeBox(Fired(case))
    BY <2>6 DEF PolicyInv
  <2>9. TimeBox(Fired(case)) = 4
    <3> DEFINE boxes == {p.box : p \in {q \in Fired(case) : q.verdict # "REFUSE" /\ q.box > 0}}
    <3>1. boxes = {4}
      BY <2>2, <2>3, FiredSpeakOnce
    <3>2. TimeBox(Fired(case)) = CHOOSE b \in boxes : \A other \in boxes : b <= other
      BY <2>5, <3>1 DEF TimeBox
    <3> QED BY <3>1, <3>2
  <2>10. case.subject.employment = "employee" /\ case.entry.permission \in {"read", "viewer"}
    BY Zenon, <2>1 DEF Equal, IsIn
  <2>11. action.box \in 1..4
    BY <2>8, <2>9
  <2> QED BY <2>7, <2>10, <2>11
<1> QED BY <1>4, <1>5, <1>6

(* Whoever the subjects are, whatever the catalogue holds and whatever     *)
(* else a rule book has: where the rules on peers, raw data and incidents  *)
(* are loaded and nobody is named as the program names what is unknown,    *)
(* the written rules keep all that they promise.                           *)
LEMMA WrittenRulesAreKept ==
  ASSUME \A book \in RuleBooks : {2, 7, 8} \subseteq book, {"none", Unknown} \cap People = {}
  PROVE  Spec => []PolicyIsKept
<1>1. PolicyInv => PolicyIsKept
  <2> SUFFICES ASSUME PolicyInv PROVE PolicyIsKept
    OBVIOUS
  <2>1. {2, 7, 8} \subseteq rules
    BY DEF PolicyInv, TypeOK
  <2>2. HoldsAreAnswered /\ BoundsAreKept
    BY <2>1, HoldsAreAnsweredNow, BoundsAreKeptNow
  <2> QED BY <2>2, OffersAreTheRules, StudioTellsTheTruth DEF PolicyInv, PolicyIsKept
<1> QED BY <1>1, PolicyStarts, PolicyKeeps, PTL DEF Spec

(* Without any assumption on books and names: no contractor is granted     *)
(* what the contractor rule bars, nobody decides on what they asked for or *)
(* gain by, and without the rule on deciding nothing held is ever decided. *)
THEOREM DecidingIsSafe ==
  Spec => [](TypeOK /\ ContractorsAreKeptOut /\ NobodyForHimself /\ DecisionsNeedTheRule)
<1>1. PolicyInv => TypeOK /\ ContractorsAreKeptOut /\ NobodyForHimself /\ DecisionsNeedTheRule
  BY DEF PolicyInv
<1> QED BY <1>1, PolicyStarts, PolicyKeeps, PTL DEF Spec

(* The policy is kept: no grant a written rule bars, no decision without   *)
(* its approver, for every rule book with the three rules it rests on.     *)
THEOREM PolicyHolds ==
  ASSUME \A book \in RuleBooks : {2, 7, 8} \subseteq book, {"none", Unknown} \cap People = {}
  PROVE  ServicesSpec => []PolicyIsKept
  BY EachKeepsItsOwn, WrittenRulesAreKept, PTL

-----------------------------------------------------------------------------
(* The helpdesk.  A post whose answer is lost may have landed:             *)
(* HelpdeskInv counts what each key holds against the strays, posts nobody *)
(* heard of, and those still in flight, and ties what is confirmed to what *)
(* is held.                                                                *)

(* What is under way fits its kind: where it is, what it looks for, and    *)
(* whose records it has read.                                              *)
UseFits ==
    /\ tenant \in BOOLEAN
    /\ use \in [kind : H!Kinds, at : H!Places, key : H!Keys \cup {"none"}, tries : 1..MaxTries, result : H!Results,
                mode : H!Modes, text : {"none", "catalog", "description"}, textMode : H!Modes, whoMode : H!Modes]
    /\ use.at = "object" => use.kind \in {"ticket", "record"}
    /\ use.at \in {"list", "check"} => use.kind \in H!Written \cup {"tasks"}
    /\ use.at = "post" => use.kind \in H!Written \cup {"tasks", "ticket"}
    /\ use.at = "incident" => use.kind = "ticket"
    /\ use.at = "final" => use.kind = "tasks"
    /\ use.at \in {"ticket", "items", "requester"} => use.kind = "read"
    /\ use.kind = "tasks" /\ use.at \in {"post", "check", "final"} => tenant
    /\ use.kind = "tasks" /\ use.at \in {"post", "check"} => use.key \in H!ToSet(Titles)
    /\ use.at # "done" => use.result = "none" /\ use.whoMode = "none"
    /\ use.result = "confirmed" => use.kind \in H!Written \cup {"tasks"}
    /\ use.at \in {"items", "requester"} => use.mode = H!Mode
    /\ use.at = "requester" => use.textMode = H!Mode

(* What is held fits what was written: where something is about to be      *)
(* written only strays are held, and a ticket is written once at most.     *)
HeldFits ==
    /\ held \in [H!Stores -> [H!Keys -> Nat]] /\ flying \subseteq H!Keys /\ strays \in [H!Keys -> Nat]
    /\ upsets \in 0..MaxFaults
    /\ \A k \in H!Keys : held[H!Store][k] <= 1 + strays[k]
    /\ use.at \in {"post", "incident"} => held[H!Store][H!Key] <= strays[H!Key]
    /\ use.kind # "ticket" \/ use.at # "done" => held[H!Store]["ticket"] = 0 /\ "ticket" \notin flying
    /\ held[H!Store]["ticket"] <= 1 /\ ("ticket" \in flying => held[H!Store]["ticket"] = 0)
    /\ tenant => \A k \in H!Keys : held["fixture"][k] = 0
    /\ ~tenant => flying = {}
    /\ \A k \in H!Keys : strays[k] <= upsets /\ (k \in flying => strays[k] < upsets)

HelpdeskInv == UseFits /\ HeldFits /\ H!ConfirmedIsHeld /\ H!Unmixed

(* Nothing is held or under way before a use begins.                       *)
LEMMA HelpdeskStarts == H!Given /\ H!Init => HelpdeskInv
<1> SUFFICES ASSUME H!Given, H!Init PROVE HelpdeskInv
  OBVIOUS
<1>1. PICK kind \in H!Kinds :
         use = [kind |-> kind, at |-> H!Begins(kind), key |-> "none", tries |-> 1, result |-> "none",
                mode |-> "none", text |-> "none", textMode |-> "none", whoMode |-> "none"]
  BY DEF H!Init
<1>2. UseFits
  BY <1>1 DEF H!Init, UseFits, H!Given, H!Begins, H!Kinds, H!Written, H!Places, H!Results, H!Modes, H!Keys
<1>3. HeldFits
  BY <1>1 DEF H!Init, HeldFits, H!Given, H!Begins, H!Kinds, H!Written, H!Stores, H!Keys, H!Store
<1>4. H!ConfirmedIsHeld /\ H!Unmixed
  BY <1>1 DEF H!ConfirmedIsHeld, H!Unmixed
<1> QED BY <1>2, <1>3, <1>4 DEF HelpdeskInv

(* A key that is written is one of those that things are held under.       *)
LEMMA KeyIsAKey ==
  ASSUME UseFits, use.at \in {"post", "incident", "check"}
  PROVE  H!Key \in H!Keys /\ (H!Key = "ticket" => use.kind = "ticket" \/ "ticket" \in H!ToSet(Titles))
  BY DEF UseFits, H!Key, H!Keys, H!Written, H!Kinds

(* What fails is over, or starts again by reading.                         *)
LEMMA FailingFits ==
  ASSUME H!Given, UseFits, use.at # "done", H!Fails, tenant' = tenant
  PROVE  /\ UseFits' /\ use'.kind = use.kind /\ use'.at \in {"done", "object", "list", "ticket"}
         /\ use'.result \notin {"confirmed", "request"}
         /\ use.kind = "ticket" => use'.at = "done"
<1>1. CASE use.kind \in H!Written \cup {"read"} /\ use.tries < MaxTries
  <2>1. use' = [use EXCEPT !.at = H!Again(use.kind), !.tries = use.tries + 1,
                           !.mode = "none", !.text = "none", !.textMode = "none"]
    BY <1>1 DEF H!Fails
  <2>2. use.kind # "ticket" /\ use.kind # "tasks"
    BY <1>1 DEF H!Written
  <2>3. /\ use'.kind = use.kind /\ use'.at = H!Begins(use.kind) /\ use'.tries = use.tries + 1
        /\ use'.key = use.key /\ use'.result = use.result /\ use'.whoMode = use.whoMode
        /\ use'.mode = "none" /\ use'.text = "none" /\ use'.textMode = "none"
    BY <2>1 DEF UseFits, H!Again
  <2>4. use'.tries \in 1..MaxTries
    BY <1>1, <2>3 DEF UseFits, H!Given
  <2>5. use' \in [kind : H!Kinds, at : H!Places, key : H!Keys \cup {"none"}, tries : 1..MaxTries, result : H!Results,
                  mode : H!Modes, text : {"none", "catalog", "description"}, textMode : H!Modes, whoMode : H!Modes]
    <3>1. H!Begins(use.kind) \in H!Places /\ "none" \in H!Modes
      BY DEF H!Begins, H!Places, H!Modes
    <3> QED BY <2>1, <2>4, <2>3, <3>1 DEF UseFits, H!Again
  <2>6. /\ use'.at \in {"object", "list", "ticket"}
        /\ use'.at = "object" => use.kind = "record"
        /\ use'.at = "list" => use.kind \in H!Written
        /\ use'.at = "ticket" => use.kind = "read"
    BY <1>1, <2>2, <2>3 DEF H!Begins, H!Written
  <2> QED BY <2>2, <2>3, <2>5, <2>6 DEF UseFits
<1>2. CASE ~(use.kind \in H!Written \cup {"read"} /\ use.tries < MaxTries)
  <2>1. use' = [use EXCEPT !.at = "done", !.result = "failed"]
    BY <1>2 DEF H!Fails
  <2>2. use' \in [kind : H!Kinds, at : H!Places, key : H!Keys \cup {"none"}, tries : 1..MaxTries, result : H!Results,
                  mode : H!Modes, text : {"none", "catalog", "description"}, textMode : H!Modes, whoMode : H!Modes]
    BY <2>1 DEF UseFits, H!Places, H!Results
  <2>3. use'.at = "done" /\ use'.result = "failed" /\ use'.kind = use.kind
    BY <2>1 DEF UseFits
  <2> QED BY <2>2, <2>3 DEF UseFits
<1> QED BY <1>1, <1>2

(* Nothing written: what is held still fits where nothing is about to be.  *)
LEMMA NothingWritten ==
  ASSUME H!Given, HeldFits, H!Quiet, upsets' = upsets \/ H!Fault, use'.kind = use.kind, use.at # "done",
         use'.at \notin {"post", "incident"}
  PROVE  HeldFits'
<1>1. held' = held /\ flying' = flying /\ strays' = strays /\ tenant' = tenant /\ H!Store' = H!Store
  BY DEF H!Quiet, H!Store
<1>2. upsets' \in 0..MaxFaults /\ upsets <= upsets'
  BY DEF H!Fault, HeldFits, H!Given
<1>3. \A k \in H!Keys : strays[k] \in Nat
  BY DEF HeldFits
<1> QED BY <1>1, <1>2, <1>3 DEF HeldFits

(* What was confirmed stays held, and what was read stays one system's.    *)
LEMMA ReportsStand ==
  ASSUME HelpdeskInv, UseFits', tenant' = tenant, use'.kind = use.kind, H!Quiet,
         use'.result \in {"confirmed", "request"} => use' = use
  PROVE  H!ConfirmedIsHeld' /\ H!Unmixed'
<1>1. held' = held /\ H!Store' = H!Store /\ H!Mode' = H!Mode /\ H!Wanted' = H!Wanted
  BY DEF H!Quiet, H!Store, H!Mode, H!Wanted
<1>2. H!ConfirmedIsHeld'
  BY <1>1 DEF HelpdeskInv, H!ConfirmedIsHeld
<1>3. H!Unmixed'
  BY <1>1 DEF HelpdeskInv, H!Unmixed
<1> QED BY <1>2, <1>3

(* A step that fails, having written nothing, is sound.                    *)
LEMMA FailingIsSound ==
  ASSUME H!Given, HelpdeskInv, use.at # "done", H!Fails, H!Quiet, upsets' = upsets \/ H!Fault
  PROVE  HelpdeskInv'
<1>1. tenant' = tenant
  BY DEF H!Quiet
<1>2. /\ UseFits' /\ use'.kind = use.kind /\ use'.at \notin {"post", "incident"}
      /\ use'.result \notin {"confirmed", "request"}
  BY <1>1, FailingFits DEF HelpdeskInv
<1>3. HeldFits'
  BY <1>2, NothingWritten DEF HelpdeskInv
<1>4. H!ConfirmedIsHeld' /\ H!Unmixed'
  BY <1>1, <1>2, ReportsStand
<1> QED BY <1>2, <1>3, <1>4 DEF HelpdeskInv

(* Keys that are missing are keys, and nothing is held under them.         *)
LEMMA MissingIsNotHeld ==
  ASSUME H!Given, HelpdeskInv, use.kind \in H!Written \cup {"tasks"}
  PROVE  /\ H!Missing = {} => \A k \in H!ToSet(H!Wanted) : held[H!Store][k] > 0
         /\ H!Missing # {} => H!NextMissing \in H!ToSet(H!Wanted) /\ held[H!Store][H!NextMissing] = 0
         /\ H!ToSet(H!Wanted) \subseteq H!Keys
         /\ use.kind = "tasks" => H!ToSet(H!Wanted) = H!ToSet(Titles)
         /\ use.kind # "tasks" => H!ToSet(H!Wanted) = {use.kind}
<1>1. H!Wanted \in Seq(H!Keys) /\ (use.kind = "tasks" => H!Wanted = Titles) /\ (use.kind # "tasks" => H!Wanted = <<use.kind>>)
  <2>1. CASE use.kind = "tasks"
    <3>1. H!ToSet(Titles) \subseteq H!Keys
      BY DEF H!Keys
    <3>2. Titles \in Seq(H!Keys)
      BY <3>1, SeqMonotonic DEF H!Given
    <3> QED BY <2>1, <3>2 DEF H!Wanted
  <2>2. CASE use.kind # "tasks"
    <3>1. use.kind \in H!Keys
      BY <2>2 DEF HelpdeskInv, UseFits, H!Keys
    <3> QED BY <2>2, <3>1 DEF H!Wanted
  <2> QED BY <2>1, <2>2
<1>2. H!ToSet(H!Wanted) = {H!Wanted[i] : i \in 1..Len(H!Wanted)} /\ \A i \in 1..Len(H!Wanted) : H!Wanted[i] \in H!Keys
  BY <1>1 DEF H!ToSet
<1>3. \A k \in H!Keys : held[H!Store][k] \in Nat
  BY DEF HelpdeskInv, HeldFits, H!Store, H!Stores
<1>4. ASSUME H!Missing = {} PROVE \A k \in H!ToSet(H!Wanted) : held[H!Store][k] > 0
  BY <1>2, <1>3, <1>4 DEF H!Missing
<1>5. ASSUME H!Missing # {} PROVE H!NextMissing \in H!ToSet(H!Wanted) /\ held[H!Store][H!NextMissing] = 0
  <2>1. H!Missing \subseteq Nat
    BY DEF H!Missing
  <2>2. PICK i \in H!Missing : \A j \in H!Missing : i <= j
    BY <1>5, <2>1, Least
  <2>3. (CHOOSE k \in H!Missing : \A j \in H!Missing : k <= j) \in H!Missing
    BY <2>2
  <2> QED BY <1>2, <2>3 DEF H!NextMissing, H!Missing
<1>6. H!ToSet(H!Wanted) \subseteq H!Keys
  BY <1>2
<1>7. use.kind = "tasks" => H!ToSet(H!Wanted) = H!ToSet(Titles)
  BY <1>1
<1>8. use.kind # "tasks" => H!ToSet(H!Wanted) = {use.kind}
  <2> SUFFICES ASSUME use.kind # "tasks" PROVE H!ToSet(H!Wanted) = {use.kind}
    OBVIOUS
  <2>1. H!Wanted = <<use.kind>> /\ Len(H!Wanted) = 1 /\ H!Wanted[1] = use.kind
    BY <1>1
  <2>2. 1..Len(H!Wanted) = {1}
    BY <2>1
  <2> QED BY <1>2, <2>1, <2>2
<1> QED BY <1>4, <1>5, <1>6, <1>7, <1>8

(* What is reported as confirmed, or not, once all of it was looked for.   *)
LEMMA ReportingIsSound ==
  ASSUME H!Given, HelpdeskInv, use.at \in {"list", "check", "final"}, H!Quiet, UNCHANGED upsets,
         NEW result \in {"confirmed", "unconfirmed"}, H!Returns(result),
         result = "confirmed" => \A k \in H!ToSet(H!Wanted) : held[H!Store][k] > 0
  PROVE  HelpdeskInv'
<1> USE DEF HelpdeskInv
<1>1. tenant' = tenant /\ H!Store' = H!Store /\ held' = held
  BY DEF H!Quiet, H!Store
<1>2. /\ use'.kind = use.kind /\ use'.at = "done" /\ use'.result = result /\ H!Wanted' = H!Wanted
      /\ use.kind \in H!Written \cup {"tasks"}
  BY DEF H!Returns, UseFits, H!Wanted
<1>3. UseFits'
  <2>1. H!Mode \in H!Modes
    BY DEF H!Mode, H!Modes
  <2> QED BY <1>1, <1>2, <2>1 DEF UseFits, H!Returns, H!Places, H!Results
<1>4. HeldFits'
  BY <1>2, NothingWritten
<1>5. H!ConfirmedIsHeld' /\ H!Unmixed'
  BY <1>1, <1>2 DEF H!ConfirmedIsHeld, H!Unmixed
<1> QED BY <1>3, <1>4, <1>5

(* Steps that write nothing and move what is under way.                    *)
LEMMA LookingIsSound ==
  ASSUME H!Given, HelpdeskInv, H!FindObject \/ H!List \/ H!NoTenant \/ H!Forbidden \/ H!Final
  PROVE  HelpdeskInv'
<1> USE DEF HelpdeskInv
<1>1. ASSUME H!FindObject PROVE HelpdeskInv'
  <2>1. CASE (H!Refused /\ H!Fails) \/ (H!Fails /\ UNCHANGED upsets)
    BY <1>1, <2>1, FailingIsSound DEF H!FindObject, H!Refused
  <2>2. CASE H!Goes(IF use.kind = "ticket" THEN "post" ELSE "list") /\ UNCHANGED upsets
    <3>1. tenant' = tenant /\ use.at = "object" /\ H!Quiet /\ H!Store' = H!Store
      BY <1>1 DEF H!FindObject, H!Quiet, H!Store
    <3>2. use.kind \in {"ticket", "record"}
      BY <3>1 DEF UseFits
    <3>3. /\ use'.kind = use.kind /\ use'.at = (IF use.kind = "ticket" THEN "post" ELSE "list")
          /\ use'.result = "none" /\ use'.whoMode = "none"
      BY <2>2, <3>1 DEF H!Goes, UseFits
    <3>4. UseFits'
      BY <2>2, <3>1, <3>2, <3>3 DEF UseFits, H!Goes, H!Places, H!Written
    <3>5. HeldFits'
      <4>1. CASE use.kind = "record"
        <5>1. use'.at \notin {"post", "incident"}
          BY <3>3, <4>1
        <5> QED BY <2>2, <3>1, <3>3, <5>1, NothingWritten
      <4>2. CASE use.kind = "ticket"
        <5>1. H!Key' = "ticket" /\ "ticket" \in H!Keys
          BY <3>3, <4>2 DEF H!Key, H!Keys
        <5>2. held[H!Store]["ticket"] = 0 /\ strays["ticket"] \in Nat
          BY <3>1, <5>1 DEF HeldFits
        <5> QED BY <2>2, <3>1, <3>3, <4>2, <5>1, <5>2 DEF HeldFits, H!Quiet
      <4> QED BY <3>2, <4>1, <4>2
    <3> QED BY <3>1, <3>3, <3>4, <3>5, ReportsStand
  <2> QED BY <1>1, <2>1, <2>2 DEF H!FindObject
<1>2. ASSUME H!List PROVE HelpdeskInv'
  <2>0. use.at = "list" /\ (use.kind = "tasks" => tenant)
    BY <1>2 DEF H!List
  <2>1. CASE H!ReadFails
    BY <2>0, <2>1, FailingIsSound DEF H!ReadFails, H!Refused
  <2>2. CASE H!Missing = {} /\ H!Returns("confirmed") /\ UNCHANGED upsets /\ H!Quiet
    BY <2>0, <2>2, MissingIsNotHeld, ReportingIsSound DEF UseFits
  <2>3. CASE H!Missing # {} /\ use' = [use EXCEPT !.at = "post", !.key = H!NextMissing] /\ UNCHANGED upsets /\ H!Quiet
    <3>1. tenant' = tenant /\ H!Store' = H!Store /\ held' = held /\ flying' = flying /\ strays' = strays /\ upsets' = upsets
      BY <2>3 DEF H!Quiet, H!Store
    <3>2. /\ use'.kind = use.kind /\ use'.at = "post" /\ use'.key = H!NextMissing /\ use'.result = "none"
          /\ use'.whoMode = "none" /\ use.kind \in H!Written \cup {"tasks"}
      BY <2>0, <2>3 DEF UseFits
    <3>3. H!NextMissing \in H!ToSet(H!Wanted) /\ held[H!Store][H!NextMissing] = 0 /\ H!ToSet(H!Wanted) \subseteq H!Keys
          /\ (use.kind = "tasks" => H!ToSet(H!Wanted) = H!ToSet(Titles))
          /\ (use.kind # "tasks" => H!ToSet(H!Wanted) = {use.kind})
      BY <2>0, <2>3, MissingIsNotHeld DEF UseFits
    <3>4. UseFits'
      BY <2>0, <2>3, <3>1, <3>2, <3>3 DEF UseFits, H!Places
    <3>5. H!Key' = H!NextMissing
      BY <3>2, <3>3 DEF H!Key
    <3>6. HeldFits'
      <4>1. held[H!Store][H!NextMissing] <= strays[H!NextMissing]
        BY <3>3 DEF HeldFits
      <4>2. use.kind # "ticket"
        BY <3>2 DEF H!Written
      <4> QED BY <3>1, <3>2, <3>5, <4>1, <4>2 DEF HeldFits
    <3> QED BY <2>3, <3>1, <3>2, <3>4, <3>6, ReportsStand
  <2> QED BY <1>2, <2>1, <2>2, <2>3 DEF H!List
<1>3. ASSUME H!NoTenant PROVE HelpdeskInv'
  BY <1>3, FailingIsSound DEF H!NoTenant
<1>4. ASSUME H!Forbidden PROVE HelpdeskInv'
  <2>1. /\ use.kind = "ticket" /\ use.at \in {"object", "post"} /\ H!Fault /\ H!Quiet /\ tenant' = tenant /\ H!Store' = H!Store
        /\ use' = [use EXCEPT !.at = "incident"]
    BY <1>4 DEF H!Forbidden, H!Goes, H!Quiet, H!Store
  <2>2. use'.kind = use.kind /\ use'.at = "incident" /\ use'.result = "none" /\ use'.whoMode = "none"
    BY <2>1 DEF UseFits
  <2>3. UseFits'
    BY <2>1, <2>2 DEF UseFits, H!Places
  <2>4. upsets' \in 0..MaxFaults /\ upsets <= upsets'
    BY <2>1 DEF H!Fault, HeldFits, H!Given
  <2>5. HeldFits'
    <3>1. H!Key' = "ticket" /\ "ticket" \in H!Keys
      BY <2>1, <2>2 DEF H!Key, H!Keys
    <3>2. held[H!Store]["ticket"] = 0 /\ strays["ticket"] \in Nat
      BY <2>1, <3>1 DEF HeldFits
    <3>3. held' = held /\ flying' = flying /\ strays' = strays /\ \A k \in H!Keys : strays[k] \in Nat
      BY <2>1 DEF H!Quiet, HeldFits
    <3> QED BY <2>1, <2>2, <2>4, <3>1, <3>2, <3>3 DEF HeldFits
  <2> QED BY <2>1, <2>2, <2>3, <2>5, ReportsStand
<1>5. ASSUME H!Final PROVE HelpdeskInv'
  <2>0. use.at = "final" /\ use.kind = "tasks"
    BY <1>5 DEF H!Final, UseFits
  <2>1. CASE H!ReadFails
    BY <2>0, <2>1, FailingIsSound DEF H!ReadFails, H!Refused
  <2>2. CASE H!Missing # {} /\ H!Fails /\ UNCHANGED upsets /\ H!Quiet
    BY <2>0, <2>2, FailingIsSound
  <2>3. CASE H!Missing = {} /\ H!Returns("confirmed") /\ UNCHANGED upsets /\ H!Quiet
    BY <2>0, <2>3, MissingIsNotHeld, ReportingIsSound DEF UseFits
  <2> QED BY <1>5, <2>1, <2>2, <2>3 DEF H!Final
<1> QED BY <1>1, <1>2, <1>3, <1>4, <1>5

(* A write that is acknowledged: a ticket and an approval are done.        *)
LEMMA AcknowledgedFits ==
  ASSUME UseFits, use.at \in {"post", "incident"}, H!Acknowledged, tenant' = tenant
  PROVE  /\ UseFits' /\ use'.kind = use.kind /\ use'.at \in {"done", "check"}
         /\ use'.result \notin {"confirmed", "request"}
         /\ use.kind = "ticket" => use'.at = "done"
<1>1. use.kind \in H!Written \cup {"tasks", "ticket"} /\ (use.at = "incident" => use.kind = "ticket")
  BY DEF UseFits
<1>2. H!Mode \in H!Modes
  BY DEF H!Mode, H!Modes
<1>3. CASE use.kind = "ticket"
  <2>1. use' = [use EXCEPT !.at = "done", !.result = "placed", !.mode = H!Mode]
    BY <1>3 DEF H!Acknowledged, H!Returns
  <2> QED BY <1>2, <1>3, <2>1 DEF UseFits, H!Places, H!Results
<1>4. CASE use.kind = "approval"
  <2>1. use' = [use EXCEPT !.at = "done", !.result = "unconfirmed", !.mode = H!Mode]
    BY <1>4 DEF H!Acknowledged, H!Returns
  <2> QED BY <1>2, <1>4, <2>1 DEF UseFits, H!Places, H!Results
<1>5. CASE use.kind \notin {"ticket", "approval"}
  <2>1. use' = [use EXCEPT !.at = "check"]
    BY <1>5 DEF H!Acknowledged, H!Goes
  <2> QED BY <1>1, <1>5, <2>1 DEF UseFits, H!Places
<1> QED BY <1>3, <1>4, <1>5

(* A write nobody knows the outcome of: a task is looked for.              *)
LEMMA UncertainFits ==
  ASSUME H!Given, UseFits, use.at \in {"post", "incident"}, H!Uncertain, tenant' = tenant
  PROVE  /\ UseFits' /\ use'.kind = use.kind /\ use'.at \notin {"post", "incident"}
         /\ use'.result \notin {"confirmed", "request"}
         /\ use.kind = "ticket" => use'.at = "done"
<1>1. CASE use.kind = "tasks"
  <2>1. use' = [use EXCEPT !.at = "check"]
    BY <1>1 DEF H!Uncertain, H!Goes
  <2> QED BY <1>1, <2>1 DEF UseFits, H!Places
<1>2. CASE use.kind # "tasks"
  BY <1>2, FailingFits DEF H!Uncertain
<1> QED BY <1>1, <1>2

(* Writing once where only strays are held.                                *)
LEMMA WritingFits ==
  ASSUME H!Given, UseFits, HeldFits, use.at \in {"post", "incident"}, NEW times \in {0, 1}, H!Holds(times),
         tenant' = tenant, flying' = flying, strays' = strays, upsets' = upsets \/ H!Fault,
         use'.kind = use.kind, use'.at \notin {"post", "incident"}, use.kind = "ticket" => use'.at = "done"
  PROVE  HeldFits'
<1>1. H!Key \in H!Keys /\ (H!Key = "ticket" => use.kind = "ticket")
  BY KeyIsAKey DEF H!Given
<1>2. H!Store \in H!Stores /\ H!Store' = H!Store /\ (tenant => H!Store # "fixture")
  BY DEF H!Store, H!Stores
<1>3. upsets' \in 0..MaxFaults /\ upsets <= upsets'
  BY DEF H!Fault, HeldFits, H!Given
<1>4. \A k \in H!Keys : held[H!Store][k] \in Nat /\ strays[k] \in Nat
  BY <1>2 DEF HeldFits
<1>5. held' \in [H!Stores -> [H!Keys -> Nat]]
  BY <1>1, <1>2 DEF H!Holds, HeldFits
<1>6. \A k \in H!Keys : held'[H!Store][k] = IF k = H!Key THEN held[H!Store][k] + times ELSE held[H!Store][k]
  BY <1>1, <1>2 DEF H!Holds, HeldFits
<1>7. held[H!Store][H!Key] <= strays[H!Key] /\ \A k \in H!Keys : held[H!Store][k] <= 1 + strays[k]
  BY DEF HeldFits
<1>8. \A k \in H!Keys : held'[H!Store][k] <= 1 + strays[k]
  BY <1>1, <1>4, <1>6, <1>7
<1>9. tenant => \A k \in H!Keys : held'["fixture"][k] = 0
  BY <1>1, <1>2 DEF H!Holds, HeldFits, H!Stores
<1>10. held[H!Store]["ticket"] = 0 /\ "ticket" \notin flying /\ "ticket" \in H!Keys
  BY DEF HeldFits, H!Keys
<1>11. held'[H!Store]["ticket"] <= 1 /\ (use.kind # "ticket" => held'[H!Store]["ticket"] = 0)
  BY <1>1, <1>6, <1>10
<1> QED BY <1>2, <1>3, <1>4, <1>5, <1>8, <1>9, <1>10, <1>11 DEF HeldFits

(* A post lands once, later or never, and its answer may be lost.          *)
LEMMA PostingIsSound ==
  ASSUME H!Given, HelpdeskInv, H!Post
  PROVE  HelpdeskInv'
<1> USE DEF HelpdeskInv
<1>1. use.at \in {"post", "incident"} /\ tenant' = tenant
  BY DEF H!Post
<1>2. ASSUME use'.result \notin {"confirmed", "request"} PROVE H!ConfirmedIsHeld' /\ H!Unmixed'
  BY <1>2 DEF H!ConfirmedIsHeld, H!Unmixed
<1>3. CASE H!Holds(1) /\ H!Acknowledged /\ UNCHANGED <<flying, strays, upsets>>
  BY <1>1, <1>2, <1>3, AcknowledgedFits, WritingFits
<1>4. CASE H!Fault /\ H!Acknowledged /\ UNCHANGED <<held, flying, strays>>
  <2>1. /\ UseFits' /\ use'.kind = use.kind /\ use'.at \notin {"post", "incident"}
        /\ use'.result \notin {"confirmed", "request"}
    BY <1>1, <1>4, AcknowledgedFits
  <2> QED BY <1>1, <1>2, <1>4, <2>1, NothingWritten DEF H!Quiet
<1>5. CASE H!Refused /\ H!Fails /\ UNCHANGED <<held, flying, strays>>
  BY <1>1, <1>5, FailingIsSound DEF H!Quiet, H!Refused
<1>6. ASSUME NEW landed \in {0, 1}, H!Fault, H!Holds(landed), H!Uncertain, UNCHANGED <<flying, strays>> PROVE HelpdeskInv'
  BY <1>1, <1>2, <1>6, UncertainFits, WritingFits
<1>7. CASE H!Fault /\ H!Uncertain /\ flying' = flying \cup {H!Key} /\ UNCHANGED <<held, strays>>
  <2>1. /\ UseFits' /\ use'.kind = use.kind /\ use'.at \notin {"post", "incident"}
        /\ use'.result \notin {"confirmed", "request"} /\ (use.kind = "ticket" => use'.at = "done")
    BY <1>1, <1>7, UncertainFits
  <2>2. H!Key \in H!Keys /\ (H!Key = "ticket" => use.kind = "ticket")
    BY <1>1, KeyIsAKey DEF H!Given
  <2>3. tenant /\ upsets' = upsets + 1 /\ upsets' \in 0..MaxFaults /\ upsets \in Nat
    BY <1>7 DEF H!Fault, HeldFits, H!Given
  <2>4. H!Store' = H!Store /\ H!Store \in H!Stores
    BY <1>1 DEF H!Store, H!Stores
  <2>5. "ticket" \in H!Keys /\ held[H!Store]["ticket"] = 0 /\ "ticket" \notin flying
    BY <1>1 DEF HeldFits, H!Keys
  <2>6. \A k \in H!Keys : strays[k] \in Nat
    BY DEF HeldFits
  <2>7. HeldFits'
    BY <1>1, <1>7, <2>1, <2>2, <2>3, <2>4, <2>5, <2>6 DEF HeldFits
  <2> QED BY <1>2, <2>1, <2>7
<1> QED BY <1>3, <1>4, <1>5, <1>6, <1>7 DEF H!Post

(* A request that lands late is a stray.                                   *)
LEMMA LandingIsSound ==
  ASSUME H!Given, HelpdeskInv, H!Land
  PROVE  HelpdeskInv'
<1> USE DEF HelpdeskInv
<1>1. PICK k \in flying :
         /\ flying' = flying \ {k} /\ strays' = [strays EXCEPT ![k] = @ + 1]
         /\ held' = [held EXCEPT !["tenant"][k] = @ + 1]
         /\ UNCHANGED <<tenant, use, upsets>>
  BY DEF H!Land
<1>2. tenant /\ H!Store = "tenant" /\ H!Store' = H!Store /\ k \in H!Keys /\ "tenant" \in H!Stores /\ "fixture" \in H!Stores
  BY <1>1 DEF HeldFits, UseFits, H!Store, H!Stores
<1>3. UseFits'
  BY <1>1 DEF UseFits, H!Mode
<1>4. \A j \in H!Keys : /\ held["tenant"][j] \in Nat /\ strays[j] \in Nat
                        /\ held'["tenant"][j] = IF j = k THEN held["tenant"][j] + 1 ELSE held["tenant"][j]
                        /\ strays'[j] = IF j = k THEN strays[j] + 1 ELSE strays[j]
  BY <1>1, <1>2 DEF HeldFits
<1>5. HeldFits'
  <2>1. held' \in [H!Stores -> [H!Keys -> Nat]] /\ strays' \in [H!Keys -> Nat] /\ flying' \subseteq H!Keys
    BY <1>1, <1>2 DEF HeldFits
  <2>2. \A j \in H!Keys : held'["fixture"][j] = 0
    BY <1>1, <1>2 DEF HeldFits
  <2>3. \A j \in H!Keys : held["tenant"][j] <= 1 + strays[j] /\ strays[j] <= upsets /\ (j \in flying => strays[j] < upsets)
    BY <1>2 DEF HeldFits
  <2>4. \A j \in H!Keys : held'["tenant"][j] <= 1 + strays'[j]
    BY <1>4, <2>3
  <2>5. \A j \in H!Keys : strays'[j] <= upsets /\ (j \in flying' => strays'[j] < upsets)
    <3>1. upsets \in Nat
      BY DEF HeldFits
    <3> QED BY <1>1, <1>4, <2>3, <3>1
  <2>6. ASSUME use.at \in {"post", "incident"} PROVE held'["tenant"][H!Key] <= strays'[H!Key]
    <3>1. H!Key \in H!Keys /\ held["tenant"][H!Key] <= strays[H!Key]
      BY <1>2, <2>6, KeyIsAKey DEF HeldFits
    <3> QED BY <1>4, <3>1
  <2>7. /\ use.kind # "ticket" \/ use.at # "done" => held'["tenant"]["ticket"] = 0 /\ "ticket" \notin flying'
        /\ held'["tenant"]["ticket"] <= 1 /\ ("ticket" \in flying' => held'["tenant"]["ticket"] = 0)
    <3>1. "ticket" \in H!Keys
      BY DEF H!Keys
    <3> QED BY <1>1, <1>2, <1>4, <3>1 DEF HeldFits
  <2>8. H!Key' = H!Key /\ upsets' = upsets /\ use' = use /\ tenant' = tenant
    BY <1>1 DEF H!Key
  <2> QED BY <1>2, <2>1, <2>2, <2>4, <2>5, <2>6, <2>7, <2>8 DEF HeldFits
<1>6. H!ConfirmedIsHeld'
  <2>1. SUFFICES ASSUME use.result = "confirmed", NEW j \in H!ToSet(H!Wanted) PROVE held'["tenant"][j] > 0
    BY <1>1, <1>2 DEF H!ConfirmedIsHeld, H!Wanted
  <2>2. held["tenant"][j] > 0 /\ j \in H!Keys
    BY <1>2, <2>1, MissingIsNotHeld DEF H!ConfirmedIsHeld, UseFits
  <2> QED BY <1>4, <2>2
<1>7. H!Unmixed'
  BY <1>1 DEF H!Unmixed, H!Mode
<1> QED BY <1>3, <1>5, <1>6, <1>7

(* A read-back tells what the tenant or the fixture holds.                 *)
LEMMA CheckingIsSound ==
  ASSUME H!Given, HelpdeskInv, H!Check
  PROVE  HelpdeskInv'
<1> USE DEF HelpdeskInv
<1>1. use.at = "check" /\ use.kind \in H!Written \cup {"tasks"}
  BY DEF H!Check, UseFits
<1>2. CASE H!ReadFails
  BY <1>1, <1>2, FailingIsSound DEF H!ReadFails, H!Refused
<1>3. CASE use.kind # "tasks" /\ H!Returns(IF H!Seen THEN "confirmed" ELSE "unconfirmed") /\ UNCHANGED upsets /\ H!Quiet
  <2>1. H!ToSet(H!Wanted) = {use.kind} /\ H!Key = use.kind
    BY <1>1, <1>3, MissingIsNotHeld DEF H!Key
  <2>2. H!Seen => \A k \in H!ToSet(H!Wanted) : held[H!Store][k] > 0
    BY <2>1 DEF H!Seen
  <2>3. CASE H!Seen
    BY <1>1, <1>3, <2>2, <2>3, ReportingIsSound
  <2>4. CASE ~H!Seen
    BY <1>1, <1>3, <2>4, ReportingIsSound
  <2> QED BY <2>3, <2>4
<1>4. CASE use.kind = "tasks" /\ ~H!Seen /\ H!Fails /\ UNCHANGED upsets /\ H!Quiet
  BY <1>1, <1>4, FailingIsSound
<1>5. CASE /\ use.kind = "tasks" /\ H!Seen /\ UNCHANGED upsets /\ H!Quiet
           /\ use' = IF H!Missing = {} THEN [use EXCEPT !.at = "final"]
                                     ELSE [use EXCEPT !.at = "post", !.key = H!NextMissing]
  <2>1. tenant' = tenant /\ H!Store' = H!Store /\ held' = held /\ flying' = flying /\ strays' = strays /\ upsets' = upsets
    BY <1>5 DEF H!Quiet, H!Store
  <2>2. CASE H!Missing = {}
    <3>1. use'.at = "final" /\ use'.kind = use.kind /\ use'.result = "none" /\ UseFits'
      BY <1>1, <1>5, <2>1, <2>2 DEF UseFits, H!Places
    <3> QED BY <1>1, <1>5, <2>1, <3>1, NothingWritten, ReportsStand
  <2>3. CASE H!Missing # {}
    <3>1. use'.at = "post" /\ use'.kind = use.kind /\ use'.result = "none" /\ use'.key = H!NextMissing
      BY <1>1, <1>5, <2>3 DEF UseFits
    <3>2. H!NextMissing \in H!ToSet(Titles) /\ held[H!Store][H!NextMissing] = 0 /\ H!NextMissing \in H!Keys
      BY <1>1, <1>5, <2>3, MissingIsNotHeld DEF H!Keys
    <3>3. UseFits'
      BY <1>1, <1>5, <2>1, <2>3, <3>1, <3>2 DEF UseFits, H!Places
    <3>4. HeldFits'
      <4>1. H!Key' = H!NextMissing
        BY <1>5, <3>1 DEF H!Key
      <4>2. held[H!Store][H!NextMissing] <= strays[H!NextMissing]
        BY <3>2 DEF HeldFits
      <4> QED BY <1>5, <2>1, <3>1, <4>1, <4>2 DEF HeldFits
    <3> QED BY <1>5, <2>1, <3>1, <3>3, <3>4, ReportsStand
  <2> QED BY <2>2, <2>3
<1> QED BY <1>2, <1>3, <1>4, <1>5 DEF H!Check

(* Reading a ticket writes nothing, and keeps to one system.               *)
LEMMA ReadingIsSound ==
  ASSUME H!Given, HelpdeskInv, H!ReadTicket \/ H!ReadItems \/ H!ReadRequester
  PROVE  HelpdeskInv'
<1> USE DEF HelpdeskInv
<1>1. use.at \in {"ticket", "items", "requester"} /\ use.kind = "read" /\ H!Quiet /\ tenant' = tenant /\ H!Mode' = H!Mode
  <2>1. use.at \in {"ticket", "items", "requester"} /\ H!Quiet
    BY Zenon DEF H!ReadTicket, H!ReadItems, H!ReadRequester
  <2> QED BY <2>1 DEF UseFits, H!Quiet, H!Mode
<1>2. \A mode : H!ReadFrom(mode) => upsets' = upsets \/ H!Fault
  BY DEF H!ReadFrom, H!Refused
<1>3. ASSUME upsets' = upsets \/ H!Fault, UseFits', use'.at \notin {"post", "incident"}, use'.kind = use.kind,
             use'.result # "confirmed", H!Unmixed'
      PROVE  HelpdeskInv'
  <2>1. HeldFits'
    BY <1>1, <1>3, NothingWritten
  <2> QED BY <1>3, <2>1 DEF H!ConfirmedIsHeld
<1>4. ASSUME upsets' = upsets \/ H!Fault, H!Fails PROVE HelpdeskInv'
  BY <1>1, <1>4, FailingIsSound
<1>5. ASSUME H!ReadTicket PROVE HelpdeskInv'
  <2>0. use.at = "ticket"
    BY Zenon, <1>5 DEF H!ReadTicket
  <2>1. PICK mode \in H!Modes :
           /\ H!ReadFrom(mode)
           /\ IF mode # "none" /\ H!OfTheTenant(mode) THEN use' = [use EXCEPT !.at = "items", !.mode = mode] ELSE H!Fails
    BY Zenon, <1>5 DEF H!ReadTicket
  <2>2. CASE mode # "none" /\ H!OfTheTenant(mode)
    <3>1. mode = H!Mode
      BY <2>1, <2>2 DEF H!ReadFrom, H!OfTheTenant, H!Mode
    <3>2. use' = [use EXCEPT !.at = "items", !.mode = mode]
      BY <2>1, <2>2
    <3>3. UseFits' /\ use'.at = "items" /\ use'.kind = use.kind /\ use'.result = "none"
      BY <1>1, <2>0, <3>1, <3>2 DEF UseFits, H!Places
    <3> QED BY <1>2, <1>3, <2>1, <3>3 DEF H!Unmixed
  <2> QED BY <1>2, <1>4, <2>1, <2>2
<1>6. ASSUME H!ReadItems PROVE HelpdeskInv'
  <2>0. use.at = "items" /\ use.mode = H!Mode
    BY Zenon, <1>6 DEF H!ReadItems, UseFits
  <2>1. PICK mode \in H!Modes, texts \in {0, 1, 2}, described \in BOOLEAN :
           /\ H!ReadFrom(mode)
           /\ LET found == IF mode = use.mode THEN texts ELSE 0 IN
              \/ found = 1 /\ use' = [use EXCEPT !.at = "requester", !.text = "catalog", !.textMode = mode]
              \/ /\ found = 0 /\ described
                 /\ use' = [use EXCEPT !.at = "requester", !.text = "description", !.textMode = use.mode]
              \/ (found = 2 \/ (found = 0 /\ ~described)) /\ H!Fails
    BY Zenon, <1>6 DEF H!ReadItems
  <2>2. \/ H!Fails
        \/ use' = [use EXCEPT !.at = "requester", !.text = "catalog", !.textMode = H!Mode]
        \/ use' = [use EXCEPT !.at = "requester", !.text = "description", !.textMode = H!Mode]
    <3> DEFINE found == IF mode = use.mode THEN texts ELSE 0
    <3>1. found = 1 => mode = H!Mode
      BY <2>0
    <3>2. \/ found = 1 /\ use' = [use EXCEPT !.at = "requester", !.text = "catalog", !.textMode = mode]
          \/ use' = [use EXCEPT !.at = "requester", !.text = "description", !.textMode = use.mode]
          \/ H!Fails
      BY <2>1
    <3> HIDE DEF found
    <3> QED BY <2>0, <3>1, <3>2
  <2>3. ASSUME NEW text \in {"catalog", "description"},
               use' = [use EXCEPT !.at = "requester", !.text = text, !.textMode = H!Mode]
        PROVE  HelpdeskInv'
    <3>1. H!Mode \in H!Modes
      BY DEF H!Mode, H!Modes
    <3>2. UseFits' /\ use'.at = "requester" /\ use'.kind = use.kind /\ use'.result = "none"
      BY <1>1, <2>0, <2>3, <3>1 DEF UseFits, H!Places
    <3> QED BY <1>2, <1>3, <2>1, <3>2 DEF H!Unmixed
  <2> QED BY <1>2, <1>4, <2>1, <2>2, <2>3
<1>7. ASSUME H!ReadRequester PROVE HelpdeskInv'
  <2>0. use.at = "requester" /\ use.mode = H!Mode /\ use.textMode = H!Mode /\ use.whoMode = "none"
    BY Zenon, <1>7 DEF H!ReadRequester, UseFits
  <2>1. ASSUME NEW who \in {H!Mode, "none"}, upsets' = upsets \/ H!Fault,
               use' = [use EXCEPT !.at = "done", !.result = "request", !.whoMode = who]
        PROVE  HelpdeskInv'
    <3>1. who \in H!Modes
      BY DEF H!Mode, H!Modes
    <3>2. UseFits'
      BY <1>1, <2>0, <2>1, <3>1 DEF UseFits, H!Places, H!Results
    <3>3. /\ use'.at = "done" /\ use'.kind = use.kind /\ use'.result = "request"
          /\ use'.textMode = H!Mode /\ use'.mode = H!Mode /\ use'.whoMode = who
      BY <2>0, <2>1 DEF UseFits
    <3> QED BY <1>1, <1>3, <2>1, <3>2, <3>3 DEF H!Unmixed
  <2>2. CASE use' = [use EXCEPT !.at = "done", !.result = "request"] /\ UNCHANGED upsets
    <3>1. use' = [use EXCEPT !.at = "done", !.result = "request", !.whoMode = "none"]
      BY <2>0, <2>2 DEF UseFits
    <3> QED BY <2>1, <2>2, <3>1
  <2>3. ASSUME NEW mode \in H!Modes, H!ReadFrom(mode),
               IF tenant /\ mode # "LIVE" THEN H!Fails
               ELSE use' = [use EXCEPT !.at = "done", !.result = "request",
                                       !.whoMode = IF mode = use.mode THEN mode ELSE "none"]
        PROVE  HelpdeskInv'
    BY <1>2, <1>4, <2>0, <2>1, <2>3
  <2> QED BY Zenon, <1>7, <2>2, <2>3 DEF H!ReadRequester
<1> QED BY <1>5, <1>6, <1>7

(* For any tasks, any number of attempts and any faults, late answers      *)
(* included: what is confirmed is held, the fixture never stands in,       *)
(* nothing is written twice but by strays, and a request is made of one    *)
(* system's records.                                                       *)
LEMMA HelpdeskHolds ==
  ASSUME H!Given
  PROVE  H!Spec => [](H!TypeOK /\ H!HelpdeskIsSound)
<1>1. HelpdeskInv /\ [H!Next]_(H!vars) => HelpdeskInv'
  <2> SUFFICES ASSUME HelpdeskInv, [H!Next]_(H!vars) PROVE HelpdeskInv'
    OBVIOUS
  <2>1. CASE UNCHANGED H!vars
    BY <2>1 DEF H!vars, HelpdeskInv, UseFits, HeldFits, H!ConfirmedIsHeld, H!Unmixed, H!Store, H!Mode, H!Key, H!Wanted
  <2> QED BY <2>1, LookingIsSound, PostingIsSound, LandingIsSound, CheckingIsSound, ReadingIsSound DEF H!Next
<1>2. HelpdeskInv => H!TypeOK /\ H!HelpdeskIsSound
  <2> SUFFICES ASSUME HelpdeskInv PROVE H!TypeOK /\ H!HelpdeskIsSound
    OBVIOUS
  <2>1. strays \in [H!Keys -> 0..MaxFaults]
    BY DEF HelpdeskInv, HeldFits, H!Given
  <2>2. H!TypeOK
    BY <2>1 DEF HelpdeskInv, UseFits, HeldFits, H!TypeOK, H!Stores
  <2>3. H!NoStandIn /\ H!WrittenOnce
    BY DEF HelpdeskInv, HeldFits, H!NoStandIn, H!WrittenOnce
  <2> QED BY <2>2, <2>3 DEF HelpdeskInv, H!HelpdeskIsSound
<1> QED BY <1>1, <1>2, HelpdeskStarts, PTL DEF H!Spec

-----------------------------------------------------------------------------
(* Calls of the model.  A budget is checked when a call is sent and booked *)
(* after its answer: RouterInv counts, with what is booked, the one call   *)
(* that holds the lock of the key and has been answered.                   *)

(* What a key has been charged with and not booked: the cost of the call   *)
(* that holds its lock and has been answered.                              *)
Answered(k) == locks[k] \in Calls /\ call[locks[k]].at = "log" /\ k \in R!Needed(locks[k])
Unbooked(k) == IF Answered(k) THEN call[locks[k]].cost ELSE 0

Limit(k) == IF k = "bedrock" THEN BedrockCap ELSE RunBudget

CallRecords ==
    [at : {"next", "lock", "check", "send", "log", "done"}, tier : Nat, retried : BOOLEAN,
     reply : R!Replies \cup {"none"}, cost : 0..Reserve, over : BOOLEAN,
     result : R!Tiers \cup R!Errors \cup {"none", "died"}]

(* A call works on an enabled tier, under the locks it needs.              *)
CallFits(c) ==
    /\ call[c].tier \in 1..Len(chain) + 1
    /\ call[c].at \in {"lock", "check", "send", "log"} => call[c].tier <= Len(chain) /\ R!Tier(c) # "T4"
    /\ call[c].at \in {"check", "send", "log"} => \A k \in R!Needed(c) : locks[k] = c
    /\ call[c].at \notin {"log", "done"} \/ call[c].reply # "ok" => call[c].cost = 0
    /\ call[c].at = "send" \/ (call[c].at = "log" /\ call[c].reply # "ok") =>
          \A k \in R!Needed(c) : booked[k] + Reserve <= Limit(k)
    /\ call[c].at # "done" => call[c].result = "none"
    /\ call[c].over \/ call[c].result = "budget" =>
          RunOf[c] # Uncharged /\ booked[RunOf[c]] + Reserve > RunBudget

KeyFits(k) ==
    /\ booked[k] \in Nat /\ paid[k] \in Nat
    /\ booked[k] + Unbooked(k) <= paid[k]
    /\ paid[k] <= booked[k] + Unbooked(k) + crashes * Reserve
    /\ booked[k] + Unbooked(k) <= Limit(k)

RouterInv ==
    /\ chain \in Chains /\ call \in [Calls -> CallRecords]
    /\ locks \in [R!Keys -> Calls \cup {"free"}] /\ open \subseteq R!Tiers \ {"T4"}
    /\ booked = [k \in R!Keys |-> booked[k]] /\ paid = [k \in R!Keys |-> paid[k]]
    /\ faults \in 0..MaxFailures /\ crashes \in 0..faults
    /\ \A c \in Calls : CallFits(c)
    /\ \A k \in R!Keys : KeyFits(k)

(* The keys of a call.                                                     *)
LEMMA NeededAreKeys ==
  ASSUME R!Given, NEW c \in Calls
  PROVE  R!Needed(c) \subseteq R!Keys /\ R!Charged(c) = R!Needed(c) /\ (RunOf[c] # Uncharged => RunOf[c] \in R!Needed(c))
  BY DEF R!Needed, R!Keys, R!Runs, R!Charged

(* No call has begun and nothing is booked.                                *)
LEMMA RouterStarts == R!Given /\ R!Init => RouterInv
<1> SUFFICES ASSUME R!Given, R!Init PROVE RouterInv
  OBVIOUS
<1> USE DEF R!Init, R!Given
<1>1. call \in [Calls -> CallRecords]
  BY DEF CallRecords
<1>2. Len(chain) \in Nat
  OBVIOUS
<1>3. \A c \in Calls : CallFits(c)
  BY <1>2 DEF CallFits
<1>4. \A k \in R!Keys : KeyFits(k)
  <2>1. 0 * Reserve = 0
    OBVIOUS
  <2> QED BY <2>1 DEF KeyFits, Unbooked, Answered, Limit
<1> QED BY <1>1, <1>3, <1>4 DEF RouterInv

(* What a call does to itself leaves the others' keys alone.               *)
LEMMA OthersUnbooked ==
  ASSUME R!Given, RouterInv, NEW c \in Calls, chain' = chain, NEW r, call' = [call EXCEPT ![c] = r],
         NEW k \in R!Keys, locks[k] # c, locks'[k] = locks[k]
  PROVE  Unbooked(k)' = Unbooked(k)
<1>1. CASE locks[k] = "free"
  BY <1>1 DEF Unbooked, Answered, R!Given
<1>2. CASE locks[k] \in Calls
  <2>1. call'[locks[k]] = call[locks[k]]
    BY <1>2 DEF RouterInv
  <2> QED BY <1>2, <2>1 DEF Unbooked, Answered, R!Needed, R!Tier
<1> QED BY <1>1, <1>2 DEF RouterInv

(* A call that has no answer leaves nothing unbooked.                      *)
LEMMA NothingUnbooked ==
  ASSUME RouterInv, NEW k \in R!Keys, locks[k] = "free" \/ call[locks[k]].at # "log", R!Given
  PROVE  Unbooked(k) = 0
  BY DEF Unbooked, Answered, R!Given

(* What one call does to its own locks and bookings leaves every other     *)
(* call as it was.                                                         *)
LEMMA OthersFit ==
  ASSUME R!Given, RouterInv, NEW c \in Calls, chain' = chain, NEW r, call' = [call EXCEPT ![c] = r],
         NEW e \in Calls, e # c,
         \A k \in R!Keys : locks[k] = e => locks'[k] = e /\ booked'[k] = booked[k],
         \A k \in R!Keys : booked'[k] \in Nat /\ booked[k] <= booked'[k]
  PROVE  CallFits(e)'
<1>1. call'[e] = call[e] /\ R!Needed(e)' = R!Needed(e) /\ R!Tier(e)' = R!Tier(e)
  BY DEF RouterInv, R!Needed, R!Tier
<1>2. R!Needed(e) \subseteq R!Keys /\ (RunOf[e] # Uncharged => RunOf[e] \in R!Keys)
  BY NeededAreKeys
<1>3. \A k \in R!Keys : booked[k] \in Nat
  BY DEF RouterInv, KeyFits
<1>4. CallFits(e)
  BY DEF RouterInv
<1>5. call[e].at \in {"check", "send", "log"} => \A k \in R!Needed(e) : locks'[k] = e
  BY <1>2, <1>4 DEF CallFits
<1>6. call[e].at = "send" \/ (call[e].at = "log" /\ call[e].reply # "ok") =>
          \A k \in R!Needed(e) : booked'[k] + Reserve <= Limit(k)
  BY <1>2, <1>4 DEF CallFits
<1>7. call[e].over \/ call[e].result = "budget" =>
          RunOf[e] # Uncharged /\ booked'[RunOf[e]] + Reserve > RunBudget
  BY <1>2, <1>3, <1>4 DEF CallFits, R!Given
<1> QED BY <1>1, <1>4, <1>5, <1>6, <1>7 DEF CallFits, Limit

(* A step that books and pays nothing: only the fit of its call is left to *)
(* be shown.                                                               *)
LEMMA UnchargedSteps ==
  ASSUME R!Given, RouterInv, NEW c \in Calls, NEW r \in CallRecords, call' = [call EXCEPT ![c] = r],
         call[c].at # "log", r.at # "log", UNCHANGED <<chain, booked, open, paid, faults, crashes>>,
         locks' \in [R!Keys -> Calls \cup {"free"}],
         \A k \in R!Keys : IF locks[k] \in {c, "free"} THEN locks'[k] \in {c, "free"} ELSE locks'[k] = locks[k],
         CallFits(c)'
  PROVE  RouterInv'
<1>1. call' \in [Calls -> CallRecords] /\ call'[c] = r
  BY DEF RouterInv
<1>2. \A e \in Calls : CallFits(e)'
  <2>1. \A k \in R!Keys : booked[k] \in Nat
    BY DEF RouterInv, KeyFits
  <2>2. \A e \in Calls \ {c} : \A k \in R!Keys : locks[k] = e => locks'[k] = e /\ booked'[k] = booked[k]
    BY DEF R!Given
  <2>3. \A k \in R!Keys : booked'[k] \in Nat /\ booked[k] <= booked'[k]
    BY <2>1
  <2> TAKE e \in Calls
  <2>4. CASE e # c
    BY <2>2, <2>3, <2>4, OthersFit
  <2> QED BY <2>4
<1>3. \A k \in R!Keys : KeyFits(k)'
  <2> TAKE k \in R!Keys
  <2>1. Unbooked(k)' = Unbooked(k)
    <3>1. CASE locks[k] \in {c, "free"}
      <4>1. locks'[k] \in {c, "free"}
        BY <3>1
      <4>2. Unbooked(k)' = 0
        BY <1>1, <4>1 DEF Unbooked, Answered, R!Given
      <4> QED BY <3>1, <4>2, NothingUnbooked
    <3>2. CASE locks[k] \notin {c, "free"}
      BY <3>2, OthersUnbooked
    <3> QED BY <3>1, <3>2
  <2> QED BY <2>1 DEF RouterInv, KeyFits, Limit
<1> QED BY <1>1, <1>2, <1>3 DEF RouterInv

(* What the call of c is while it works.                                   *)
LEMMA AtWork ==
  ASSUME R!Given, RouterInv, NEW c \in Calls, call[c].at # "done"
  PROVE  /\ call[c] \in CallRecords /\ Len(chain) \in Nat /\ CallFits(c) /\ R!NextTier(c) \in CallRecords
         /\ R!NextTier(c) = [call[c] EXCEPT !.at = "next", !.tier = call[c].tier + 1, !.retried = FALSE,
                                          !.reply = "none", !.cost = 0]
         /\ call[c].tier <= Len(chain) => R!Tier(c) \in R!Tiers
         /\ \A result \in R!Tiers \cup R!Errors \cup {"died"} : R!Done(c, result) \in CallRecords
<1>1. call[c] \in CallRecords /\ CallFits(c) /\ chain \in Seq(R!Tiers)
  BY DEF RouterInv, R!Given
<1>2. call[c].tier <= Len(chain) => R!Tier(c) \in R!Tiers
  BY <1>1 DEF R!Tier, CallFits
<1>3. R!NextTier(c) = [call[c] EXCEPT !.at = "next", !.tier = call[c].tier + 1, !.retried = FALSE,
                                    !.reply = "none", !.cost = 0]
  BY DEF R!NextTier
<1>4. R!NextTier(c) \in CallRecords
  <2>1. call[c].tier + 1 \in Nat /\ 0 \in 0..Reserve
    BY <1>1 DEF CallRecords, R!Given
  <2> QED BY <1>1, <1>3, <2>1 DEF CallRecords
<1>5. \A result \in R!Tiers \cup R!Errors \cup {"died"} : R!Done(c, result) \in CallRecords
  BY <1>1 DEF CallRecords, R!Done
<1> QED BY <1>1, <1>2, <1>3, <1>4, <1>5

(* The call moves on, or is done: it fits, with or without locks.          *)
LEMMA MovingOnFits ==
  ASSUME R!Given, RouterInv, NEW c \in Calls, NEW r \in CallRecords, call' = [call EXCEPT ![c] = r],
         chain' = chain, call[c].at # "done",
         \A k \in R!Keys : booked[k] \in Nat /\ booked'[k] \in Nat /\ booked[k] <= booked'[k],
         \/ r.at = "next" /\ r.tier = call[c].tier + 1 /\ call[c].tier <= Len(chain) /\ r.cost = 0
         \/ r.at = "done" /\ r.tier = call[c].tier /\ (r.reply # "ok" => r.cost = 0),
         r.at = "next" => r.result = "none",
         r.over => call[c].over \/ R!OverRun(c),
         r.result = "budget" => call[c].over
  PROVE  CallFits(c)'
<1>1. call'[c] = r /\ CallFits(c) /\ Len(chain) \in Nat
  BY Zenon, AtWork DEF RouterInv
<1>2. r.tier \in 1..Len(chain) + 1
  BY <1>1 DEF CallFits
<1>3. r.over \/ r.result = "budget" => RunOf[c] # Uncharged /\ booked'[RunOf[c]] + Reserve > RunBudget
  <2>1. RunOf[c] # Uncharged => RunOf[c] \in R!Keys
    BY NeededAreKeys
  <2> QED BY <1>1, <2>1 DEF CallFits, R!OverRun, R!Given
<1>4. r.at \in {"next", "done"} /\ (r.reply # "ok" => r.cost = 0)
  <2>1. r.reply # "ok" => r.cost = 0
    OBVIOUS
  <2> QED BY <2>1
<1>5. r.at # "done" => r.result = "none"
  OBVIOUS
<1> QED BY <1>1, <1>2, <1>3, <1>4, <1>5 DEF CallFits

(* A call that lets go of its locks frees its own and no other.            *)
LEMMA ReleasedLocks ==
  ASSUME R!Given, RouterInv, NEW c \in Calls
  PROVE  /\ R!Released(c) \in [R!Keys -> Calls \cup {"free"}]
         /\ \A k \in R!Keys : IF locks[k] \in {c, "free"} THEN R!Released(c)[k] = "free" ELSE R!Released(c)[k] = locks[k]
  BY DEF R!Released, RouterInv

(* Steps that send nothing change no sum.                                  *)
LEMMA UnchargedKeep ==
  ASSUME R!Given, RouterInv, NEW c \in Calls, R!Enter(c) \/ R!Lock(c) \/ R!Check(c) \/ R!Replay(c) \/ R!Exhaust(c)
  PROVE  RouterInv'
<1>0. \A k \in R!Keys : booked[k] \in Nat
  BY DEF RouterInv, KeyFits
<1>1. ASSUME call[c].at \in {"next", "lock", "check"}, NEW r \in CallRecords, call' = [call EXCEPT ![c] = r],
             UNCHANGED <<chain, booked, open, paid, faults, crashes>>, locks' = locks \/ locks' = R!Released(c),
             \/ r.at = "next" /\ r.tier = call[c].tier + 1 /\ call[c].tier <= Len(chain) /\ r.cost = 0
             \/ r.at = "done" /\ r.tier = call[c].tier /\ (r.reply # "ok" => r.cost = 0),
             r.at = "next" => r.result = "none",
             r.over => call[c].over \/ R!OverRun(c),
             r.result = "budget" => call[c].over
      PROVE  RouterInv'
  <2>0. \A k \in R!Keys : booked[k] \in Nat /\ booked'[k] \in Nat /\ booked[k] <= booked'[k]
    BY <1>0, <1>1
  <2>01. call[c].at # "done" /\ chain' = chain
    BY <1>1
  <2>1. CallFits(c)'
    BY <1>1, <2>0, <2>01, MovingOnFits
  <2>2. /\ locks' \in [R!Keys -> Calls \cup {"free"}]
        /\ \A k \in R!Keys : IF locks[k] \in {c, "free"} THEN locks'[k] \in {c, "free"} ELSE locks'[k] = locks[k]
    BY <1>1, ReleasedLocks DEF RouterInv
  <2> QED BY <1>1, <2>1, <2>2, UnchargedSteps
<1>2. ASSUME call[c].at \in {"next", "lock", "check"}, NEW place \in {"lock", "check", "send"},
             call' = [call EXCEPT ![c].at = place],
             UNCHANGED <<chain, booked, open, paid, faults, crashes>>,
             locks' \in [R!Keys -> Calls \cup {"free"}],
             \A k \in R!Keys : IF locks[k] \in {c, "free"} THEN locks'[k] \in {c, "free"} ELSE locks'[k] = locks[k],
             call[c].tier <= Len(chain) /\ R!Tier(c) # "T4",
             place \in {"check", "send"} => \A k \in R!Needed(c) : locks'[k] = c,
             place = "send" => \A k \in R!Needed(c) : booked[k] + Reserve <= Limit(k)
      PROVE  RouterInv'
  <2> DEFINE r == [call[c] EXCEPT !.at = place]
  <2>1. call[c] \in CallRecords /\ CallFits(c)
    BY Zenon, <1>2, AtWork
  <2>2. r \in CallRecords /\ call' = [call EXCEPT ![c] = r]
    BY <1>2, <2>1 DEF CallRecords, RouterInv
  <2>3. call'[c] = r /\ r.at = place /\ r.tier = call[c].tier /\ r.cost = call[c].cost /\ r.reply = call[c].reply
        /\ r.over = call[c].over /\ r.result = call[c].result /\ R!Needed(c)' = R!Needed(c) /\ R!Tier(c)' = R!Tier(c)
    BY <1>2, <2>1 DEF CallRecords, RouterInv, R!Needed, R!Tier
  <2>4. CallFits(c)'
    <3>1. call[c].cost = 0
      BY <1>2, <2>1 DEF CallFits
    <3>2. call[c].result = "none" /\ call[c].tier \in 1..Len(chain) + 1
      BY <1>2, <2>1 DEF CallFits
    <3>3. call[c].over => RunOf[c] # Uncharged /\ booked[RunOf[c]] + Reserve > RunBudget
      BY <2>1 DEF CallFits
    <3>4. booked' = booked /\ chain' = chain
      BY <1>2
    <3> HIDE DEF r
    <3>5. /\ call'[c].at = place /\ call'[c].tier = call[c].tier /\ call'[c].cost = call[c].cost
          /\ call'[c].reply = call[c].reply /\ call'[c].over = call[c].over /\ call'[c].result = call[c].result
      BY <2>3
    <3>6. place \in {"check", "send"} => \A k \in R!Needed(c)' : locks'[k] = c
      BY <1>2, <2>3
    <3>7. place = "send" => \A k \in R!Needed(c)' : booked'[k] + Reserve <= Limit(k)'
      BY <1>2, <2>3, <3>4 DEF Limit
    <3>8. call[c].tier \in 1..Len(chain') + 1 /\ call[c].tier <= Len(chain') /\ R!Tier(c)' # "T4"
      BY <1>2, <2>3, <3>2, <3>4
    <3>9. /\ call'[c].at \notin {"log", "done"} \/ call'[c].reply # "ok" => call'[c].cost = 0
          /\ call'[c].at # "done" => call'[c].result = "none"
      BY <3>1, <3>2, <3>5
    <3>10. call'[c].over \/ call'[c].result = "budget" =>
              RunOf[c] # Uncharged /\ booked'[RunOf[c]] + Reserve > RunBudget
      BY <3>2, <3>3, <3>4, <3>5
    <3>11. call'[c].at \in {"lock", "check", "send", "log"} => call'[c].tier <= Len(chain') /\ R!Tier(c)' # "T4"
      BY <3>5, <3>8
    <3>12. /\ call'[c].at \in {"check", "send", "log"} => \A k \in R!Needed(c)' : locks'[k] = c
           /\ call'[c].at = "send" \/ (call'[c].at = "log" /\ call'[c].reply # "ok") =>
                  \A k \in R!Needed(c)' : booked'[k] + Reserve <= Limit(k)'
      BY <1>2, <3>5, <3>6, <3>7
    <3>13. call'[c].tier \in 1..Len(chain') + 1
      BY <3>5, <3>8
    <3> QED BY <3>9, <3>10, <3>11, <3>12, <3>13 DEF CallFits
  <2> HIDE DEF r
  <2> QED BY <1>2, <2>2, <2>3, <2>4, UnchargedSteps
<1>3. ASSUME call[c].at # "done" PROVE call[c] \in CallRecords /\ CallFits(c) /\ R!NextTier(c) \in CallRecords
  BY Zenon, <1>3, AtWork
<1>4. CASE R!Enter(c)
  <2>1. R!At(c, "next") /\ R!Tier(c) # "T4" /\ UNCHANGED <<chain, locks, booked, open, paid, faults, crashes>>
    BY <1>4 DEF R!Enter
  <2>2. CASE R!Tier(c) \in open
    <3>1. call' = [call EXCEPT ![c] = R!NextTier(c)]
      BY <1>4, <2>2 DEF R!Enter
    <3>2. /\ R!NextTier(c).at = "next" /\ R!NextTier(c).tier = call[c].tier + 1 /\ R!NextTier(c).cost = 0
          /\ R!NextTier(c).over = call[c].over /\ R!NextTier(c).result = call[c].result
          /\ call[c].result = "none"
      <4>1. call[c].at # "done" /\ call[c].result = "none"
        BY <1>3, <2>1 DEF R!At, CallFits
      <4>2. /\ call[c] \in CallRecords
            /\ R!NextTier(c) = [call[c] EXCEPT !.at = "next", !.tier = call[c].tier + 1, !.retried = FALSE,
                                             !.reply = "none", !.cost = 0]
        BY Zenon, <4>1, AtWork
      <4> QED BY <4>1, <4>2 DEF CallRecords
    <3> QED BY <1>1, <1>3, <2>1, <3>1, <3>2 DEF R!At
  <2>3. CASE R!Tier(c) \notin open
    <3>1. call' = [call EXCEPT ![c].at = "lock"]
      BY <1>4, <2>3 DEF R!Enter
    <3> QED BY <1>2, <2>1, <3>1 DEF R!At, RouterInv
  <2> QED BY <2>2, <2>3
<1>5. CASE R!Lock(c)
  <2>1. R!At(c, "lock") /\ UNCHANGED <<chain, booked, open, paid, faults, crashes>>
    BY <1>5 DEF R!Lock
  <2> DEFINE missing == {k \in R!Needed(c) : locks[k] # c}
             key == IF "bedrock" \in missing THEN "bedrock" ELSE CHOOSE k \in missing : TRUE
  <2>2. call[c].tier <= Len(chain) /\ R!Tier(c) # "T4"
    BY <1>3, <2>1 DEF R!At, CallFits
  <2>3. CASE missing = {} /\ UNCHANGED locks /\ call' = [call EXCEPT ![c].at = "check"]
    BY <1>2, <2>1, <2>2, <2>3 DEF R!At, RouterInv
  <2>4. CASE missing # {} /\ locks[key] = "free" /\ locks' = [locks EXCEPT ![key] = c] /\ UNCHANGED call
    <3>1. key \in missing
      BY <2>4
    <3>2. key \in R!Keys
      BY <3>1, NeededAreKeys
    <3> HIDE DEF key, missing
    <3>3. locks' \in [R!Keys -> Calls \cup {"free"}] /\ \A k \in R!Keys : locks'[k] = IF k = key THEN c ELSE locks[k]
      BY <2>4, <3>2 DEF RouterInv
    <3>4. call' = [call EXCEPT ![c] = call[c]] /\ call[c] \in CallRecords /\ call[c].at = "lock"
      BY <1>3, <2>1, <2>4 DEF R!At, RouterInv
    <3>5. CallFits(c)'
      BY <1>3, <2>1, <2>4, <3>4 DEF CallFits, R!At, R!Tier
    <3> QED BY <2>1, <2>4, <3>2, <3>3, <3>4, <3>5, UnchargedSteps
  <2> QED BY <1>5, <2>3, <2>4 DEF R!Lock
<1>6. CASE R!Check(c)
  <2>1. R!At(c, "check") /\ UNCHANGED <<chain, booked, open, paid, faults, crashes>>
    BY <1>6 DEF R!Check
  <2>2. /\ call[c].tier <= Len(chain) /\ R!Tier(c) # "T4" /\ call[c].result = "none"
        /\ \A k \in R!Needed(c) : locks[k] = c
    BY <1>3, <2>1 DEF R!At, CallFits
  <2>3. CASE ~R!OverRun(c) /\ ~R!OverCap(c) /\ call' = [call EXCEPT ![c].at = "send"] /\ UNCHANGED locks
    <3>1. \A k \in R!Needed(c) : booked[k] + Reserve <= Limit(k)
      <4> TAKE k \in R!Needed(c)
      <4>1. k \in R!Keys /\ booked[k] \in Nat
        BY <1>0, NeededAreKeys
      <4>2. CASE k = "bedrock"
        BY <2>3, <4>1, <4>2 DEF R!Needed, R!OverCap, Limit, R!Given
      <4>3. CASE k # "bedrock"
        BY <2>3, <4>1, <4>3 DEF R!Needed, R!OverRun, Limit, R!Given
      <4> QED BY <4>2, <4>3
    <3> QED BY <1>2, <2>1, <2>2, <2>3, <3>1 DEF R!At, RouterInv
  <2>4. CASE /\ R!OverRun(c) \/ R!OverCap(c)
             /\ call' = [call EXCEPT ![c] = [R!NextTier(c) EXCEPT !.over = call[c].over \/ R!OverRun(c)]]
             /\ locks' = R!Released(c)
    <3> DEFINE r == [R!NextTier(c) EXCEPT !.over = call[c].over \/ R!OverRun(c)]
    <3>1. /\ R!NextTier(c) = [call[c] EXCEPT !.at = "next", !.tier = call[c].tier + 1, !.retried = FALSE,
                                           !.reply = "none", !.cost = 0]
          /\ R!NextTier(c) \in CallRecords
      BY Zenon, <1>3, <2>1, AtWork DEF R!At
    <3>2. r \in CallRecords
      <4>1. (call[c].over \/ R!OverRun(c)) \in BOOLEAN
        BY DEF R!OverRun
      <4> QED BY <3>1, <4>1 DEF CallRecords
    <3>3. /\ r.at = "next" /\ r.tier = call[c].tier + 1 /\ r.cost = 0 /\ r.result = "none"
          /\ r.over = (call[c].over \/ R!OverRun(c))
      BY <1>3, <2>1, <2>2, <3>1 DEF CallRecords, R!At
    <3> HIDE DEF r
    <3>4. call' = [call EXCEPT ![c] = r]
      BY <2>4 DEF r
    <3> QED BY <1>1, <2>1, <2>2, <2>4, <3>2, <3>3, <3>4 DEF R!At
  <2> QED BY <1>6, <2>3, <2>4 DEF R!Check
<1>7. ASSUME call[c].at = "next", NEW result \in R!Tiers \cup R!Errors, call' = [call EXCEPT ![c] = R!Done(c, result)],
             UNCHANGED <<chain, locks, booked, open, paid, faults, crashes>>, result = "budget" => call[c].over
      PROVE  RouterInv'
  <2>1. R!Done(c, result) \in CallRecords /\ R!Done(c, result).at = "done" /\ R!Done(c, result).tier = call[c].tier
        /\ R!Done(c, result).cost = call[c].cost /\ R!Done(c, result).reply = call[c].reply
        /\ R!Done(c, result).over = call[c].over /\ R!Done(c, result).result = result
    BY Zenon, <1>3, <1>7, AtWork DEF R!Done, CallRecords
  <2>2. call[c].reply # "ok" => call[c].cost = 0
    BY <1>3, <1>7 DEF CallFits
  <2> QED BY <1>1, <1>7, <2>1, <2>2
<1>8. CASE R!Replay(c)
  <2>1. PICK result \in {"T4", "replay miss"} : call' = [call EXCEPT ![c] = R!Done(c, result)]
    BY Zenon, <1>8 DEF R!Replay
  <2> QED BY Zenon, <1>7, <1>8, <2>1 DEF R!Replay, R!At, R!Tiers, R!Errors
<1>9. CASE R!Exhaust(c)
  <2>1. R!Verdict(c) \in R!Errors /\ (R!Verdict(c) = "budget" => call[c].over)
    BY DEF R!Verdict, R!Errors
  <2> QED BY <1>7, <1>9, <2>1 DEF R!Exhaust
<1> QED BY <1>4, <1>5, <1>6, <1>8, <1>9

(* A step of the call with the answers: only the keys it has are charged.  *)
LEMMA ChargedSteps ==
  ASSUME R!Given, RouterInv, NEW c \in Calls, NEW r \in CallRecords, call' = [call EXCEPT ![c] = r],
         chain' = chain, open' \subseteq R!Tiers \ {"T4"}, faults' \in 0..MaxFailures, crashes' \in 0..faults',
         crashes * Reserve <= crashes' * Reserve, locks' = locks \/ locks' = R!Released(c),
         booked' = [k \in R!Keys |-> booked'[k]], paid' = [k \in R!Keys |-> paid'[k]],
         \A k \in R!Keys : booked'[k] \in Nat /\ booked[k] <= booked'[k],
         \A k \in R!Keys : locks[k] # c => booked'[k] = booked[k] /\ paid'[k] = paid[k],
         \A k \in R!Keys : locks[k] = c => KeyFits(k)',
         CallFits(c)'
  PROVE  RouterInv'
<1>1. call' \in [Calls -> CallRecords]
  BY DEF RouterInv
<1>2. /\ locks' \in [R!Keys -> Calls \cup {"free"}]
      /\ \A k \in R!Keys : locks[k] # c => locks'[k] = locks[k]
  BY ReleasedLocks DEF RouterInv, R!Given
<1>3. \A e \in Calls : CallFits(e)'
  <2> TAKE e \in Calls
  <2>1. CASE e # c
    <3>1. \A k \in R!Keys : locks[k] = e => locks'[k] = e /\ booked'[k] = booked[k]
      BY <1>2, <2>1
    <3> QED BY <2>1, <3>1, OthersFit
  <2> QED BY <2>1
<1>4. \A k \in R!Keys : KeyFits(k)'
  <2> TAKE k \in R!Keys
  <2>1. CASE locks[k] # c
    <3>1. Unbooked(k)' = Unbooked(k)
      BY <1>2, <2>1, OthersUnbooked
    <3>2. KeyFits(k) /\ booked'[k] = booked[k] /\ paid'[k] = paid[k]
      BY <2>1 DEF RouterInv
    <3>3. Unbooked(k) \in Nat
      BY DEF Unbooked, Answered, RouterInv, CallRecords
    <3>4. Limit(k)' = Limit(k) /\ Limit(k) \in Nat
      BY DEF Limit, R!Given
    <3>5. crashes * Reserve \in Nat /\ crashes' * Reserve \in Nat
      <4>1. crashes \in Nat /\ crashes' \in Nat /\ Reserve \in Nat
        BY DEF RouterInv, R!Given
      <4> QED BY <4>1
    <3> HIDE DEF Unbooked, Limit
    <3> QED BY <3>1, <3>2, <3>3, <3>4, <3>5 DEF KeyFits
  <2> QED BY <2>1
<1> QED BY <1>1, <1>2, <1>3, <1>4 DEF RouterInv

(* What a call that sends or books knows of a key it holds.                *)
LEMMA HeldKeys ==
  ASSUME R!Given, RouterInv, NEW c \in Calls, call[c].at \in {"send", "log"}, NEW k \in R!Keys
  PROVE  /\ k \in R!Charged(c) <=> k \in R!Needed(c)
         /\ k \in R!Needed(c) => locks[k] = c
         /\ call[c] \in CallRecords /\ CallFits(c) /\ KeyFits(k) /\ crashes * Reserve \in Nat
         /\ Limit(k) \in Nat /\ Reserve \in Nat
         /\ locks[k] = c => Unbooked(k) = IF call[c].at = "log" /\ k \in R!Needed(c) THEN call[c].cost ELSE 0
<1>1. call[c] \in CallRecords /\ CallFits(c) /\ KeyFits(k) /\ Reserve \in Nat /\ crashes \in Nat
  BY DEF RouterInv, R!Given
<1>2. crashes * Reserve \in Nat
  BY <1>1
<1>3. k \in R!Needed(c) => locks[k] = c
  BY <1>1 DEF CallFits
<1>4. locks[k] = c => Unbooked(k) = IF call[c].at = "log" /\ k \in R!Needed(c) THEN call[c].cost ELSE 0
  BY DEF Unbooked, Answered
<1> QED BY <1>1, <1>2, <1>3, <1>4, NeededAreKeys DEF Limit, R!Given

(* A call is sent only under its locks, within what is left of its budgets.*)
LEMMA SendKeeps ==
  ASSUME R!Given, RouterInv, NEW c \in Calls, R!Send(c)
  PROVE  RouterInv'
<1>1. /\ call[c].at = "send" /\ call[c].tier <= Len(chain) /\ UNCHANGED <<chain, locks, booked, open, crashes>>
  BY DEF R!Send, R!At
<1>2. call[c] \in CallRecords /\ CallFits(c)
  BY Zenon, <1>1, AtWork
<1>0. \A k \in R!Needed(c) : booked[k] + Reserve <= Limit(k)
  <2>1. call[c].at = "send" \/ (call[c].at = "log" /\ call[c].reply # "ok") =>
          \A k \in R!Needed(c) : booked[k] + Reserve <= Limit(k)
    BY <1>2, Zenon DEF CallFits
  <2>2. call[c].at = "send"
    BY <1>1
  <2> QED BY <2>1, <2>2, Zenon
<1>3. ASSUME NEW cost \in 0..Reserve, NEW reply \in R!Replies, reply = "ok" \/ cost = 0,
             call' = [call EXCEPT ![c].at = "log", ![c].reply = reply, ![c].cost = cost],
             paid' = R!Plus(paid, c, cost), faults' \in 0..MaxFailures, crashes' \in 0..faults'
      PROVE  RouterInv'
  <2> DEFINE r == [call[c] EXCEPT !.at = "log", !.reply = reply, !.cost = cost]
  <2>1. r \in CallRecords /\ call' = [call EXCEPT ![c] = r]
    BY <1>2, <1>3 DEF CallRecords, RouterInv, R!Replies
  <2>2. /\ r.at = "log" /\ r.tier = call[c].tier /\ r.reply = reply /\ r.cost = cost
        /\ r.over = call[c].over /\ r.result = call[c].result
    BY <1>2 DEF CallRecords
  <2> HIDE DEF r
  <2>3. call'[c] = r /\ R!Needed(c)' = R!Needed(c) /\ R!Tier(c)' = R!Tier(c)
    BY <1>1, <2>1, <2>2 DEF RouterInv, R!Needed, R!Tier
  <2>4. CallFits(c)'
    <3>1. /\ call[c].tier \in 1..Len(chain) + 1 /\ call[c].tier <= Len(chain) /\ R!Tier(c) # "T4"
          /\ call[c].result = "none" /\ \A k \in R!Needed(c) : locks[k] = c
          /\ call[c].over => RunOf[c] # Uncharged /\ booked[RunOf[c]] + Reserve > RunBudget
      BY <1>1, <1>2 DEF CallFits
    <3>2. locks' = locks /\ booked' = booked /\ chain' = chain
      BY <1>1
    <3>3. call'[c].tier \in 1..Len(chain') + 1 /\ call'[c].tier <= Len(chain') /\ R!Tier(c)' # "T4"
      BY <2>2, <2>3, <3>1, <3>2
    <3>4. call'[c].reply # "ok" => call'[c].cost = 0
      BY <1>3, <2>2, <2>3
    <3>5. \A k \in R!Needed(c)' : locks'[k] = c /\ booked'[k] + Reserve <= Limit(k)'
      BY <1>0, <2>3, <3>1, <3>2 DEF Limit
    <3>6. call'[c].over => RunOf[c] # Uncharged /\ booked'[RunOf[c]] + Reserve > RunBudget
      BY <2>2, <2>3, <3>1, <3>2
    <3>7. call'[c].at = "log" /\ call'[c].result = "none"
      BY <2>2, <2>3, <3>1
    <3> QED BY <3>3, <3>4, <3>5, <3>6, <3>7 DEF CallFits
  <2>5. \A k \in R!Keys : booked[k] \in Nat /\ paid[k] \in Nat
    BY DEF RouterInv, KeyFits
  <2>6. /\ paid' = [k \in R!Keys |-> paid'[k]] /\ booked' = [k \in R!Keys |-> booked'[k]]
        /\ \A k \in R!Keys : paid'[k] = IF k \in R!Charged(c) THEN paid[k] + cost ELSE paid[k]
    BY <1>1, <1>3 DEF R!Plus, RouterInv
  <2>7. \A k \in R!Keys : locks[k] # c => booked'[k] = booked[k] /\ paid'[k] = paid[k]
    BY <1>1, <2>6, HeldKeys
  <2>8. ASSUME NEW k \in R!Keys, locks[k] = c PROVE KeyFits(k)'
    <3>1. /\ KeyFits(k) /\ Unbooked(k) = 0 /\ Limit(k) \in Nat /\ Reserve \in Nat /\ crashes * Reserve \in Nat
          /\ k \in R!Charged(c) <=> k \in R!Needed(c)
      BY <1>1, <2>8, HeldKeys
    <3>2. Unbooked(k)' = IF k \in R!Needed(c) THEN cost ELSE 0
      BY <1>1, <2>2, <2>3, <2>8 DEF Unbooked, Answered
    <3>3. k \in R!Needed(c) => booked[k] + Reserve <= Limit(k)
      BY <1>0
    <3>4. Limit(k)' = Limit(k) /\ booked'[k] = booked[k] /\ crashes' = crashes
      BY <1>1 DEF Limit
    <3>5. paid'[k] = IF k \in R!Needed(c) THEN paid[k] + cost ELSE paid[k]
      BY <2>6, <3>1
    <3> QED BY <3>1, <3>2, <3>3, <3>4, <3>5 DEF KeyFits
  <2>9. crashes' * Reserve >= crashes * Reserve
    <3>1. crashes' = crashes /\ crashes * Reserve \in Nat
      <4>1. crashes \in Nat /\ Reserve \in Nat
        BY DEF RouterInv, R!Given
      <4> QED BY <1>1, <4>1
    <3> QED BY <3>1
  <2>10. open' \subseteq R!Tiers \ {"T4"} /\ \A k \in R!Keys : booked'[k] \in Nat /\ booked[k] <= booked'[k]
    BY <1>1, <2>5 DEF RouterInv
  <2> QED BY <1>1, <1>3, <2>1, <2>4, <2>6, <2>7, <2>8, <2>9, <2>10, ChargedSteps
<1>4. CASE \E cost \in 1..Reserve :
              /\ call' = [call EXCEPT ![c].at = "log", ![c].reply = "ok", ![c].cost = cost]
              /\ paid' = R!Plus(paid, c, cost)
              /\ UNCHANGED faults
  <2>1. faults' \in 0..MaxFailures /\ crashes' \in 0..faults'
    BY <1>1, <1>4 DEF RouterInv
  <2>2. PICK cost \in 1..Reserve :
              /\ call' = [call EXCEPT ![c].at = "log", ![c].reply = "ok", ![c].cost = cost]
              /\ paid' = R!Plus(paid, c, cost)
    BY <1>4
  <2>3. cost \in 0..Reserve /\ "ok" \in R!Replies
    BY DEF R!Replies, R!Given
  <2> QED BY Zenon, <1>3, <2>1, <2>2, <2>3
<1>5. CASE /\ R!Fault
           /\ \E reply \in R!Replies \ {"ok"} : call' = [call EXCEPT ![c].at = "log", ![c].reply = reply]
           /\ UNCHANGED paid
  <2>1. faults' \in 0..MaxFailures /\ crashes' \in 0..faults'
    BY <1>1, <1>5 DEF RouterInv, R!Fault, R!Given
  <2>2. PICK reply \in R!Replies \ {"ok"} : call' = [call EXCEPT ![c].at = "log", ![c].reply = reply]
    BY <1>5
  <2>3. call' = [call EXCEPT ![c].at = "log", ![c].reply = reply, ![c].cost = 0]
    <3>1. call[c].cost = 0
      BY <1>1, <1>2 DEF CallFits
    <3> QED BY <1>2, <2>2, <3>1 DEF CallRecords, RouterInv
  <2>4. paid' = R!Plus(paid, c, 0)
    <3>1. \A k \in R!Keys : paid[k] \in Nat
      BY DEF RouterInv, KeyFits
    <3>2. \A k \in R!Keys : paid[k] + 0 = paid[k]
      BY <3>1
    <3>3. paid = [k \in R!Keys |-> paid[k]] /\ paid' = paid
      BY <1>5 DEF RouterInv
    <3> QED BY <3>2, <3>3 DEF R!Plus
  <2>5. 0 \in 0..Reserve
    BY DEF R!Given
  <2> QED BY Zenon, <1>3, <2>1, <2>2, <2>3, <2>4, <2>5
<1> QED BY <1>4, <1>5 DEF R!Send

(* What was paid is booked under the lock it was checked under.            *)
LEMMA LogKeeps ==
  ASSUME R!Given, RouterInv, NEW c \in Calls, R!Log(c)
  PROVE  RouterInv'
<1>1. /\ call[c].at = "log" /\ call[c].tier <= Len(chain) /\ UNCHANGED <<chain, paid, faults, crashes>>
      /\ booked' = R!Plus(booked, c, call[c].cost)
  BY DEF R!Log, R!At
<1>2. /\ call[c] \in CallRecords /\ CallFits(c) /\ R!NextTier(c) \in CallRecords /\ R!Tier(c) \in R!Tiers
      /\ R!NextTier(c) = [call[c] EXCEPT !.at = "next", !.tier = call[c].tier + 1, !.retried = FALSE,
                                       !.reply = "none", !.cost = 0]
      /\ \A result \in R!Tiers \cup R!Errors \cup {"died"} : R!Done(c, result) \in CallRecords
  BY Zenon, <1>1, AtWork
<1>3. /\ call[c].cost \in Nat /\ R!Tier(c) # "T4" /\ call[c].result = "none"
      /\ call[c].reply # "ok" => call[c].cost = 0
  BY <1>1, <1>2 DEF CallRecords, CallFits
<1>4. \A k \in R!Keys : booked[k] \in Nat
  BY DEF RouterInv, KeyFits
<1>5. /\ booked' = [k \in R!Keys |-> booked'[k]] /\ paid' = [k \in R!Keys |-> paid'[k]]
      /\ \A k \in R!Keys : booked'[k] = IF k \in R!Charged(c) THEN booked[k] + call[c].cost ELSE booked[k]
  BY <1>1 DEF R!Plus, RouterInv
<1>6. \A k \in R!Keys : booked[k] \in Nat /\ booked'[k] \in Nat /\ booked[k] <= booked'[k]
  BY <1>3, <1>4, <1>5
<1>7. \A k \in R!Keys : locks[k] # c => booked'[k] = booked[k] /\ paid'[k] = paid[k]
  BY <1>1, <1>5, HeldKeys
<1>8. crashes * Reserve <= crashes' * Reserve
  <2>1. crashes \in Nat /\ Reserve \in Nat /\ crashes' = crashes
    BY <1>1 DEF RouterInv, R!Given
  <2> QED BY <2>1
<1>9. faults' \in 0..MaxFailures /\ crashes' \in 0..faults' /\ chain' = chain
  BY <1>1 DEF RouterInv
<1>10. ASSUME NEW r \in CallRecords, call' = [call EXCEPT ![c] = r], r.at # "log",
              locks' = locks \/ locks' = R!Released(c), open' \subseteq R!Tiers \ {"T4"}, CallFits(c)'
       PROVE  RouterInv'
  <2>1. ASSUME NEW k \in R!Keys, locks[k] = c PROVE KeyFits(k)'
    <3>1. /\ KeyFits(k) /\ Limit(k) \in Nat /\ crashes * Reserve \in Nat
          /\ k \in R!Charged(c) <=> k \in R!Needed(c)
          /\ Unbooked(k) = IF k \in R!Needed(c) THEN call[c].cost ELSE 0
      BY <1>1, <2>1, HeldKeys
    <3>2. locks'[k] \in {c, "free"} /\ call'[c] = r
      BY <1>10, <2>1 DEF R!Released, RouterInv
    <3>3. Unbooked(k)' = 0
      BY <1>10, <3>2 DEF Unbooked, Answered, R!Given
    <3>4. booked'[k] = booked[k] + Unbooked(k)
      BY <1>4, <1>5, <3>1
    <3>5. Limit(k)' = Limit(k) /\ paid'[k] = paid[k] /\ crashes' = crashes
      BY <1>1 DEF Limit
    <3>6. Unbooked(k) \in Nat /\ booked[k] \in Nat /\ paid[k] \in Nat
      BY <1>3, <1>4, <3>1 DEF KeyFits
    <3> QED BY <3>1, <3>3, <3>4, <3>5, <3>6 DEF KeyFits
  <2>2. \A k \in R!Keys : booked'[k] \in Nat /\ booked[k] <= booked'[k]
    BY <1>6
  <2> QED BY <1>5, <1>7, <1>8, <1>9, <1>10, <2>1, <2>2, ChargedSteps
<1>11. ASSUME NEW r \in CallRecords, call' = [call EXCEPT ![c] = r],
              locks' = locks \/ locks' = R!Released(c), open' \subseteq R!Tiers \ {"T4"},
              \/ r.at = "next" /\ r.tier = call[c].tier + 1 /\ r.cost = 0
              \/ r.at = "done" /\ r.tier = call[c].tier /\ (r.reply # "ok" => r.cost = 0),
              r.at = "next" => r.result = "none",
              r.over => call[c].over,
              r.result # "budget"
       PROVE  RouterInv'
  <2>1. call[c].at # "done"
    BY <1>1
  <2>2. \/ r.at = "next" /\ r.tier = call[c].tier + 1 /\ call[c].tier <= Len(chain) /\ r.cost = 0
        \/ r.at = "done" /\ r.tier = call[c].tier /\ (r.reply # "ok" => r.cost = 0)
    BY <1>1, <1>11
  <2>3. (r.over => call[c].over \/ R!OverRun(c)) /\ (r.result = "budget" => call[c].over)
    BY <1>11
  <2>4. CallFits(c)'
    BY <1>6, <1>9, <1>11, <2>1, <2>2, <2>3, MovingOnFits
  <2> QED BY <1>10, <1>11, <2>2, <2>4
<1>12. R!Released(c) = R!Unlocked(c) /\ open \subseteq R!Tiers \ {"T4"}
  BY DEF R!Unlocked, RouterInv
<1>13. CASE R!Retry(c) /\ call' = [call EXCEPT ![c].at = "send", ![c].retried = TRUE] /\ UNCHANGED <<locks, open>>
  <2> DEFINE r == [call[c] EXCEPT !.at = "send", !.retried = TRUE]
  <2>1. r \in CallRecords /\ call' = [call EXCEPT ![c] = r]
    BY <1>2, <1>13 DEF CallRecords, RouterInv
  <2>2. /\ r.at = "send" /\ r.tier = call[c].tier /\ r.reply = call[c].reply /\ r.cost = call[c].cost
        /\ r.over = call[c].over /\ r.result = call[c].result
    BY <1>2 DEF CallRecords
  <2>3. call[c].reply # "ok" /\ call[c].cost = 0
    BY <1>3, <1>13 DEF R!Retry
  <2> HIDE DEF r
  <2>4. call'[c] = r /\ R!Needed(c)' = R!Needed(c) /\ R!Tier(c)' = R!Tier(c)
    BY <1>1, <2>1, <2>2 DEF RouterInv, R!Needed, R!Tier
  <2>5. \A k \in R!Keys : booked'[k] = booked[k]
    BY <1>4, <1>5, <2>3
  <2>6. \A k \in R!Needed(c)' : locks'[k] = c /\ booked'[k] + Reserve <= Limit(k)'
    <3>1. \A k \in R!Needed(c) : locks[k] = c /\ booked[k] + Reserve <= Limit(k)
      <4>1. (call[c].at = "log" /\ call[c].reply # "ok") => \A k \in R!Needed(c) : booked[k] + Reserve <= Limit(k)
        BY <1>2, Zenon DEF CallFits
      <4> QED BY <1>1, <1>2, <2>3, <4>1 DEF CallFits
    <3>2. R!Needed(c) \subseteq R!Keys
      BY NeededAreKeys
    <3> QED BY <1>13, <2>4, <2>5, <3>1, <3>2 DEF Limit
  <2>7. call'[c].over => RunOf[c] # Uncharged /\ booked'[RunOf[c]] + Reserve > RunBudget
    <3>1. RunOf[c] # Uncharged => RunOf[c] \in R!Keys
      BY NeededAreKeys
    <3> QED BY <1>2, <2>2, <2>4, <2>5, <3>1 DEF CallFits
  <2>8. call'[c].tier \in 1..Len(chain') + 1 /\ call'[c].tier <= Len(chain') /\ R!Tier(c)' # "T4"
    BY <1>1, <1>2, <1>3, <2>2, <2>4 DEF CallFits
  <2>9. call'[c].at = "send" /\ call'[c].result = "none" /\ call'[c].cost = 0
    BY <1>3, <2>2, <2>3, <2>4
  <2>10. CallFits(c)'
    BY <2>6, <2>7, <2>8, <2>9 DEF CallFits
  <2> QED BY <1>10, <1>12, <1>13, <2>1, <2>2, <2>10
<1>14. CASE /\ call' = [call EXCEPT ![c] = R!NextTier(c)]
            /\ locks' = R!Unlocked(c) /\ open' = open \cup {R!Tier(c)}
  <2>1. /\ R!NextTier(c).at = "next" /\ R!NextTier(c).tier = call[c].tier + 1 /\ R!NextTier(c).cost = 0
        /\ R!NextTier(c).over = call[c].over /\ R!NextTier(c).result = call[c].result
    BY <1>2 DEF CallRecords
  <2>2. open' \subseteq R!Tiers \ {"T4"}
    BY <1>2, <1>3, <1>12, <1>14
  <2> QED BY <1>2, <1>3, <1>11, <1>12, <1>14, <2>1, <2>2
<1>15. ASSUME NEW result \in R!Tiers \cup {"fatal"}, call' = [call EXCEPT ![c] = R!Done(c, result)],
              locks' = R!Unlocked(c), open' \subseteq open
       PROVE  RouterInv'
  <2>1. R!Done(c, result) \in CallRecords /\ result # "budget"
    BY Zenon, <1>2 DEF R!Errors, R!Tiers
  <2>2. /\ R!Done(c, result).at = "done" /\ R!Done(c, result).tier = call[c].tier
        /\ R!Done(c, result).cost = call[c].cost /\ R!Done(c, result).reply = call[c].reply
        /\ R!Done(c, result).over = call[c].over /\ R!Done(c, result).result = result
    BY Zenon, <1>2 DEF R!Done, CallRecords
  <2> QED BY <1>3, <1>11, <1>12, <1>15, <2>1, <2>2
<1>16. CASE /\ call[c].reply = "fatal"
            /\ call' = [call EXCEPT ![c] = R!Done(c, "fatal")]
            /\ locks' = R!Unlocked(c) /\ UNCHANGED open
  BY <1>15, <1>16
<1>17. CASE /\ call[c].reply = "ok"
            /\ call' = [call EXCEPT ![c] = R!Done(c, R!Tier(c))]
            /\ locks' = R!Unlocked(c) /\ open' = open \ {R!Tier(c)}
  <2>1. open' \subseteq open /\ R!Tier(c) \in R!Tiers \cup {"fatal"}
    BY <1>2, <1>17
  <2> QED BY <1>15, <1>17, <2>1
<1> QED BY <1>13, <1>14, <1>16, <1>17 DEF R!Log

(* A crash leaves what was paid unbooked: one call's cost at most.         *)
LEMMA CrashKeeps ==
  ASSUME R!Given, RouterInv, NEW c \in Calls, R!Crash(c)
  PROVE  RouterInv'
<1>1. /\ call[c].at # "done" /\ R!Fault /\ crashes' = crashes + 1 /\ call' = [call EXCEPT ![c] = R!Done(c, "died")]
      /\ locks' = R!Released(c) /\ UNCHANGED <<chain, booked, open, paid>>
  BY DEF R!Crash
<1>2. call[c] \in CallRecords /\ CallFits(c) /\ R!Done(c, "died") \in CallRecords
  BY Zenon, <1>1, AtWork
<1>3. /\ R!Done(c, "died").at = "done" /\ R!Done(c, "died").tier = call[c].tier
      /\ R!Done(c, "died").cost = call[c].cost /\ R!Done(c, "died").reply = call[c].reply
      /\ R!Done(c, "died").over = call[c].over /\ R!Done(c, "died").result = "died"
  BY <1>2 DEF R!Done, CallRecords
<1>4. crashes' * Reserve = crashes * Reserve + Reserve /\ crashes * Reserve \in Nat /\ Reserve \in Nat
  <2>1. crashes \in Nat /\ Reserve \in Nat
    BY DEF RouterInv, R!Given
  <2>2. (crashes + 1) * Reserve = crashes * Reserve + Reserve
    BY <2>1
  <2> QED BY <1>1, <2>1, <2>2
<1>5. faults' \in 0..MaxFailures /\ crashes' \in 0..faults'
  BY <1>1 DEF R!Fault, RouterInv, R!Given
<1>6. \A k \in R!Keys : booked[k] \in Nat /\ booked'[k] \in Nat /\ booked[k] <= booked'[k]
  BY <1>1 DEF RouterInv, KeyFits
<1>7. CallFits(c)'
  <2>1. R!Done(c, "died").reply # "ok" => R!Done(c, "died").cost = 0
    BY <1>1, <1>2, <1>3 DEF CallFits
  <2> QED BY <1>1, <1>2, <1>3, <1>6, <2>1, MovingOnFits
<1>8. ASSUME NEW k \in R!Keys, locks[k] = c PROVE KeyFits(k)'
  <2>1. KeyFits(k) /\ Limit(k) \in Nat
    BY DEF RouterInv, Limit, R!Given
  <2>2. Unbooked(k) \in 0..Reserve
    BY <1>2, <1>4, <1>8 DEF Unbooked, Answered, CallRecords
  <2>3. locks'[k] = "free"
    BY <1>1, <1>8 DEF R!Released
  <2>4. Unbooked(k)' = 0
    BY <2>3 DEF Unbooked, Answered, R!Given
  <2>5. Limit(k)' = Limit(k) /\ paid'[k] = paid[k] /\ booked'[k] = booked[k]
    BY <1>1 DEF Limit
  <2> QED BY <1>4, <2>1, <2>2, <2>4, <2>5 DEF KeyFits
<1>9. /\ booked' = [k \in R!Keys |-> booked'[k]] /\ paid' = [k \in R!Keys |-> paid'[k]]
      /\ open' \subseteq R!Tiers \ {"T4"}
      /\ \A k \in R!Keys : locks[k] # c => booked'[k] = booked[k] /\ paid'[k] = paid[k]
  BY <1>1 DEF RouterInv
<1>10. crashes * Reserve <= crashes' * Reserve
  BY <1>4
<1> QED BY <1>1, <1>2, <1>5, <1>6, <1>7, <1>8, <1>9, <1>10, ChargedSteps

(* No step of any call breaks the invariant.                               *)
LEMMA RouterKeeps == R!Given /\ RouterInv /\ [R!Next]_(R!vars) => RouterInv'
<1> SUFFICES ASSUME R!Given, RouterInv, [R!Next]_(R!vars) PROVE RouterInv'
  OBVIOUS
<1>1. ASSUME UNCHANGED <<chain, call, locks, booked, paid, faults, crashes>>, open' \subseteq open PROVE RouterInv'
  <2>1. \A c \in Calls : CallFits(c)'
    BY <1>1 DEF CallFits, RouterInv, R!Needed, R!Tier, Limit
  <2>2. \A k \in R!Keys : KeyFits(k)'
    BY <1>1 DEF KeyFits, RouterInv, R!Needed, R!Tier, Limit, Unbooked, Answered
  <2> QED BY <1>1, <2>1, <2>2 DEF RouterInv
<1>2. ASSUME NEW c \in Calls, R!CallStep(c) \/ R!Lock(c) \/ R!Crash(c) PROVE RouterInv'
  BY <1>2, UnchargedKeep, SendKeeps, LogKeeps, CrashKeeps DEF R!CallStep
<1>3. ASSUME NEW tier \in open, R!Cool(tier) PROVE RouterInv'
  <2>1. open' \subseteq open /\ UNCHANGED <<chain, call, locks, booked, paid, faults, crashes>>
    BY <1>3 DEF R!Cool
  <2> QED BY <1>1, <2>1
<1>4. CASE UNCHANGED R!vars
  <2>1. open' \subseteq open /\ UNCHANGED <<chain, call, locks, booked, paid, faults, crashes>>
    BY <1>4 DEF R!vars
  <2> QED BY <1>1, <2>1
<1> QED BY <1>2, <1>3, <1>4 DEF R!Next

(* A caller's calls are within type, and what is paid within the budgets.  *)
LEMMA RouterInvShows == R!Given /\ RouterInv => R!TypeOK /\ R!BudgetsHold
<1> SUFFICES ASSUME R!Given, RouterInv PROVE R!TypeOK /\ R!BudgetsHold
  OBVIOUS
<1>1. \A k \in R!Keys : /\ booked[k] \in Nat /\ paid[k] \in Nat /\ booked[k] <= paid[k]
                         /\ paid[k] <= Limit(k) + crashes * Reserve
  <2> TAKE k \in R!Keys
  <2>1. KeyFits(k) /\ Limit(k) \in Nat
    BY DEF RouterInv, Limit, R!Given
  <2>2. Unbooked(k) \in Nat
    BY DEF Unbooked, Answered, RouterInv, CallRecords
  <2>3. crashes * Reserve \in Nat
    <3>1. crashes \in Nat /\ Reserve \in Nat
      BY DEF RouterInv, R!Given
    <3> QED BY <3>1
  <2> QED BY <2>1, <2>2, <2>3 DEF KeyFits
<1>2. R!TypeOK
  <2>1. \A c \in Calls : /\ call[c].at \in {"next", "lock", "check", "send", "log", "done"}
                         /\ call[c].tier \in 1..Len(chain) + 1 /\ call[c].retried \in BOOLEAN
                         /\ call[c].reply \in R!Replies \cup {"none"}
                         /\ call[c].result \in R!Tiers \cup R!Errors \cup {"none", "died"}
    BY DEF RouterInv, CallFits, CallRecords
  <2>2. \A k \in R!Keys : paid[k] \in Nat /\ booked[k] \in 0..paid[k]
    BY <1>1
  <2> QED BY <2>1, <2>2 DEF R!TypeOK, RouterInv
<1>3. R!RunWithinBudget
  BY <1>1 DEF R!RunWithinBudget, R!Keys, Limit, R!Given, R!Runs
<1>4. R!BedrockWithinCap
  BY <1>1 DEF R!BedrockWithinCap, R!Keys, Limit
<1>5. R!RefusedMeansSpent
  BY DEF R!RefusedMeansSpent, RouterInv, CallFits
<1> QED BY <1>2, <1>3, <1>4, <1>5 DEF R!BudgetsHold

(* Budgets hold for every call, in every order (chat of llm/router.py).    *)
LEMMA BudgetsAreKept ==
  ASSUME R!Given
  PROVE  R!Spec => [](R!TypeOK /\ R!BudgetsHold)
<1>1. R!Init => RouterInv
  BY RouterStarts
<1>2. RouterInv /\ [R!Next]_(R!vars) => RouterInv'
  BY RouterKeeps
<1>3. RouterInv => R!TypeOK /\ R!BudgetsHold
  BY RouterInvShows
<1> QED BY <1>1, <1>2, <1>3, PTL DEF R!Spec

(* The budgets of runs and of Bedrock hold for all callers together        *)
(* (llm/budget.py under the locks of llm/router.py).                       *)
THEOREM BudgetsKept ==
  ASSUME R!Given
  PROVE  ServicesSpec => []BudgetsHold
  BY EachKeepsItsOwn, BudgetsAreKept, PTL DEF BudgetsHold

-----------------------------------------------------------------------------
(* The rate limit.  What is in the bucket and what was let through since a *)
(* minute began are never more than a full bucket and the time since.      *)

(* What holds in every state: the parts in the bucket and the parts spent  *)
(* since the window began never exceed a full bucket and the time since.   *)
BucketInv == L!TypeOK /\ L!Bounded

(* The bucket starts full and the window empty.                            *)
LEMMA BucketStarts == L!RateOK /\ L!Init => BucketInv
  BY SMT DEF L!RateOK, L!Init, BucketInv, L!TypeOK, L!Bounded, L!Refilled, L!Capped, L!Full

(* A refill leaves between nothing and a full bucket.                      *)
LEMMA RefilledIn == ASSUME L!RateOK, BucketInv PROVE L!Refilled \in 0..L!Full
  BY SMT DEF L!RateOK, BucketInv, L!TypeOK, L!Bounded, L!Refilled, L!Capped, L!Full

(* Serving a caller takes what it gives: one token, or the refill alone.   *)
LEMMA ServingKeeps == ASSUME L!RateOK, BucketInv, NEW c \in Callers, L!Serve(c) PROVE BucketInv'
<1>1. L!Refilled \in 0..L!Full /\ L!Full \in Nat /\ Seconds \in Nat \ {0}
  BY RefilledIn, SMT DEF L!RateOK, L!Full
<1>2. CASE L!Refilled < Seconds /\ parts' = L!Refilled /\ sleeper' = c /\ wake' = now + (Seconds - L!Refilled) /\ sent' = sent
  <2>1. stamp' = now /\ now' = now /\ from' = from
    BY <1>2 DEF L!Serve
  <2>2. L!TypeOK'
    BY <1>1, <1>2, <2>1, SMT DEF BucketInv, L!TypeOK, L!Full
  <2>3. L!Refilled' = L!Refilled
    BY <1>1, <1>2, <2>1, SMT DEF BucketInv, L!TypeOK, L!Refilled, L!Capped, L!Full
  <2>4. L!Bounded'
    BY <1>2, <2>1, <2>3, SMT DEF BucketInv, L!TypeOK, L!Bounded, L!Full
  <2> QED BY <2>2, <2>4 DEF BucketInv
<1>3. CASE L!Refilled >= Seconds /\ parts' = L!Refilled - Seconds /\ sleeper' = NoCaller
           /\ sent' = (IF now >= from THEN sent + 1 ELSE sent) /\ wake' = wake
  <2>1. stamp' = now /\ now' = now /\ from' = from
    BY <1>3 DEF L!Serve
  <2>2. L!TypeOK'
    BY <1>1, <1>3, <2>1, SMT DEF BucketInv, L!TypeOK, L!Full
  <2>3. L!Refilled' = L!Refilled - Seconds
    BY <1>1, <1>3, <2>1, SMT DEF BucketInv, L!TypeOK, L!Refilled, L!Capped, L!Full
  <2>4. ASSUME now >= from PROVE Seconds * sent' = Seconds * sent + Seconds
    BY <1>1, <1>3, <2>4, SMT DEF BucketInv, L!TypeOK
  <2>5. L!Bounded'
    BY <1>1, <1>3, <2>1, <2>3, <2>4, SMT DEF BucketInv, L!TypeOK, L!Bounded, L!Full
  <2> QED BY <2>2, <2>5 DEF BucketInv
<1> QED BY <1>2, <1>3 DEF L!Serve

(* No step of a caller or of the clock breaks the balance.                 *)
LEMMA BucketKeeps == L!RateOK /\ BucketInv /\ [L!Next]_(L!vars) => BucketInv'
<1> SUFFICES ASSUME L!RateOK, BucketInv, [L!Next]_(L!vars) PROVE BucketInv'
  OBVIOUS
<1>1. ASSUME NEW c \in Callers, L!Acquire(c) \/ L!Wakes(c) PROVE BucketInv'
  BY <1>1, ServingKeeps DEF L!Acquire, L!Wakes
<1>2. ASSUME NEW c \in Callers, L!GivesUp(c) PROVE BucketInv'
  BY <1>2, SMT DEF L!GivesUp, BucketInv, L!TypeOK, L!Bounded, L!Refilled, L!Capped, L!Full
<1>3. CASE L!Tick
  BY <1>3, SMT DEF L!RateOK, L!Tick, BucketInv, L!TypeOK, L!Bounded, L!Refilled, L!Capped, L!Full
<1>4. CASE UNCHANGED L!vars
  BY <1>4 DEF L!vars, BucketInv, L!TypeOK, L!Bounded, L!Refilled, L!Capped, L!Full
<1> QED BY <1>1, <1>2, <1>3, <1>4 DEF L!Next

(* Over a minute the balance bounds what was let through.                  *)
LEMMA BucketBounds == L!RateOK /\ BucketInv => L!WithinTheRate
<1> SUFFICES ASSUME L!RateOK, BucketInv, now <= from + L!Minute PROVE sent <= Rate + Burst
  BY DEF L!WithinTheRate
<1>1. L!Refilled \in 0..L!Full
  BY RefilledIn
<1>2. CASE now < from
  BY <1>2, SMT DEF L!RateOK, BucketInv, L!TypeOK, L!Bounded
<1>3. CASE now >= from
  <2>1. Seconds * sent <= L!Full + L!Minute
    BY <1>1, <1>3, SMT DEF L!RateOK, BucketInv, L!TypeOK, L!Bounded, L!Full, L!Minute
  <2>2. L!Full + L!Minute = Seconds * (Rate + Burst)
    BY SMT DEF L!RateOK, L!Full, L!Minute
  <2>3. ASSUME sent > Rate + Burst PROVE FALSE
    <3>1. PICK excess \in Nat \ {0} : sent = (Rate + Burst) + excess
      BY <2>3, SMT DEF L!RateOK, BucketInv, L!TypeOK
    <3>2. Seconds * sent = Seconds * (Rate + Burst) + Seconds * excess
      BY <3>1, SMT DEF L!RateOK
    <3>3. Seconds * excess >= 1
      BY <3>1, SMT DEF L!RateOK
    <3> QED BY <2>1, <2>2, <3>2, <3>3, SMT DEF L!RateOK, BucketInv, L!TypeOK
  <2> QED BY <2>3, SMT DEF L!RateOK, BucketInv, L!TypeOK
<1> QED BY <1>2, <1>3, SMT DEF BucketInv, L!TypeOK

(* For every rate and burst, however many callers share the bucket and     *)
(* however they wait, sleep and give up, no minute sees more calls than    *)
(* the rate and the burst together.                                        *)
THEOREM RateIsKept == L!RateOK => (L!Spec => [](L!TypeOK /\ L!WithinTheRate))
<1>1. L!RateOK => (L!Spec => []BucketInv)
  <2> SUFFICES ASSUME L!RateOK PROVE L!Spec => []BucketInv
    OBVIOUS
  <2>1. L!Init => BucketInv
    BY BucketStarts
  <2>2. BucketInv /\ [L!Next]_(L!vars) => BucketInv'
    BY BucketKeeps
  <2> QED BY <2>1, <2>2, PTL DEF L!Spec
<1> SUFFICES ASSUME L!RateOK PROVE L!Spec => [](L!TypeOK /\ L!WithinTheRate)
  OBVIOUS
<1>2. BucketInv => L!TypeOK /\ L!WithinTheRate
  BY BucketBounds DEF BucketInv
<1>3. L!Spec => []BucketInv
  BY <1>1
<1> QED BY <1>2, <1>3, PTL

(* What the helpdesk is said to hold it holds, once and itself, and no     *)
(* minute lets through more than rate and burst                            *)
(* (connectors/freshservice.py).                                           *)
THEOREM HelpdeskKept ==
  ASSUME H!Given, L!RateOK
  PROVE  ServicesSpec => []HelpdeskIsSound
<1>1. L!Spec => [](L!TypeOK /\ L!WithinTheRate)
  BY RateIsKept
<1> QED BY <1>1, EachKeepsItsOwn, HelpdeskHolds, PTL DEF HelpdeskIsSound
-----------------------------------------------------------------------------
(* Questions.  AskInv says of a question under way that whatever it has    *)
(* found belongs to its asker, except the decisions that a finished answer *)
(* cites as precedents, and of a thread that it is over its bound only     *)
(* while an asker holds its lock and is about to drop the oldest entry.    *)

(* The module Questions counts as FiniteSets does.                         *)
LEMMA CountsAgree == ASSUME NEW U PROVE Q!Cardinality(U) = Cardinality(U)
  BY DEF Q!Cardinality, Cardinality

Askings ==
    [at : {"idle", "recall", "find", "cite", "look", "insert", "commit", "model", "read", "search", "done"},
     who : Persons \cup {Q!Nobody}, thread : Threads \cup {"none"}, ref : SUBSET Nat, run : RunNumbers \cup {Q!NoRun},
     cites : SUBSET Q!Rows, told : 0..Phases, source : {"none", "records", "knowledge"}, seen : SUBSET Q!Tools,
     spent : Nat, tool : Q!Tools \cup {<<"none", Q!NoRun>>}, left : 0..2, drop : SUBSET Q!Entry]

(* What an asker has at each place: a run of his own once one is found,    *)
(* none while the model is asked, the lock and what is to go while he      *)
(* appends.                                                                *)
OwnFits(a) ==
    /\ a.at \in {"recall", "find", "cite", "insert", "commit"} => a.who \in Persons
    /\ a.at = "look" => a.tool[1] = "status" \/ a.who \in Persons
    /\ a.at \in {"cite", "look", "insert", "commit"} => a.run \in RunNumbers /\ OwnerOf[a.run] = a.who
    /\ a.at \in {"insert", "commit"} => a.thread \in Threads /\ a.left \in 1..2
    /\ a.at \in {"idle", "model", "read", "search"} => a.run = Q!NoRun
    /\ \A row \in a.cites :
          OwnerOf[row[1]] = a.who \/ (row \in Decisions /\ a.at = "done" /\ a.run = Q!NoRun /\ a.told = 0)
ToldFits(a) ==
    /\ a.at \notin {"insert", "commit", "done"} => a.told = 0
    /\ a.at \in {"idle", "recall", "find", "cite"} => a.cites = {}
    /\ a.at = "look" => \A row \in a.cites : row[1] = a.run /\ row[2] <= phase[a.run]
    /\ a.told > 0 => a.run \in RunNumbers /\ OwnerOf[a.run] = a.who /\ \A row \in a.cites : row[2] <= a.told
    /\ a.spent < MaxSpend + MaxCost
AppendFits(c, a) ==
    a.at = "commit" =>
        LET s == <<a.who, a.thread>> IN
        /\ scopes[s] = c
        /\ Len(memory[s]) < EntriesKept \/ (Len(memory[s]) = EntriesKept /\ memory[s][1] \in a.drop)

AskInv ==
    /\ phase \in [RunNumbers -> 0..Phases] /\ memory \in [Q!Scopes -> Seq(Q!Entry)]
    /\ scopes \in [Q!Scopes -> Askers \cup {Q!Nobody}] /\ ask \in [Askers -> Askings]
    /\ \A s \in Q!Scopes : Len(memory[s]) <= EntriesKept
    /\ \A c \in Askers : OwnFits(ask[c]) /\ ToldFits(ask[c]) /\ AppendFits(c, ask[c])

(* The last of some runs is one of them.                                   *)
LEMMA LastRun ==
  ASSUME Q!Given, NEW owned \in SUBSET RunNumbers, owned # {}
  PROVE  Q!Max(owned) \in owned
<1>1. PICK last \in Nat : RunNumbers \subseteq 1..last
  BY DEF Q!Given
<1> DEFINE T == {last - x : x \in owned}
<1>2. T \subseteq Nat /\ T # {}
  <2>1. \A x \in owned : x \in 1..last
    BY <1>1
  <2>2. \A x \in owned : last - x \in Nat
    BY <2>1
  <2> QED BY <2>2
<1> HIDE DEF T
<1>3. PICK t \in T : \A m \in T : t <= m
  BY <1>2, Least
<1>4. PICK x \in owned : t = last - x
  BY <1>3 DEF T
<1>5. \A y \in owned : x >= y
  <2> TAKE y \in owned
  <2>1. last - x <= last - y
    BY <1>3, <1>4 DEF T
  <2> QED BY <1>1, <2>1
<1> QED BY <1>5 DEF Q!Max

(* A run of the asker exists, has begun and is his.                        *)
LEMMA NobodysRuns ==
  ASSUME Q!Given, AskInv, NEW c \in Askers
  PROVE  /\ \A r \in RunNumbers : phase[r] \in 0..Phases
         /\ \A r \in Q!Own(c) : r \in RunNumbers /\ phase[r] \in 1..Phases /\ OwnerOf[r] = ask[c].who
         /\ Q!NoRun \notin RunNumbers /\ ask[c] \in Askings
<1>1. phase \in [RunNumbers -> 0..Phases] /\ ask \in [Askers -> Askings]
  BY DEF AskInv
<1>2. Q!NoRun \notin RunNumbers /\ Phases \in Nat
  BY DEF Q!Given, Q!NoRun
<1> QED BY <1>1, <1>2 DEF Q!Own

(* Nothing is remembered or asked.                                         *)
LEMMA AskStarts == Q!Given /\ Q!Init => AskInv
<1> SUFFICES ASSUME Q!Given, Q!Init PROVE AskInv
  OBVIOUS
<1>1. Q!Idle \in Askings
  BY DEF Q!Idle, Askings, Q!Unnamed, Q!NoRun, Q!Nobody, Q!Given
<1>2. OwnFits(Q!Idle) /\ Q!Idle.at = "idle" /\ Q!Idle.run = Q!NoRun
  BY DEF OwnFits, Q!Idle
<1>3. ToldFits(Q!Idle)
  BY DEF ToldFits, Q!Idle, Q!Given
<1>4. memory \in [Q!Scopes -> Seq(Q!Entry)] /\ \A s \in Q!Scopes : Len(memory[s]) <= EntriesKept
  BY DEF Q!Init, Q!Given
<1>5. phase \in [RunNumbers -> 0..Phases] /\ scopes \in [Q!Scopes -> Askers \cup {Q!Nobody}] /\ ask \in [Askers -> Askings]
  BY <1>1 DEF Q!Init, Q!Given
<1>6. \A c \in Askers : ask[c] = Q!Idle
  BY DEF Q!Init
<1> QED BY <1>2, <1>3, <1>4, <1>5, <1>6 DEF AskInv, AppendFits

(* A run that goes on leaves what was told of it true.                     *)
LEMMA ProgressKeeps ==
  ASSUME Q!Given, AskInv, NEW r \in RunNumbers, Q!Progress(r)
  PROVE  AskInv'
<1>1. phase' = [phase EXCEPT ![r] = @ + 1] /\ phase[r] < Phases /\ UNCHANGED <<memory, scopes, ask>>
  BY DEF Q!Progress
<1>2. phase' \in [RunNumbers -> 0..Phases] /\ \A q \in RunNumbers : phase[q] \in Nat /\ phase'[q] \in Nat /\ phase[q] <= phase'[q]
  BY <1>1 DEF AskInv, Q!Given
<1>3. ASSUME NEW c \in Askers PROVE OwnFits(ask[c])' /\ ToldFits(ask[c])' /\ AppendFits(c, ask[c])'
  <2>1. ask'[c] = ask[c] /\ OwnFits(ask[c]) /\ ToldFits(ask[c]) /\ AppendFits(c, ask[c]) /\ ask[c] \in Askings
    BY <1>1 DEF AskInv
  <2>2. OwnFits(ask[c])' /\ AppendFits(c, ask[c])'
    BY <1>1, <2>1 DEF OwnFits, AppendFits
  <2>3. ask[c].at = "look" => \A row \in ask[c].cites : row[1] = ask[c].run /\ row[2] <= phase'[ask[c].run]
    <3> SUFFICES ASSUME ask[c].at = "look", NEW row \in ask[c].cites
                 PROVE  row[1] = ask[c].run /\ row[2] <= phase'[ask[c].run]
      OBVIOUS
    <3>1. ask[c].run \in RunNumbers /\ row \in Q!Rows
      BY <2>1 DEF OwnFits, Askings
    <3>2. row[2] \in Nat /\ row[1] = ask[c].run /\ row[2] <= phase[ask[c].run]
      BY <2>1, <3>1 DEF ToldFits, Q!Rows
    <3> QED BY <1>2, <3>1, <3>2
  <2> QED BY <2>1, <2>2, <2>3 DEF ToldFits
<1> QED BY <1>1, <1>2, <1>3 DEF AskInv

(* What expires from a thread was in it.                                   *)
LEMMA ExpireKeeps ==
  ASSUME Q!Given, AskInv, NEW s \in Q!Scopes, Q!Expire(s)
  PROVE  AskInv'
<1>1. PICK rest \in {<<>>, Tail(memory[s])} : memory' = [memory EXCEPT ![s] = rest]
  BY DEF Q!Expire
<1>2. memory[s] # <<>> /\ UNCHANGED <<phase, scopes, ask>> /\ memory[s] \in Seq(Q!Entry) /\ Len(memory[s]) <= EntriesKept
  BY DEF Q!Expire, AskInv
<1>3. rest \in Seq(Q!Entry) /\ Len(rest) < EntriesKept
  <2>1. EntriesKept \in Nat /\ EntriesKept > 0
    BY DEF Q!Given
  <2>2. CASE rest = <<>>
    BY <2>1, <2>2
  <2>3. CASE rest = Tail(memory[s])
    <3>1. Tail(memory[s]) \in Seq(Q!Entry) /\ Len(Tail(memory[s])) = Len(memory[s]) - 1 /\ Len(memory[s]) \in Nat
      BY <1>2, HeadTailProperties
    <3> QED BY <1>2, <2>1, <2>3, <3>1
  <2> QED BY <1>1, <2>2, <2>3
<1>4. memory' \in [Q!Scopes -> Seq(Q!Entry)] /\ \A t \in Q!Scopes : memory'[t] = IF t = s THEN rest ELSE memory[t]
  BY <1>1, <1>3 DEF AskInv
<1>5. ASSUME NEW c \in Askers PROVE OwnFits(ask[c])' /\ ToldFits(ask[c])' /\ AppendFits(c, ask[c])'
  <2>1. ask'[c] = ask[c] /\ OwnFits(ask[c]) /\ ToldFits(ask[c]) /\ AppendFits(c, ask[c])
    BY <1>2 DEF AskInv
  <2>2. OwnFits(ask[c])' /\ ToldFits(ask[c])'
    BY <1>2, <2>1 DEF OwnFits, ToldFits
  <2>3. ask[c].at = "commit" => <<ask[c].who, ask[c].thread>> \in Q!Scopes
    BY <2>1 DEF OwnFits, Q!Scopes
  <2> QED BY <1>2, <1>3, <1>4, <2>1, <2>2, <2>3 DEF AppendFits
<1>6. \A t \in Q!Scopes : Len(memory'[t]) <= EntriesKept
  BY <1>2, <1>3, <1>4 DEF AskInv, Q!Given
<1> QED BY <1>2, <1>4, <1>5, <1>6 DEF AskInv

(* A step that only an asker sees.                                         *)
LEMMA ReadsKeep ==
  ASSUME Q!Given, AskInv, NEW c \in Askers, NEW r \in Askings, ask' = [ask EXCEPT ![c] = r],
         UNCHANGED <<phase, memory, scopes>>, OwnFits(r), ToldFits(r), r.at # "commit"
  PROVE  AskInv'
<1>1. ask' \in [Askers -> Askings] /\ \A e \in Askers : ask'[e] = IF e = c THEN r ELSE ask[e]
  BY DEF AskInv
<1>2. ASSUME NEW e \in Askers PROVE OwnFits(ask[e])' /\ ToldFits(ask[e])' /\ AppendFits(e, ask[e])'
  <2>1. OwnFits(ask'[e]) /\ ToldFits(ask'[e]) /\ AppendFits(e, ask'[e])
    <3>1. CASE e = c
      BY <1>1, <3>1 DEF AppendFits
    <3>2. CASE e # c
      BY <1>1, <3>2 DEF AskInv
    <3> QED BY <3>1, <3>2
  <2> QED BY <2>1 DEF OwnFits, ToldFits, AppendFits
<1> QED BY <1>1, <1>2 DEF AskInv

(* A question begins with nothing found and nothing spent.                 *)
LEMMA AskKeeps ==
  ASSUME Q!Given, AskInv, NEW c \in Askers, Q!Ask(c)
  PROVE  AskInv'
<1>1. PICK q \in AsksWhat[c], place \in {"model", "search", "done", "recall"} :
         /\ ask' = [ask EXCEPT ![c] = [[Q!Idle EXCEPT !.who = q.who, !.thread = q.thread, !.ref = q.ref] EXCEPT !.at = place]]
         /\ UNCHANGED <<phase, memory, scopes>> /\ (place = "recall" => q.who # Q!Nobody)
  BY Zenon DEF Q!Ask, Q!Reads, Q!Set
<1>2. q.who \in Persons \cup {Q!Nobody} /\ q.thread \in Threads \cup {"none"} /\ q.ref \subseteq Nat
  BY DEF Q!Given
<1> DEFINE asked == [Q!Idle EXCEPT !.who = q.who, !.thread = q.thread, !.ref = q.ref]
           r == [asked EXCEPT !.at = place]
<1>3. Q!Idle \in Askings /\ Q!Idle.told = 0 /\ Q!Idle.cites = {} /\ Q!Idle.spent = 0 /\ Q!Idle.run = Q!NoRun
  BY DEF Q!Idle, Askings, Q!Unnamed, Q!NoRun, Q!Nobody, Q!Given
<1>4. /\ asked \in Askings /\ asked.who = q.who /\ asked.told = 0 /\ asked.cites = {} /\ asked.spent = 0
      /\ asked.run = Q!NoRun
  BY <1>2, <1>3 DEF Askings
<1> HIDE DEF asked
<1>5. /\ r \in Askings /\ r.at = place /\ r.who = q.who /\ r.told = 0 /\ r.cites = {} /\ r.spent = 0
      /\ r.run = Q!NoRun
  BY <1>4 DEF Askings
<1> HIDE DEF r
<1>6. OwnFits(r) /\ ToldFits(r)
  BY <1>1, <1>2, <1>5 DEF OwnFits, ToldFits, Q!Given
<1>7. ask' = [ask EXCEPT ![c] = r] /\ r.at # "commit"
  BY <1>1, <1>5 DEF r, asked
<1> QED BY Zenon, <1>1, <1>5, <1>6, <1>7, ReadsKeep

(* What is recalled, found, cited and looked up belongs to the asker.      *)
LEMMA RecallKeeps ==
  ASSUME Q!Given, AskInv, NEW c \in Askers, Q!Recall(c) \/ Q!Find(c) \/ Q!Cite(c) \/ Q!Look(c)
  PROVE  AskInv'
<1> DEFINE a == ask[c]
<1>1. a \in Askings /\ OwnFits(a) /\ ToldFits(a) /\ UNCHANGED <<phase, memory, scopes>>
  BY NobodysRuns DEF AskInv, Q!Recall, Q!Find, Q!Cite, Q!Look, Q!Reads, Q!Set
<1>2. /\ ~(\E row \in {} : TRUE)
      /\ \A r \in RunNumbers : phase[r] \in 0..Phases
  BY NobodysRuns
<1>3. CASE Q!Recall(c)
  <2> DEFINE entries == IF a.thread = "none" THEN <<>> ELSE memory[Q!Scope(c)]
             run == IF entries = <<>> THEN Q!NoRun ELSE Q!Last(entries).run
             r == [a EXCEPT !.at = "find", !.run = run]
  <2>1. a.at = "recall" /\ ask' = [ask EXCEPT ![c] = r]
    BY <1>3 DEF Q!Recall, Q!At, Q!Reads, Q!Set
  <2>2. run \in RunNumbers \cup {Q!NoRun}
    <3>1. CASE entries = <<>>
      BY <3>1
    <3>2. CASE entries # <<>>
      <4>1. a.thread \in Threads /\ entries = memory[Q!Scope(c)]
        BY <1>1, <3>2 DEF Askings
      <4>2. Q!Scope(c) \in Q!Scopes
        BY <1>1, <2>1, <4>1 DEF OwnFits, Q!Scope, Q!Scopes
      <4>3. entries \in Seq(Q!Entry)
        BY <4>1, <4>2 DEF AskInv
      <4> HIDE DEF entries
      <4>4. entries[Len(entries)] \in Q!Entry
        BY <3>2, <4>3
      <4> QED BY <3>2, <4>4 DEF Q!Last, Q!Entry
    <3> QED BY <3>1, <3>2
  <2> HIDE DEF run
  <2>3. r \in Askings /\ r.at = "find"
    BY <1>1, <2>2 DEF Askings
  <2>4. OwnFits(r)
    BY <1>1, <2>1, <2>3 DEF OwnFits, Askings
  <2>5. ToldFits(r)
    BY <1>1, <2>1, <2>3 DEF ToldFits, Askings
  <2> HIDE DEF r
  <2> QED BY <1>1, <2>1, <2>3, <2>4, <2>5, ReadsKeep
<1>4. CASE Q!Find(c)
  <2>1. a.at = "find" /\ a.told = 0 /\ a.cites = {} /\ a.who \in Persons
    BY <1>1, <1>4 DEF Q!Find, Q!At, ToldFits, OwnFits
  <2>2. Q!Meant(c) \in Q!Own(c) \cup {Q!NoRun}
    <3> DEFINE named    == Q!Own(c) \cap ask[c].ref
               inThread == {r \in Q!Own(c) : ThreadOf[r] = ask[c].thread}
    <3>1. named \subseteq RunNumbers /\ inThread \subseteq RunNumbers /\ Q!Own(c) \subseteq RunNumbers
      BY DEF Q!Own
    <3>2. Cardinality(named) = 1 => Q!Max(named) \in Q!Own(c)
      <4>1. Cardinality(named) = 1 => named # {}
        BY FS_EmptySet
      <4> HIDE DEF named
      <4>2. named # {} => Q!Max(named) \in named
        BY <3>1, LastRun
      <4> QED BY <4>1, <4>2 DEF named
    <3>3. inThread # {} => Q!Max(inThread) \in Q!Own(c)
      <4> HIDE DEF inThread
      <4>1. inThread # {} => Q!Max(inThread) \in inThread
        BY <3>1, LastRun
      <4> QED BY <4>1 DEF inThread
    <3>4. Q!Own(c) # {} => Q!Max(Q!Own(c)) \in Q!Own(c)
      BY <3>1, LastRun
    <3> QED BY <3>2, <3>3, <3>4, CountsAgree DEF Q!Meant
  <2>3. CASE Q!Meant(c) = Q!NoRun
    <3> DEFINE r == [Q!Answered(c) EXCEPT !.run = Q!NoRun]
    <3>1. r = [a EXCEPT !.at = "done", !.seen = {}, !.tool = <<"none", Q!NoRun>>, !.run = Q!NoRun]
      BY <1>1 DEF Q!Answered, Q!Idle, Askings
    <3>2. ask' = [ask EXCEPT ![c] = r]
      BY <1>4, <2>3 DEF Q!Find, Q!Reads, Q!Set
    <3> HIDE DEF r
    <3>3. r \in Askings /\ r.at = "done" /\ r.told = 0 /\ r.cites = {} /\ r.spent = a.spent
      BY <1>1, <2>1, <3>1 DEF Askings
    <3>4. OwnFits(r) /\ ToldFits(r)
      BY <1>1, <3>3 DEF OwnFits, ToldFits
    <3> QED BY <1>1, <3>2, <3>3, <3>4, ReadsKeep
  <2>4. CASE Q!Meant(c) # Q!NoRun
    <3> DEFINE run == Q!Meant(c)
               r == [a EXCEPT !.at = "cite", !.run = run]
    <3>1. run \in Q!Own(c)
      BY <2>2, <2>4
    <3>2. ask' = [ask EXCEPT ![c] = r]
      BY <1>4, <2>4 DEF Q!Find, Q!Reads, Q!Set
    <3>3. run \in RunNumbers /\ OwnerOf[run] = a.who
      BY <3>1, NobodysRuns
    <3> HIDE DEF run
    <3>4. r \in Askings /\ r.at = "cite" /\ r.told = 0 /\ r.cites = {} /\ r.spent = a.spent /\ r.run = run /\ r.who = a.who
      BY <1>1, <2>1, <3>3 DEF Askings
    <3> HIDE DEF r
    <3>5. OwnFits(r) /\ ToldFits(r)
      BY <1>1, <2>1, <3>3, <3>4 DEF OwnFits, ToldFits
    <3> QED BY <1>1, <3>2, <3>4, <3>5, ReadsKeep
  <2> QED BY <2>3, <2>4
<1>5. CASE Q!Cite(c)
  <2> DEFINE rows == {a.run} \X (1..phase[a.run])
             r == [a EXCEPT !.at = "look", !.cites = rows]
  <2>1. a.at = "cite" /\ ask' = [ask EXCEPT ![c] = r]
    BY <1>5 DEF Q!Cite, Q!At, Q!Reads, Q!Set
  <2>2. a.told = 0 /\ a.run \in RunNumbers /\ OwnerOf[a.run] = a.who /\ a.who \in Persons
    BY <1>1, <2>1 DEF OwnFits, ToldFits
  <2>3. rows \subseteq Q!Rows /\ \A row \in rows : row[1] = a.run /\ row[2] <= phase[a.run]
    <3>1. phase[a.run] \in 0..Phases /\ Phases \in Nat
      BY <1>2, <2>2 DEF Q!Given
    <3>2. 1..phase[a.run] \subseteq 1..Phases
      BY <3>1
    <3> QED BY <2>2, <3>1, <3>2 DEF Q!Rows
  <2> HIDE DEF rows
  <2>4. r \in Askings /\ r.at = "look" /\ r.told = 0 /\ r.cites = rows /\ r.spent = a.spent /\ r.run = a.run /\ r.who = a.who
    BY <1>1, <2>2, <2>3 DEF Askings
  <2> HIDE DEF r
  <2>5. OwnFits(r)
    BY <2>2, <2>3, <2>4 DEF OwnFits
  <2>6. ToldFits(r)
    BY <1>1, <2>2, <2>3, <2>4 DEF ToldFits
  <2> QED BY <1>1, <2>1, <2>4, <2>5, <2>6, ReadsKeep
<1>6. CASE Q!Look(c)
  <2>1. a.at = "look" /\ a.run \in RunNumbers /\ OwnerOf[a.run] = a.who
        /\ (\A row \in a.cites : row[1] = a.run /\ row[2] <= phase[a.run]) /\ (a.tool[1] = "status" \/ a.who \in Persons)
    <3>1. a.at = "look"
      BY <1>6 DEF Q!Look, Q!At
    <3> QED BY <1>1, <3>1 DEF OwnFits, ToldFits
  <2> DEFINE shown == phase[a.run]
             done == [a EXCEPT !.told = shown, !.source = "records", !.at = "done", !.seen = {}]
             insert == [a EXCEPT !.told = shown, !.source = "records", !.at = "insert", !.left = 2]
  <2>2. \/ ask' = [ask EXCEPT ![c] = done]
        \/ a.tool[1] # "status" /\ a.thread # "none" /\ ask' = [ask EXCEPT ![c] = insert]
    BY <1>6 DEF Q!Look, Q!Reads, Q!Set
  <2>3. shown \in 0..Phases /\ shown \in Nat
    BY <1>2, <2>1
  <2>4. \A row \in a.cites : OwnerOf[row[1]] = a.who /\ row[2] <= shown
    BY <1>1, <2>1 DEF OwnFits
  <2> HIDE DEF shown
  <2>5. CASE ask' = [ask EXCEPT ![c] = done]
    <3>1. /\ done \in Askings /\ done.at = "done" /\ done.told = shown /\ done.cites = a.cites /\ done.spent = a.spent
          /\ done.run = a.run /\ done.who = a.who
      BY <1>1, <2>3 DEF Askings
    <3> HIDE DEF done
    <3>2. OwnFits(done)
      BY <2>4, <3>1 DEF OwnFits
    <3>3. ToldFits(done)
      BY <1>1, <2>1, <2>4, <3>1 DEF ToldFits
    <3> QED BY <1>1, <2>5, <3>1, <3>2, <3>3, ReadsKeep
  <2>6. CASE a.tool[1] # "status" /\ a.thread # "none" /\ ask' = [ask EXCEPT ![c] = insert]
    <3>1. /\ insert \in Askings /\ insert.at = "insert" /\ insert.told = shown /\ insert.cites = a.cites
          /\ insert.spent = a.spent /\ insert.run = a.run /\ insert.who = a.who /\ insert.thread = a.thread
          /\ insert.left = 2 /\ a.thread \in Threads
      <4>1. a.thread \in Threads /\ 2 \in 0..2
        BY <1>1, <2>6 DEF Askings
      <4>2. insert \in Askings
        BY <1>1, <2>3, <4>1 DEF Askings
      <4> QED BY <1>1, <4>1, <4>2 DEF Askings
    <3> HIDE DEF insert
    <3>2. OwnFits(insert)
      BY <2>1, <2>4, <2>6, <3>1 DEF OwnFits
    <3>3. ToldFits(insert)
      BY <1>1, <2>1, <2>4, <3>1 DEF ToldFits
    <3> QED BY <1>1, <2>6, <3>1, <3>2, <3>3, ReadsKeep
  <2> QED BY <2>2, <2>5, <2>6
<1> QED BY <1>3, <1>4, <1>5, <1>6

(* An entry is added under the lock of its thread, and what is too much is *)
(* marked.                                                                 *)
LEMMA InsertKeeps ==
  ASSUME Q!Given, AskInv, NEW c \in Askers, Q!Insert(c)
  PROVE  AskInv'
<1> DEFINE a == ask[c]
           known == memory[Q!Scope(c)]
           excess == IF Len(known) < EntriesKept THEN 0 ELSE Len(known) + 1 - EntriesKept
           gone == Q!ToSet(SubSeq(known, 1, excess))
           r == [a EXCEPT !.at = "commit", !.drop = gone]
<1>1. /\ a.at = "insert" /\ a \in Askings /\ OwnFits(a) /\ ToldFits(a) /\ scopes[Q!Scope(c)] = Q!Nobody
      /\ scopes' = [scopes EXCEPT ![Q!Scope(c)] = c] /\ ask' = [ask EXCEPT ![c] = r] /\ UNCHANGED <<phase, memory>>
  BY NobodysRuns DEF AskInv, Q!Insert, Q!Locked, Q!At, Q!Set
<1>2. Q!Scope(c) \in Q!Scopes /\ a.thread \in Threads /\ a.left \in 1..2 /\ a.who \in Persons
  BY <1>1 DEF OwnFits, Q!Scope, Q!Scopes
<1>3. known \in Seq(Q!Entry) /\ Len(known) \in Nat /\ Len(known) <= EntriesKept /\ EntriesKept \in Nat /\ EntriesKept > 0
  BY <1>2 DEF AskInv, Q!Given
<1>4. excess \in 0..1 /\ (excess = 1 <=> Len(known) = EntriesKept) /\ excess <= Len(known)
  BY <1>3
<1> HIDE DEF excess
<1>5. gone \subseteq Q!Entry /\ (Len(known) = EntriesKept => known[1] \in gone)
  <2> DEFINE first == SubSeq(known, 1, excess)
  <2>1. first \in Seq(Q!Entry) /\ Len(first) = excess /\ \A i \in 1..excess : first[i] = known[i]
    BY <1>3, <1>4, SubSeqProperties
  <2> HIDE DEF first
  <2>2. Q!ToSet(first) \subseteq Q!Entry
    BY <2>1 DEF Q!ToSet
  <2>3. excess = 1 => known[1] \in Q!ToSet(first)
    BY <2>1 DEF Q!ToSet
  <2> QED BY <1>4, <2>2, <2>3 DEF first
<1> HIDE DEF gone, known
<1>6. /\ r \in Askings /\ r.at = "commit" /\ r.drop = gone /\ r.who = a.who /\ r.thread = a.thread /\ r.left = a.left
      /\ r.run = a.run /\ r.cites = a.cites /\ r.told = a.told /\ r.spent = a.spent
  BY <1>1, <1>5 DEF Askings
<1> HIDE DEF r
<1>7. OwnFits(r) /\ ToldFits(r)
  BY <1>1, <1>6 DEF OwnFits, ToldFits
<1>8. ask' \in [Askers -> Askings] /\ \A e \in Askers : ask'[e] = IF e = c THEN r ELSE ask[e]
  BY <1>1, <1>6 DEF AskInv
<1>9. /\ scopes' \in [Q!Scopes -> Askers \cup {Q!Nobody}] /\ scopes'[Q!Scope(c)] = c
      /\ \A s \in Q!Scopes : s # Q!Scope(c) => scopes'[s] = scopes[s]
  BY <1>1, <1>2 DEF AskInv
<1>10. ASSUME NEW e \in Askers PROVE OwnFits(ask[e])' /\ ToldFits(ask[e])' /\ AppendFits(e, ask[e])'
  <2>1. CASE e = c
    <3>1. AppendFits(e, ask[e])'
      <4>1. <<r.who, r.thread>> = Q!Scope(c) /\ memory'[Q!Scope(c)] = known
        BY <1>1, <1>6 DEF Q!Scope, known
      <4>2. Len(known) < EntriesKept \/ (Len(known) = EntriesKept /\ known[1] \in gone)
        BY <1>3, <1>5
      <4> QED BY <1>6, <1>8, <1>9, <2>1, <4>1, <4>2 DEF AppendFits
    <3>2. OwnFits(ask'[e]) /\ ToldFits(ask'[e]) /\ phase' = phase
      BY <1>1, <1>7, <1>8, <2>1
    <3> QED BY <3>1, <3>2 DEF OwnFits, ToldFits
  <2>2. CASE e # c
    <3>1. ask'[e] = ask[e] /\ OwnFits(ask[e]) /\ ToldFits(ask[e]) /\ AppendFits(e, ask[e]) /\ phase' = phase /\ memory' = memory
      BY <1>1, <1>8, <2>2 DEF AskInv
    <3>2. ask[e].at = "commit" => /\ <<ask[e].who, ask[e].thread>> \in Q!Scopes
                                  /\ scopes[<<ask[e].who, ask[e].thread>>] = e
      BY <3>1 DEF OwnFits, AppendFits, Q!Scopes
    <3>3. ask[e].at = "commit" => <<ask[e].who, ask[e].thread>> # Q!Scope(c)
      BY <1>1, <3>2 DEF Q!Given
    <3>4. AppendFits(e, ask[e])'
      BY <1>9, <3>1, <3>2, <3>3 DEF AppendFits
    <3> QED BY <3>1, <3>4 DEF OwnFits, ToldFits
  <2> QED BY <2>1, <2>2
<1> QED BY <1>1, <1>8, <1>9, <1>10 DEF AskInv

(* Dropping entries shortens the thread, by one at least if the first goes.*)
LEMMA WithoutFits ==
  ASSUME NEW entries \in Seq(Q!Entry), NEW gone
  PROVE  /\ Q!Without(gone, entries) \in Seq(Q!Entry) /\ Len(Q!Without(gone, entries)) <= Len(entries)
         /\ (entries # <<>> /\ entries[1] \in gone) => Len(Q!Without(gone, entries)) < Len(entries)
<1> DEFINE hits == {i \in DOMAIN entries : entries[i] \in gone}
           n == Cardinality(hits)
<1>1. Len(entries) \in Nat /\ DOMAIN entries = 1..Len(entries)
  OBVIOUS
<1>2. IsFiniteSet(1..Len(entries)) /\ Cardinality(1..Len(entries)) = Len(entries)
  BY SMT, <1>1, FS_Interval
<1>3. hits \subseteq 1..Len(entries)
  BY <1>1
<1> HIDE DEF hits
<1>4. IsFiniteSet(hits) /\ n \in Nat /\ n <= Len(entries)
  BY <1>2, <1>3, FS_Subset, FS_CardinalityType
<1>5. hits # {} => n > 0
  BY <1>4, FS_EmptySet
<1> HIDE DEF n
<1>6. Q!Without(gone, entries) = SubSeq(entries, n + 1, Len(entries))
  BY CountsAgree DEF Q!Without, n, hits
<1>7. /\ SubSeq(entries, n + 1, Len(entries)) \in Seq(Q!Entry)
      /\ Len(SubSeq(entries, n + 1, Len(entries))) = Len(entries) - n
  <2>1. n + 1 \in 1..Len(entries) + 1 /\ Len(entries) \in n..Len(entries)
    BY <1>1, <1>4
  <2>2. CASE n + 1 <= Len(entries)
    <3>1. \A i \in n + 1..Len(entries) : entries[i] \in Q!Entry
      BY <1>4
    <3> QED BY <1>1, <1>4, <2>2, <3>1, SubSeqProperties
  <2>3. CASE n = Len(entries)
    <3>1. SubSeq(entries, n + 1, Len(entries)) = <<>>
      BY <1>1, <2>3, SubSeqProperties
    <3> QED BY <1>1, <2>3, <3>1
  <2>4. n + 1 <= Len(entries) \/ n = Len(entries)
    <3>1. \A m, l \in Nat : m <= l => m + 1 <= l \/ m = l
      OBVIOUS
    <3>2. n \in Nat /\ n <= Len(entries)
      BY <1>4
    <3> QED BY Zenon, <1>1, <3>1, <3>2
  <2> QED BY <2>2, <2>3, <2>4
<1>8. entries # <<>> /\ entries[1] \in gone => hits # {}
  BY <1>1 DEF hits
<1>9. Len(entries) - n <= Len(entries) /\ (n > 0 => Len(entries) - n < Len(entries))
  BY <1>1, <1>4
<1> QED BY <1>5, <1>6, <1>7, <1>8, <1>9

(* A thread is within its bound again when its lock is released.           *)
LEMMA CommitKeeps ==
  ASSUME Q!Given, AskInv, NEW c \in Askers, Q!Commit(c)
  PROVE  AskInv'
<1> DEFINE a == ask[c]
           known == memory[Q!Scope(c)]
           entry == [run |-> a.run, id |-> <<c, a.left>>]
           after == Append(Q!Without(a.drop, known), entry)
           r == [a EXCEPT !.at = IF a.left > 1 THEN "insert" ELSE "done", !.left = a.left - 1, !.drop = {}]
<1>1. /\ a.at = "commit" /\ a \in Askings /\ OwnFits(a) /\ ToldFits(a) /\ AppendFits(c, a)
      /\ memory' = [memory EXCEPT ![Q!Scope(c)] = after] /\ scopes' = [scopes EXCEPT ![Q!Scope(c)] = Q!Nobody]
      /\ ask' = [ask EXCEPT ![c] = r] /\ phase' = phase
  <2>1. a.at = "commit" /\ ask' = [ask EXCEPT ![c] = r] /\ phase' = phase /\ scopes' = [scopes EXCEPT ![Q!Scope(c)] = Q!Nobody]
    BY DEF Q!Commit, Q!At, Q!Set
  <2>2. memory' = [memory EXCEPT ![Q!Scope(c)] = after]
    BY DEF Q!Commit
  <2> QED BY <2>1, <2>2, NobodysRuns DEF AskInv
<1>2. Q!Scope(c) \in Q!Scopes /\ a.thread \in Threads /\ a.left \in 1..2 /\ a.who \in Persons /\ a.run \in RunNumbers
  BY <1>1 DEF OwnFits, Q!Scope, Q!Scopes
<1>3. known \in Seq(Q!Entry) /\ Len(known) \in Nat /\ EntriesKept \in Nat /\ EntriesKept > 0
  BY <1>2 DEF AskInv, Q!Given
<1>4. scopes[Q!Scope(c)] = c /\ (Len(known) < EntriesKept \/ (Len(known) = EntriesKept /\ known[1] \in a.drop))
  BY <1>1 DEF AppendFits, Q!Scope
<1>5. entry \in Q!Entry
  BY <1>2 DEF Q!Entry
<1> HIDE DEF known, entry
<1>6. after \in Seq(Q!Entry) /\ Len(after) <= EntriesKept
  <2>1. Q!Without(a.drop, known) \in Seq(Q!Entry) /\ Len(Q!Without(a.drop, known)) < EntriesKept
    <3>1. /\ Q!Without(a.drop, known) \in Seq(Q!Entry) /\ Len(Q!Without(a.drop, known)) <= Len(known)
          /\ known # <<>> /\ known[1] \in a.drop => Len(Q!Without(a.drop, known)) < Len(known)
      BY <1>3, WithoutFits
    <3>2. Len(Q!Without(a.drop, known)) \in Nat
      BY <3>1
    <3>3. Len(known) = EntriesKept => known # <<>>
      BY <1>3
    <3> QED BY <1>3, <1>4, <3>1, <3>2, <3>3
  <2>2. Len(Append(Q!Without(a.drop, known), entry)) = Len(Q!Without(a.drop, known)) + 1
        /\ Append(Q!Without(a.drop, known), entry) \in Seq(Q!Entry) /\ Len(Q!Without(a.drop, known)) \in Nat
    BY <1>5, <2>1
  <2> QED BY <1>3, <2>1, <2>2
<1> HIDE DEF after
<1>7. /\ r \in Askings /\ r.at \in {"insert", "done"} /\ (r.at = "insert" => r.left = 1)
      /\ r.who = a.who /\ r.thread = a.thread
      /\ r.run = a.run /\ r.cites = a.cites /\ r.told = a.told /\ r.spent = a.spent
  <2>1. a.left - 1 \in 0..2 /\ (a.left > 1 => a.left - 1 = 1)
    BY <1>2
  <2> QED BY Zenon, <1>1, <2>1 DEF Askings
<1> HIDE DEF r
<1>8. OwnFits(r) /\ ToldFits(r)
  BY <1>1, <1>2, <1>7 DEF OwnFits, ToldFits
<1>9. ask' \in [Askers -> Askings] /\ \A e \in Askers : ask'[e] = IF e = c THEN r ELSE ask[e]
  BY <1>1, <1>7 DEF AskInv
<1>10. /\ scopes' \in [Q!Scopes -> Askers \cup {Q!Nobody}] /\ \A s \in Q!Scopes : s # Q!Scope(c) => scopes'[s] = scopes[s]
       /\ memory' \in [Q!Scopes -> Seq(Q!Entry)] /\ \A s \in Q!Scopes : memory'[s] = IF s = Q!Scope(c) THEN after ELSE memory[s]
  BY <1>1, <1>2, <1>6 DEF AskInv
<1>11. ASSUME NEW e \in Askers PROVE OwnFits(ask[e])' /\ ToldFits(ask[e])' /\ AppendFits(e, ask[e])'
  <2>1. CASE e = c
    <3>1. OwnFits(ask'[e]) /\ ToldFits(ask'[e]) /\ phase' = phase /\ ask'[e].at # "commit"
      BY <1>1, <1>7, <1>8, <1>9, <2>1
    <3> QED BY <3>1 DEF OwnFits, ToldFits, AppendFits
  <2>2. CASE e # c
    <3>1. ask'[e] = ask[e] /\ OwnFits(ask[e]) /\ ToldFits(ask[e]) /\ AppendFits(e, ask[e]) /\ phase' = phase
      BY <1>1, <1>9, <2>2 DEF AskInv
    <3>2. ask[e].at = "commit" => /\ <<ask[e].who, ask[e].thread>> \in Q!Scopes
                                  /\ scopes[<<ask[e].who, ask[e].thread>>] = e
      BY <3>1 DEF OwnFits, AppendFits, Q!Scopes
    <3>3. ask[e].at = "commit" => <<ask[e].who, ask[e].thread>> # Q!Scope(c)
      BY <1>4, <2>2, <3>2
    <3>4. AppendFits(e, ask[e])'
      BY <1>10, <3>1, <3>2, <3>3 DEF AppendFits
    <3> QED BY <3>1, <3>4 DEF OwnFits, ToldFits
  <2> QED BY <2>1, <2>2
<1>12. \A s \in Q!Scopes : Len(memory'[s]) <= EntriesKept
  BY <1>6, <1>10 DEF AskInv
<1> QED BY <1>1, <1>9, <1>10, <1>11, <1>12 DEF AskInv

(* What supports an answer, or that nothing does yet.                      *)
LEMMA ModelKeeps ==
  ASSUME Q!Given, AskInv, NEW c \in Askers, Q!Choose(c) \/ Q!Read(c) \/ Q!Search(c)
  PROVE  AskInv'
<1> DEFINE a == ask[c]
<1>1. /\ a \in Askings /\ OwnFits(a) /\ ToldFits(a) /\ UNCHANGED <<phase, memory, scopes>>
      /\ a.at \in {"model", "read", "search"} /\ a.told = 0 /\ a.run = Q!NoRun
  <2>1. UNCHANGED <<phase, memory, scopes>> /\ a.at \in {"model", "read", "search"}
    BY Zenon DEF Q!Choose, Q!Read, Q!Search, Q!Support, Q!NoSupport, Q!Reads, Q!Set, Q!At
  <2>2. a \in Askings /\ OwnFits(a) /\ ToldFits(a)
    BY NobodysRuns DEF AskInv
  <2> QED BY <2>1, <2>2 DEF ToldFits, OwnFits
<1>2. ASSUME NEW rows \in SUBSET Q!Rows, NEW source \in {"none", "records", "knowledge"}, Q!Support(c, rows, source),
             \A row \in rows : OwnerOf[row[1]] = a.who \/ row \in Decisions
      PROVE  AskInv'
  <2> DEFINE r == [Q!Answered(c) EXCEPT !.cites = rows, !.source = source]
  <2>1. /\ Q!Answered(c) \in Askings /\ Q!Answered(c).at = "done" /\ Q!Answered(c).told = 0 /\ Q!Answered(c).who = a.who
        /\ Q!Answered(c).spent = a.spent /\ Q!Answered(c).run = Q!NoRun
    <3>1. Q!Answered(c) = [a EXCEPT !.at = "done", !.seen = {}, !.tool = <<"none", Q!NoRun>>]
      BY DEF Q!Answered, Q!Idle
    <3> QED BY Zenon, <1>1, <3>1 DEF Askings
  <2>2. ask' = [ask EXCEPT ![c] = r]
    BY <1>2 DEF Q!Support, Q!Reads, Q!Set
  <2>3. /\ r \in Askings /\ r.at = "done" /\ r.told = 0 /\ r.who = a.who /\ r.spent = a.spent
        /\ r.cites = rows /\ r.run = Q!NoRun
    BY Zenon, <2>1 DEF Askings
  <2> HIDE DEF r
  <2>4. OwnFits(r) /\ ToldFits(r)
    BY <1>1, <1>2, <2>3 DEF OwnFits, ToldFits
  <2> QED BY <1>1, <2>2, <2>3, <2>4, ReadsKeep
<1>3. ASSUME NEW place \in {"model", "search"}, ask' = [ask EXCEPT ![c] = [a EXCEPT !.at = place]] PROVE AskInv'
  <2> DEFINE r == [a EXCEPT !.at = place]
  <2>1. /\ r \in Askings /\ r.at = place /\ r.told = 0 /\ r.who = a.who /\ r.spent = a.spent
        /\ r.cites = a.cites /\ r.run = Q!NoRun
    BY <1>1 DEF Askings
  <2>2. ask' = [ask EXCEPT ![c] = r]
    BY <1>3
  <2> HIDE DEF r
  <2>3. OwnFits(r) /\ ToldFits(r)
    BY <1>1, <2>1 DEF OwnFits, ToldFits
  <2> QED BY <1>1, <2>1, <2>2, <2>3, ReadsKeep
<1>4. CASE Q!Choose(c)
  <2>1. CASE Q!Reads(c, [ask[c] EXCEPT !.at = "search"])
    BY <1>3, <2>1 DEF Q!Reads, Q!Set
  <2>2. ASSUME Q!MayGoOn(c), NEW cost \in 1..MaxCost, NEW tool \in Q!Tools \ a.seen,
               Q!Reads(c, [ask[c] EXCEPT !.at = "read", !.tool = tool, !.spent = @ + cost, !.seen = @ \cup {tool}])
        PROVE  AskInv'
    <3> DEFINE r == [a EXCEPT !.at = "read", !.tool = tool, !.spent = a.spent + cost, !.seen = a.seen \cup {tool}]
    <3>1. ask' = [ask EXCEPT ![c] = r]
      BY <2>2 DEF Q!Reads, Q!Set
    <3>2. a.spent \in Nat /\ a.spent < MaxSpend /\ a.spent + cost \in Nat /\ a.spent + cost < MaxSpend + MaxCost
      BY <1>1, <2>2 DEF Q!MayGoOn, Askings, Q!Given
    <3>3. /\ r \in Askings /\ r.at = "read" /\ r.told = 0 /\ r.who = a.who /\ r.spent = a.spent + cost
          /\ r.cites = a.cites /\ r.run = Q!NoRun
      BY Zenon, <1>1, <3>2 DEF Askings
    <3> HIDE DEF r
    <3>4. OwnFits(r) /\ ToldFits(r)
      BY <1>1, <3>2, <3>3 DEF OwnFits, ToldFits
    <3> QED BY <1>1, <3>1, <3>3, <3>4, ReadsKeep
  <2> QED BY Zenon, <1>4, <2>1, <2>2 DEF Q!Choose
<1>5. CASE Q!Read(c)
  <2> DEFINE run == a.tool[2]
             mine == {<<r, phase[r]>> : r \in Q!Own(c)}
             seen == [a EXCEPT !.at = "look", !.run = run, !.cites = {<<run, phase[run]>>}]
  <2>1. mine \subseteq Q!Rows /\ \A row \in mine : OwnerOf[row[1]] = a.who
    BY NobodysRuns DEF Q!Rows
  <2>2. CASE Q!Support(c, {}, "knowledge") \/ \E rows \in SUBSET Q!Recorded : Q!Support(c, rows, "records")
    <3>1. Q!Recorded \subseteq Q!Rows /\ Q!Recorded \subseteq Decisions
      BY DEF Q!Recorded, Q!Given
    <3>2. CASE Q!Support(c, {}, "knowledge")
      BY <1>2, <3>2
    <3>3. ASSUME NEW rows \in SUBSET Q!Recorded, Q!Support(c, rows, "records") PROVE AskInv'
      BY <1>2, <3>1, <3>3
    <3> QED BY <2>2, <3>2, <3>3
  <2>3. CASE Q!Support(c, mine, "records")
    <3> HIDE DEF mine
    <3> QED BY <1>2, <2>1, <2>3
  <2>4. CASE a.tool[1] = "status" /\ run \in Q!Own(c) /\ ask' = [ask EXCEPT ![c] = seen]
    <3>1. run \in RunNumbers /\ OwnerOf[run] = a.who /\ phase[run] \in 1..Phases
      BY <2>4, NobodysRuns
    <3>2. /\ {<<run, phase[run]>>} \subseteq Q!Rows
          /\ \A row \in {<<run, phase[run]>>} : row[1] = run /\ row[2] = phase[run] /\ row[2] \in Nat
      BY <3>1 DEF Q!Rows
    <3> HIDE DEF run
    <3>3. /\ seen \in Askings /\ seen.at = "look" /\ seen.told = 0 /\ seen.who = a.who /\ seen.spent = a.spent
          /\ seen.cites = {<<run, phase[run]>>} /\ seen.run = run /\ seen.tool = a.tool
      BY Zenon, <1>1, <3>1, <3>2 DEF Askings
    <3> HIDE DEF seen
    <3>4. OwnFits(seen)
      BY <2>4, <3>1, <3>2, <3>3 DEF OwnFits
    <3>5. ToldFits(seen)
      BY <1>1, <3>1, <3>2, <3>3 DEF ToldFits
    <3> QED BY <1>1, <2>4, <3>3, <3>4, <3>5, ReadsKeep
  <2>5. CASE Q!NoSupport(c)
    BY <1>3, <2>5 DEF Q!NoSupport, Q!Reads, Q!Set
  <2>6. \/ Q!Support(c, {}, "knowledge") \/ Q!Support(c, mine, "records")
        \/ \E rows \in SUBSET Q!Recorded : Q!Support(c, rows, "records")
        \/ a.tool[1] = "status" /\ run \in Q!Own(c) /\ ask' = [ask EXCEPT ![c] = seen]
        \/ Q!NoSupport(c)
    BY <1>5 DEF Q!Read, Q!Reads, Q!Set
  <2> HIDE DEF mine, seen, run
  <2> QED BY <2>2, <2>3, <2>4, <2>5, <2>6
<1>6. CASE Q!Search(c)
  BY <1>2, <1>6 DEF Q!Search
<1> QED BY <1>4, <1>5, <1>6

(* The invariant says what is promised of answers.                         *)
LEMMA AskInvShows == Q!Given /\ AskInv => Q!TypeOK /\ Q!AnswersAreGrounded
<1> SUFFICES ASSUME Q!Given, AskInv PROVE Q!TypeOK /\ Q!AnswersAreGrounded
  OBVIOUS
<1>1. \A c \in Askers : ask[c] \in Askings /\ OwnFits(ask[c]) /\ ToldFits(ask[c])
  BY DEF AskInv
<1>2. Q!TypeOK
  <2>1. \A c \in Askers :
          /\ ask[c].at \in {"idle", "recall", "find", "cite", "look", "insert", "commit",
                            "model", "read", "search", "done"}
          /\ ask[c].who \in Persons \cup {Q!Nobody} /\ ask[c].run \in RunNumbers \cup {Q!NoRun}
          /\ ask[c].cites \subseteq Q!Rows /\ ask[c].seen \subseteq Q!Tools
          /\ ask[c].source \in {"none", "records", "knowledge"}
    BY <1>1 DEF Askings
  <2> QED BY <2>1 DEF Q!TypeOK, AskInv
<1>3. Q!OwnRunsOnly /\ Q!NotOlderThanSources /\ Q!SpendBounded
  BY <1>1 DEF Q!OwnRunsOnly, Q!NotOlderThanSources, Q!SpendBounded, OwnFits, ToldFits
<1>4. Q!MemoryBounded
  BY DEF Q!MemoryBounded, AskInv
<1> QED BY <1>2, <1>3, <1>4 DEF Q!AnswersAreGrounded

(* Answers are the asker's own but for the precedents they cite, for any   *)
(* askers, threads, runs and decisions (llm/question_agent.py).            *)
LEMMA AnswersHold ==
  ASSUME Q!Given
  PROVE  Q!Spec => [](Q!TypeOK /\ Q!AnswersAreGrounded)
<1>1. Q!Init => AskInv
  BY AskStarts
<1>2. AskInv /\ [Q!Next]_(Q!vars) => AskInv'
  <2> SUFFICES ASSUME AskInv, [Q!Next]_(Q!vars) PROVE AskInv'
    OBVIOUS
  <2>1. ASSUME NEW c \in Askers, Q!Ask(c) \/ Q!Insert(c) \/ Q!Step(c) PROVE AskInv'
    BY <2>1, AskKeeps, InsertKeeps, RecallKeeps, CommitKeeps, ModelKeeps DEF Q!Step
  <2>2. CASE UNCHANGED Q!vars
    <3>1. phase' = phase /\ memory' = memory /\ scopes' = scopes /\ ask' = ask
      BY <2>2 DEF Q!vars
    <3> QED BY <3>1 DEF AskInv, OwnFits, ToldFits, AppendFits
  <2> QED BY <2>1, <2>2, ProgressKeeps, ExpireKeeps DEF Q!Next
<1>3. AskInv => Q!TypeOK /\ Q!AnswersAreGrounded
  BY AskInvShows
<1> QED BY <1>1, <1>2, <1>3, PTL DEF Q!Spec

(* Answers tell of the asker's own runs, cite of others' no more than      *)
(* decisions as precedents, are true to their sources and bounded, for any *)
(* askers, threads, runs and decisions (llm/question_agent.py, memory.py,  *)
(* read_tools.py).                                                         *)
THEOREM AnswersKept ==
  ASSUME Q!Given
  PROVE  ServicesSpec => []AnswersAreGrounded
  BY EachKeepsItsOwn, AnswersHold, PTL DEF AnswersAreGrounded
=============================================================================
