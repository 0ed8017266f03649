----------------------------- MODULE MCServices -----------------------------
(***************************************************************************)
(* A small instance of module Services, for TLC, which explores one        *)
(* component in each behaviour, the one that part names, while the         *)
(* variables of the others keep their initial values.                      *)
(***************************************************************************)
EXTENDS Services

(* A pass in each process.  The api emits three events, then one more if   *)
(* it was restarted; the worker emits one.                                 *)
Hosts == [t \in {"a", "w"} |-> IF t = "a" THEN "api" ELSE "worker"]
Emitted == [api |-> <<3, 1>>, worker |-> <<1, 1>>]
EventsOf == [p \in {"api", "worker"} |-> [life \in 0..1 |-> Emitted[p][life + 1]]]

(* Two calls of a run and one of none; Bedrock with and without replay.    *)
ChargedTo == [c \in {"a", "b", "c"} |-> IF c = "c" THEN "none" ELSE "r"]
TierChains == {<<"T1", "T3", "T4">>, <<"T1", "T3">>}

(* The asker p has run 1; the questions are about it, about another's run, *)
(* or about policy.  A decision is recorded of each run.                   *)
Question(who, thread, about, ref) == [who |-> who, thread |-> thread, about |-> about, ref |-> ref]
AskedBy == [a |-> {Question("p", "t", "request", {0}), Question("p", "none", "request", {1, 2}),
                   Question("p", "t", "policy", {0}), Question("nobody", "none", "policy", {0}),
                   Question("nobody", "none", "request", {0})},
            b |-> {Question("p", "t", "request", {1, 2})}]

Decided == {<<1, 2>>, <<2, 1>>}

(* What may await a caller of the voice door: two items, one of high risk. *)
Queues == {<<>>, <<"low">>, <<"high", "low">>}

(* The titles of an onboarding's tasks.                                    *)
TaskTitles == <<"t1", "t2">>

(* People of every employment, with records complete and not; what the     *)
(* catalogue may say of an entitlement; who is on call.                    *)
Person(p, employment, seniority, team, role, sow, manager) ==
    [person |-> p, employment |-> employment, seniority |-> seniority, team |-> team, role |-> role,
     sow |-> sow, manager |-> manager]
SomePeople ==
    {Person("ann", "employee", "senior", "payments", "engineer", {}, "max"),
     Person("ann", "employee", "missing", "data-analytics", "analyst", {}, "missing"),
     Person("sam", "employee", "lead", "security", "engineer", {}, "max"),
     Person("cal", "contractor", "senior", "payments", "engineer", {"sdk"}, "max"),
     Person("vic", "vendor", "junior", "data-analytics", "missing", {}, "max")}

Thing(system, class, permission, repo, tags, seat, data, scope, baseline) ==
    [system |-> system, class |-> class, permission |-> permission, repo |-> repo, tags |-> tags,
     seat |-> seat, data |-> data, scope |-> scope, baseline |-> baseline,
     masked |-> IF data = "raw_pii" THEN "view" ELSE "none"]
SomeThings ==
    {Thing("slack", "standard", "member", "missing", "missing", "missing", "missing", {"engineer"}, TRUE),
     Thing("github", "standard", "read", "sdk", "production", "missing", "missing", {"engineer"}, FALSE),
     Thing("github", "standard", "read", "sdk", "missing", "missing", "missing", {"engineer"}, FALSE),
     Thing("github", "standard", "write", "core", "internal", "missing", "missing", {"analyst"}, FALSE),
     Thing("aws", "production_admin", "admin", "missing", "missing", "free", "missing", {"engineer"}, TRUE),
     Thing("aws", "production_admin", "viewer", "missing", "missing", "paid", "missing", {"engineer"}, FALSE),
     Thing("sentry", "standard", "member", "missing", "missing", "paid", "missing", {"engineer"}, FALSE),
     Thing("lake", "customer_pii_export", "read", "missing", "missing", "free", "raw_pii", {"analyst"}, TRUE),
     Thing("lake", "standard", "viewer", "missing", "missing", "missing", "raw_pii", {"analyst"}, FALSE),
     Thing("vault", "missing", "missing", "missing", "missing", "missing", "missing", {"engineer"}, FALSE)}

OnCall == [r \in {"security-oncall", "incident-commander"} |->
              IF r = "security-oncall" THEN <<"sam", "sue">> ELSE <<"ivy">>]

Owners == <<"p", "q">>
ThreadsOf == <<"u", "t">>
RuleSets == {1..10, 1..9}

ASSUME AllGiven == S!Given /\ R!Given /\ Q!Given /\ V!Given /\ H!Given /\ L!RateOK
ASSUME RulesGiven == (\A book \in RuleBooks : {2, 7, 8} \subseteq book) /\ {"none", Unknown} \cap People = {}

VARIABLES part

mcVars == <<part, serviceVars>>

Of(name, Move) == part = name /\ Move /\ UNCHANGED part

MCInit ==
    /\ part \in {"streams", "router", "questions", "voice", "helpdesk", "bucket", "policy"}
    /\ ServicesInit
    /\ part # "router" => chain = <<"T1", "T3">>
    /\ part # "helpdesk" => tenant /\ use.kind = "note"
    /\ part # "bucket" => from = 0
    /\ part # "policy" => rules = 1..10 /\ case.requester = "sam" /\ case.origin = "transfer"
                          /\ case.subject.person = "cal" /\ case.entry.system = "slack"

MCNext ==
    \/ Of("streams", Streaming(S!Next))
    \/ Of("router", Routing(R!Next))
    \/ Of("questions", Asking(Q!Next))
    \/ Of("voice", Calling(V!Next))
    \/ Of("helpdesk", UsingHelpdesk(H!Next))
    \/ Of("bucket", Limiting(L!Next))
    \/ Of("policy", Deciding(Next))

Fairness ==
    /\ \A c \in Clients : WF_mcVars(Of("streams", Streaming(S!StreamStep(c))))
    /\ \A c \in Calls : WF_mcVars(Of("router", Routing(R!CallStep(c))))
    /\ \A c \in Calls : SF_mcVars(Of("router", Routing(R!Lock(c))))

MCSpec == MCInit /\ [][MCNext]_mcVars /\ Fairness
=============================================================================
