------------------------------- MODULE MCWork -------------------------------
(***************************************************************************)
(* A small instance of module Work, for TLC, which explores one component  *)
(* in each behaviour, the one that part names, while the variables of the  *)
(* others keep their initial values.                                       *)
(*                                                                         *)
(* Executors: x and y carry the same action in two passes, z carries the   *)
(* same change under the id a rebuilt plan gave it.                        *)
(*                                                                         *)
(* Calls: "d1" and "d2" are deliveries of one direct message, "d3" brings  *)
(* its event with another text; "w" and "p" bring a raised ticket, and its *)
(* job is delivered twice.                                                 *)
(*                                                                         *)
(* People: Anil Kumar and two Rahuls; requests for one or two of them, and *)
(* a mail that quotes another request.  Pages: one with the clauses of two *)
(* rules, a precedent, a role; all in order, or with a clause that has     *)
(* moved, a page among the drafts, or one without a date.                  *)
(*                                                                         *)
(* Sessions: two passes of one run under its lock, one of them a ticket's; *)
(* a decision and the pass it resumes, without the lock; a receipt.        *)
(***************************************************************************)
EXTENDS Work

MCKeyOf == [x \in Executors |-> CASE x = "z" -> "A01" [] OTHER -> "A02"]
MCChangeOf == [x \in Executors |-> "repo"]
OneProcess == [x \in Executors |-> "x"]

OneTicket == [c \in Posts \cup Webhooks |-> "ticket"]
OneMessage == [c \in Requests |-> "message"]
OneEvent == [c \in Requests |-> "event"]
Bodies == [c \in Requests |-> IF c = "d3" THEN "other" ELSE "laptop"]

Full == [p \in People |-> IF p = "anil" THEN "Anil Kumar" ELSE IF p = "mehta" THEN "Rahul Mehta" ELSE "Rahul Shah"]
First == [p \in People |-> IF p = "anil" THEN "Anil" ELSE "Rahul"]

Passage(form, s, p, id, says) == [form |-> form, subject |-> s, peer |-> p, id |-> id, says |-> says]
Typed(passage) == [door |-> "slack", own |-> passage, whole |-> passage]
TwoRahuls == Typed(Passage({"same as"}, "Rahul", "Rahul", "none", {}))
SomeTexts ==
    {TwoRahuls,
     Typed(Passage({"same as"}, "Anil", "Rahul", "none", {"Rahul", "Anil"})),
     Typed(Passage({"question"}, "none", "none", "mehta", {})),
     Typed(Passage({"answer", "joins"}, "Anil", "none", "none", {})),
     [door |-> "email", own |-> Passage({"newcomer"}, "none", "none", "none", {}),
      whole |-> Passage({"same as"}, "Anil Kumar", "mehta", "none", {"Anil Kumar", "mehta"})]}

Person(id, employment, role, day, sow) ==
    [id |-> id, employment |-> employment, role |-> role, day |-> day, sow |-> sow,
     repos |-> employment = "contractor", ends |-> FALSE]
Ann == Person("ann", "employee", "ops", -1, {})
Contract == [day |-> 0, spans |-> {"read-only access"}]
SomeCases ==
    {[subject |-> Ann, peers |-> {}, tags |-> {"onboarding"}],
     [subject |-> Person("cal", "contractor", "dev", 1, {Contract}), peers |-> {Ann}, tags |-> {}]}

Page(path, type, day, rules, sections) ==
    [path |-> path, shelf |-> "curated", reserved |-> FALSE, front |-> "valid", type |-> type, tags |-> {},
     rules |-> rules, day |-> day, sections |-> sections, links |-> {}, claims |-> {}]
Section(clauses, texts) == [clauses |-> clauses, texts |-> texts]
Index == [Page("index", "none", -1, {}, <<>>) EXCEPT !.reserved = TRUE, !.front = "none",
                                                     !.links = {"access", "case", "dev"}]
Access == Page("access", "Policy", 0, {"r1", "r2"},
               <<Section({"1"}, {"r1"}), Section({"2"}, {"r2"}), Section({"2"}, {})>>)
Case == Page("case", "Precedent", 2, {"r1"}, <<>>)
Dev == [Page("dev", "Role", 2, {}, <<>>) EXCEPT !.tags = {"onboarding"}]
InOrder == {Index, Access, Case, Dev}
Shelves ==
    {InOrder,
     {Index, [Access EXCEPT !.sections = <<@[1], @[3], @[2]>>], Case, Dev},
     {Index, [Access EXCEPT !.shelf = "drafts"], Case, [Dev EXCEPT !.front = "typeless"]},
     {Index, [Access EXCEPT !.day = -1], [Case EXCEPT !.rules = {"r1", "r9"}],
      [Dev EXCEPT !.claims = {<<"owner", "it">>}]}}
Clauses == [r \in {"r1", "r2"} |-> [page |-> "access", clause |-> IF r = "r1" THEN "1" ELSE "2"]]
Governed == [r \in {"r1", "r2"} |-> IF r = "r1" THEN {"employee", "contractor"} ELSE {"contractor"}]
Budgets == [k \in {"record", "policy", "precedent", "document", "message"} |->
               CASE k = "policy" -> 3 [] k = "message" -> 0 [] OTHER -> 1]

OneMail == {[id |-> "m", day |-> 0]}

K == INSTANCE Transactions
Scripts ==
    [job |-> K!UnderLock("ticket", K!UnderLock("run", K!Halt("r"))),
     pick |-> K!UnderLock("run", K!Stage("r")),
     door |-> K!Record \o K!Stage("r"),
     receipt |-> K!UnderLock("receipt", K!AppendAudit)]

(* What the proofs are given of the constants holds of these: the row of a *)
(* run is taken under the lock of its run, and that under its ticket's.    *)
(* (That they append under the lock of the chain is part of TypesOK.)      *)
Guard == [row \in {<<"row", "r">>} |-> <<"key", "run">>]
Rank == [l \in {<<"key", k>> : k \in {"ticket", "run", "receipt"}} |-> IF l[2] = "run" THEN 1 ELSE 0]

ASSUME AllGiven ==
    /\ I!CallersAreGiven /\ I!KeysKeepRefs /\ ~Echo
    /\ D!Given /\ C!Given
    /\ B!LocksInTransactions /\ B!TakesInOrder(Orderly, Guard, Rank)

VARIABLES part

mcVars == <<part, workVars>>

Of(name, Move) == part = name /\ Move /\ UNCHANGED part

MCInit ==
    /\ part \in {"execute", "intake", "discovery", "case", "database"}
    /\ WorkInit
    /\ part # "discovery" => text = TwoRahuls /\ pins = D!NoOne
    /\ part # "case" => request.peers = {} /\ files = InOrder

MCNext ==
    \/ Of("execute", Executing(Next))
    \/ Of("intake", Taking(I!Next))
    \/ Of("discovery", Finding(D!Next))
    \/ Of("case", Compiling(C!Next))
    \/ Of("database", Connecting(B!Next))

(* Executors and callers that have begun go on; workers come back for the  *)
(* job of a ticket; the event loop goes on and timers run.                 *)
Fairness ==
    /\ \A x \in Executors : WF_mcVars(Of("execute", Executing(Step(x))))
    /\ \A c \in JobRuns \cup {"p"} : WF_mcVars(Of("intake", Taking(I!Step(c))))
    /\ \A c \in JobRuns : WF_mcVars(Of("intake", Taking(I!OpenTicket(c, "ticket"))))
    /\ WF_mcVars(\E s \in Sessions : Of("database", Connecting(B!Step(s))))

MCSpec == MCInit /\ [][MCNext]_mcVars /\ Fairness

(* One request, for two people of one name, which a model does not read.   *)
PickSpec ==
    /\ MCInit /\ part = "discovery" /\ text = TwoRahuls /\ pins = D!NoOne
    /\ [][Of("discovery", Finding(D!Next)) /\ intent' \in {intent, D!Heuristic(text.own), D!NotRead}]_mcVars

-----------------------------------------------------------------------------
(* Every call of Execute returns, however the target answers, and every    *)
(* session of the database ends.                                           *)
WorkEnds == (part = "execute" => Returns) /\ B!EveryoneIsServed
=============================================================================
