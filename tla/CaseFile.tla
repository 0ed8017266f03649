------------------------------ MODULE CaseFile -------------------------------
(***************************************************************************)
(* The case file of a run (the Compile stage of Runner.run; rail/compile.py*)
(* and rail/constraints.py): evidence from the records, from the pages the *)
(* process loaded when it started, from Slack and from the statement of    *)
(* work; the constraints a model reads out of that, if its quotes stand    *)
(* there; and the blockers that keep the run from ending well.             *)
(*                                                                         *)
(* A day passes, a message is posted, a page is edited, or the process is  *)
(* started again, at any point of a pass; the case stays as it was sealed. *)
(***************************************************************************)
EXTENDS Knowledge

CONSTANTS
    Requests,    \* [subject, peers, tags]: whom a run is about, and the intent's tags
    Libraries,   \* the states of the knowledge directory
    Spans,       \* what a model may quote
    Messages,    \* what may be posted in Slack, each with its day
    Limit,       \* how many messages are retrieved
    Days,        \* bound: the days from the first pass to the last
    MaxEdits     \* bound: edits of the knowledge directory

VARIABLES
    request,
    files, edits,  \* the knowledge directory
    shelf,       \* that directory as it was when the process loaded its bundle
    today, posted,
    stage,       \* "gather", "retrieve", "judge", "quote", "seal" or "sealed"
    gathered,    \* the evidence of this pass so far, ...
    quoted,      \* ... the constraints, ...
    blockers,    \* ... and the blockers
    judged,      \* history: the day on which this pass judged its evidence
    sealed       \* the capsule of the run, with that day and the shelf

vars == <<request, files, edits, shelf, today, posted, stage, gathered, quoted, blockers, judged, sealed>>
world == <<request, files, edits, shelf, today, posted>>

NoCase == [evidence |-> {}, constraints |-> {}, blockers |-> {}, day |-> Undated, shelf |-> {}]

(* What is given: days are numbers and have a first; a precedent is not    *)
(* fresh for longer than a policy; a directory has one page under a path,  *)
(* and no rule cites a reserved one; people and messages have ids of their *)
(* own, and one statement of work at most is on file for a person.         *)
Given ==
    /\ MaxEdits \in Nat /\ Days \subseteq Int /\ \E d \in Days : \A e \in Days : d <= e
    /\ DOMAIN Budget = {"record", "policy", "precedent", "document", "message"}
    /\ (\A k \in DOMAIN Budget : Budget[k] \in Int) /\ Budget["precedent"] <= Budget["policy"]
    /\ \A library \in Libraries : \A p, q \in library :
          /\ p.day \in Int /\ (p.path = q.path => p = q)
          /\ p.reserved => \A r \in Rules : Cites[r].page # p.path
    /\ \A case \in Requests : \A p, q \in {case.subject} \cup case.peers :
          /\ p.day \in Int /\ (p.id = q.id => p = q)
          /\ \A a, b \in p.sow : a.day \in Int /\ a = b
    /\ \A m, n \in Messages : m.day \in Int /\ (m.id = n.id => m = n)

TypeOK ==
    /\ request \in Requests /\ files \in Libraries /\ edits \in 0..MaxEdits
    /\ shelf \in Libraries
    /\ today \in Days /\ posted \subseteq Messages
    /\ stage \in {"gather", "retrieve", "judge", "quote", "seal", "sealed"}
    /\ \A e \in gathered : e.kind \in DOMAIN Budget /\ e.stale \in BOOLEAN
    /\ judged \in Days \cup {Undated}
    /\ sealed = NoCase \/ sealed.day \in Days

Init ==
    /\ request \in Requests
    /\ files \in Libraries /\ edits = 0 /\ shelf = files
    /\ today = (CHOOSE d \in Days : \A e \in Days : d <= e) /\ posted = {}
    /\ stage = "gather" /\ gathered = {} /\ quoted = {} /\ blockers = {}
    /\ judged = Undated /\ sealed = NoCase

-----------------------------------------------------------------------------
(* Compile                                                                 *)

(* Platform.knowledge.                                                     *)
Books == Loaded(shelf)

(* A record that names no day was verified just now.                       *)
RecordEvidence(p) == Item(<<"hris", p.id>>, "record", IF p.day = Undated THEN today ELSE p.day)

Records == {RecordEvidence(p) : p \in {request.subject} \cup request.peers}
Policy == {RuleEvidence(Books, r) : r \in Rules} \cup PrecedentEvidence(Books)

(* gather_inputs reads records, holdings, catalogue and pages.             *)
Gather ==
    /\ stage = "gather"
    /\ gathered' = Records \cup Policy
    /\ blockers' = MissingPolicy(Books)
    /\ stage' = "retrieve"
    /\ UNCHANGED <<world, quoted, judged, sealed>>

Sow(s) == {Item(<<"sow", s.id>>, "document", doc.day) : doc \in s.sow}

(* The messages that match the search terms best, whatever they say.       *)
Hits == {hits \in SUBSET posted : Cardinality(hits) <= Limit}

(* Messages, linked pages and the statement of work, all of it merged.     *)
Retrieve ==
    /\ stage = "retrieve"
    /\ \E hits \in Hits :
        gathered' =
            KeepFirst(gathered,
                      ConceptEvidence(Books, request.subject, request.tags) \cup Sow(request.subject)
                      \cup {Item(<<"message", m.id>>, "message", m.day) : m \in hits})
    /\ stage' = "judge"
    /\ UNCHANGED <<world, quoted, blockers, judged, sealed>>

Blocks(e) == e.stale /\ e.kind \in Deciding

MarkStale ==
    /\ stage = "judge"
    /\ judged' = today
    /\ gathered' = Judged(gathered, today)
    /\ blockers' = blockers \cup {<<"stale", e.id>> : e \in {f \in Judged(gathered, today) : Blocks(f)}}
    /\ stage' = "quote"
    /\ UNCHANGED <<world, quoted, sealed>>

(* What the record itself says of a contractor or a vendor.                *)
RecordLines(s) ==
    IF s.employment \notin {"contractor", "vendor"} THEN {}
    ELSE {<<"record", "no production">>}
         \cup (IF s.repos THEN {<<"record", "repositories">>} ELSE {})
         \cup (IF s.ends THEN {<<"record", "end date">>} ELSE {})

(* A span that is long enough and stands in the document.                  *)
CheckQuotes(items, sow) == items \cap sow.spans

(* There may be no model, or none that answers as it was told to.          *)
ExtractConstraints ==
    /\ stage = "quote"
    /\ \/ quoted' = RecordLines(request.subject)
       \/ \E doc \in request.subject.sow, items \in SUBSET Spans :
              quoted' = RecordLines(request.subject) \cup {<<"cited", q>> : q \in CheckQuotes(items, doc)}
    /\ stage' = "seal"
    /\ UNCHANGED <<world, gathered, blockers, judged, sealed>>

(* One transaction: the case with its digest, on the row of the run.       *)
Seal ==
    /\ stage = "seal"
    /\ sealed' = [evidence |-> gathered, constraints |-> quoted, blockers |-> blockers,
                  day |-> judged, shelf |-> shelf]
    /\ stage' = "sealed"
    /\ UNCHANGED <<world, gathered, quoted, blockers, judged>>

-----------------------------------------------------------------------------
(* The world around the pass                                               *)

Tomorrow ==
    /\ today + 1 \in Days
    /\ today' = today + 1
    /\ UNCHANGED <<request, files, edits, shelf, posted, stage, gathered, quoted, blockers, judged, sealed>>

PostMessage(m) ==
    /\ posted' = posted \cup {m}
    /\ UNCHANGED <<request, files, edits, shelf, today, stage, gathered, quoted, blockers, judged, sealed>>

EditPages(library) ==
    /\ edits < MaxEdits /\ edits' = edits + 1
    /\ files' = library
    /\ UNCHANGED <<request, shelf, today, posted, stage, gathered, quoted, blockers, judged, sealed>>

(* A pass that dies is begun again by the process that starts, which loads *)
(* the pages as they are now.                                              *)
Restart ==
    /\ stage # "sealed"
    /\ shelf' = files
    /\ stage' = "gather" /\ gathered' = {} /\ quoted' = {} /\ blockers' = {}
    /\ UNCHANGED <<request, files, edits, today, posted, judged, sealed>>

Next ==
    \/ Gather \/ Retrieve \/ MarkStale \/ ExtractConstraints \/ Seal
    \/ Tomorrow \/ (\E m \in Messages : PostMessage(m))
    \/ (\E l \in Libraries : EditPages(l)) \/ Restart

Spec == Init /\ [][Next]_vars

-----------------------------------------------------------------------------
(* Every rule is in the case once, and where its page did not carry its    *)
(* text, that is a blocker and not an assumption.                          *)
RulesAreQuoted ==
    sealed # NoCase =>
        \A r \in Rules :
            /\ Cardinality({e \in sealed.evidence : e.id = <<"rule", r>>}) = 1
            /\ <<"missing", r>> \in sealed.blockers <=> ClausePages(Loaded(sealed.shelf), r) = {}

(* No two pieces of evidence share an id: a case that has such a pair is   *)
(* refused, and its run could never be compiled.                           *)
IdsAreUnique == \A e, f \in sealed.evidence : e.id = f.id => e = f

(* Old evidence blocks if it decides anything, and no text that somebody   *)
(* wrote in Slack or in a contract can hold a run up.                      *)
OnlyOldEvidenceBlocks ==
    \A e \in sealed.evidence :
        <<"stale", e.id>> \in sealed.blockers <=>
            e.kind \notin {"message", "document"} /\ e.day # Undated /\ sealed.day - e.day > Budget[e.kind]

(* Pages that pass the lint on that day never block: what is left is about *)
(* the records of the people.                                              *)
CleanPagesNeverBlock ==
    sealed # NoCase /\ LintOK(sealed.shelf, sealed.day) =>
        \A b \in sealed.blockers : b[1] = "stale" /\ b[2][1] = "hris"

(* A constraint follows from the record or is quoted from the document;    *)
(* those of the record are there, whatever a model does.                   *)
ConstraintsAreGrounded ==
    sealed # NoCase =>
        /\ RecordLines(request.subject) \subseteq sealed.constraints
        /\ \A line \in sealed.constraints \ RecordLines(request.subject) :
              \E doc \in request.subject.sow : line[2] \in doc.spans

CaseIsSound ==
    /\ RulesAreQuoted /\ IdsAreUnique /\ OnlyOldEvidenceBlocks
    /\ CleanPagesNeverBlock /\ ConstraintsAreGrounded
=============================================================================
