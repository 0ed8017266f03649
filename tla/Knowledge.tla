------------------------------ MODULE Knowledge ------------------------------
(***************************************************************************)
(* The curated pages (knowledge/okf.py), what Compile takes from them for  *)
(* a case (knowledge/query.py, rail/compile.py), and what the lint says of *)
(* them (knowledge/lint.py).                                               *)
(*                                                                         *)
(* A page is its path, the shelf it lies on, whether its frontmatter is    *)
(* usable, what that says, and its sections in order: the clauses a        *)
(* section's heading answers to, and the rules whose text stands in it.    *)
(***************************************************************************)
EXTENDS Integers, Sequences, FiniteSets

CONSTANTS
    Rules,       \* the shipped rules
    Cites,       \* the page and the clause each of them cites
    Governs,     \* the kinds of employment each of them applies to
    Budget       \* FRESHNESS_DAYS

-----------------------------------------------------------------------------
(* The bundle                                                              *)

(* Drafts, raw notes and hidden files are not loaded.                      *)
Loaded(files) == {f \in files : f.shelf = "curated"}

(* index.md and log.md need no type, and may have no frontmatter at all.   *)
HasMeta(p) == p.front = "valid" \/ (p.front = "typeless" /\ p.reserved)
Problem(p) == ~HasMeta(p) /\ ~(p.front = "none" /\ p.reserved)

Concepts(books) == {p \in books : HasMeta(p) /\ ~p.reserved}

(* The first section whose heading answers to the clause is the one cited. *)
Quotes(p, r) ==
    \E i \in DOMAIN p.sections :
        /\ Cites[r].clause \in p.sections[i].clauses
        /\ \A j \in 1..i - 1 : Cites[r].clause \notin p.sections[j].clauses
        /\ r \in p.sections[i].texts

ClausePages(books, r) == {p \in books : p.path = Cites[r].page /\ HasMeta(p) /\ Quotes(p, r)}

-----------------------------------------------------------------------------
(* Evidence                                                                *)

Undated == -1    \* no last_verified

Item(id, kind, day) == [id |-> id, kind |-> kind, day |-> day, stale |-> FALSE]

(* A clause dated by its page, or the rule's own text without a date.      *)
RuleEvidence(books, r) ==
    Item(<<"rule", r>>, "policy",
         IF ClausePages(books, r) = {} THEN Undated ELSE (CHOOSE p \in ClausePages(books, r) : TRUE).day)

MissingPolicy(books) == {<<"missing", r>> : r \in {s \in Rules : ClausePages(books, s) = {}}}

PrecedentEvidence(books) ==
    {Item(<<"page", p.path>>, "precedent", p.day) :
        p \in {q \in Concepts(books) : q.type = "Precedent" /\ q.rules \cap Rules # {}}}

(* The pages linked by a rule that applies to the subject, by a tag of the *)
(* case, or by describing the subject's role.                              *)
Linked(books, subject, tags) ==
    {p \in Concepts(books) :
        \/ p.type # "Role" /\ \E r \in p.rules \cap Rules : subject.employment \in Governs[r]
        \/ p.tags \cap ({subject.employment, subject.role} \cup tags) # {}
        \/ p.path = subject.role}

ConceptEvidence(books, subject, tags) ==
    {Item(<<"page", p.path>>, IF p.type = "Precedent" THEN "precedent" ELSE "policy", p.day) :
        p \in Linked(books, subject, tags)}

(* The first of each id is kept.                                           *)
KeepFirst(first, then) == first \cup {e \in then : \A f \in first : f.id # e.id}

IsStale(e, today) == e.day # Undated /\ today - e.day > Budget[e.kind]
Judged(items, today) == {[e EXCEPT !.stale = IsStale(e, today)] : e \in items}

(* What Govern relies on; a text that nobody curates decides nothing.      *)
Deciding == {"record", "policy", "precedent"}

-----------------------------------------------------------------------------
(* The lint                                                                *)

LintBudget(p) == Budget[IF p.type = "Precedent" THEN "precedent" ELSE "policy"]

OutOfDate(books, today) ==
    {p \in Concepts(books) : p.day = Undated \/ today - p.day > LintBudget(p)}

Contradicting(books) ==
    {p \in Concepts(books) :
        \E q \in Concepts(books) : \E c \in p.claims, d \in q.claims : c[1] = d[1] /\ c[2] # d[2]}

(* A link may lead to a draft.                                             *)
BrokenLinks(files) ==
    {p \in Loaded(files) : \E t \in p.links : \A q \in files : q.path # t}

Orphans(books) ==
    {p \in books :
        /\ p.path # "index" /\ (HasMeta(p) \/ p.reserved)
        /\ \A q \in books \ {p} : p.path \notin q.links}

(* The rules that their page does not quote or does not list, and the      *)
(* pages that list a rule nobody ships.                                    *)
BadSources(books) ==
    {r \in Rules : \A p \in ClausePages(books, r) : r \notin p.rules}
    \cup {p \in Concepts(books) : ~(p.rules \subseteq Rules)}

LintOK(files, today) ==
    LET books == Loaded(files)
    IN  /\ {p \in books : Problem(p)} = {}
        /\ Contradicting(books) = {} /\ OutOfDate(books, today) = {}
        /\ BrokenLinks(files) = {} /\ Orphans(books) = {}
        /\ BadSources(books) = {}
=============================================================================
