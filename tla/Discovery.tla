------------------------------ MODULE Discovery ------------------------------
(***************************************************************************)
(* Who a request is about (rail/discover.py, the first stage of            *)
(* Runner.run): a model, or patterns when there is none, say what the      *)
(* request wants and which words of it mention somebody; code looks those  *)
(* words up, and where they do not name exactly one person the run asks    *)
(* and waits until somebody picks an id.                                   *)
(*                                                                         *)
(* The text is what the passages of it say: of an e-mail an extractor sees *)
(* what its sender wrote, without the quoted history.  Every pass begins   *)
(* anew, and the HR records may change between any two lookups.            *)
(***************************************************************************)
EXTENDS Naturals, FiniteSets

CONSTANTS
    People,      \* ids of HR records, there or not
    FullName, FirstName,    \* of each of them
    Texts,       \* [door, own, whole]: where it came from; what its sender wrote;
                 \* that with what is quoted
    Model,       \* TRUE: a model may do the reading
    MaxChanges,  \* bound: HR records that come or go, and passes that die
    None

Roles == {"subject", "peer"}
Mentions == People \cup {FullName[p] : p \in People} \cup {FirstName[p] : p \in People}
Intents == {"access.same_as_peer", "onboarding", "access.request", "refund.outage", "query",
            "approval_reply", "unknown"}
Intent == [intent : Intents, subject : Mentions \cup {None}, peer : Mentions \cup {None}]
Pin == [Roles -> People \cup {None}]
NoOne == [r \in Roles |-> None]
Need == [role : Roles \cup {"request"}, who : SUBSET People,
         reason : {"no_mention", "no_match", "ambiguous", "same_person", "unclear_request"}]

VARIABLES
    text,        \* the request of the run
    directory,   \* the people who have an HR record now
    changes,
    status,      \* "running", "needs_input" or "done"
    stage,       \* "read", "subject", "peer", "record", "rest" or "compile"
    pins,        \* the ids this pass was called with
    intent, found, needs,   \* what this pass has made out so far
    asking,      \* the needs of the last stage.discover in the audit: what the doors ask
    answered     \* history: the roles that somebody has answered for

vars == <<text, directory, changes, status, stage, pins, intent, found, needs, asking, answered>>
given == <<text, directory, changes>>

TypeOK ==
    /\ text \in Texts
    /\ directory \subseteq People /\ changes \in 0..MaxChanges
    /\ status \in {"running", "needs_input", "done"}
    /\ stage \in {"read", "subject", "peer", "record", "rest", "compile"}
    /\ pins \in Pin /\ found \in Pin
    /\ intent \in Intent
    /\ needs \subseteq Need /\ asking \subseteq Need
    /\ answered \subseteq Roles

(* People are on record under ids that are nobody else's name, and what is *)
(* made out of a passage stands in it.                                     *)
Given ==
    /\ IsFiniteSet(People) /\ None \notin Mentions /\ MaxChanges \in Nat
    /\ \A p, q \in People : FullName[p] = q => p = q
    /\ \A t \in Texts :
        /\ \A p \in {t.own, t.whole} : {p.subject, p.peer, p.id} \cup p.says \subseteq Mentions \cup {None}
        /\ t.door = "email" => {t.own.subject, t.own.peer, t.own.id} \subseteq t.own.says \cup {None}

NotRead == [intent |-> "unknown", subject |-> None, peer |-> None]

(* Whoever starts the run may hold ids already; everybody is on record.    *)
Init ==
    /\ text \in Texts
    /\ directory = People /\ changes = 0
    /\ status = "running" /\ stage = "read"
    /\ pins \in {NoOne} \cup [Roles -> People]
    /\ intent = NotRead /\ found = NoOne /\ needs = {}
    /\ asking = {} /\ answered = {}

-----------------------------------------------------------------------------
(* What the request says                                                   *)

(* untrusted_email cuts quotes and signature off; other doors hand over    *)
(* the text as it is.                                                      *)
ExtractorInput == IF text.door = "email" THEN text.own ELSE text.whole

Fields(i, s, p) == [intent |-> i, subject |-> s, peer |-> p]

(* The patterns, tried in this order; what is found comes with them.       *)
Heuristic(p) ==
    IF "answer" \in p.form THEN Fields("approval_reply", None, None)
    ELSE IF "same as" \in p.form THEN Fields("access.same_as_peer", p.subject, p.peer)
    ELSE IF "joins" \in p.form THEN Fields("onboarding", p.subject, None)
    ELSE IF "newcomer" \in p.form THEN Fields("onboarding", None, None)
    ELSE IF "credit" \in p.form THEN Fields("refund.outage", None, None)
    ELSE IF "question" \in p.form THEN Fields("query", p.id, None)
    ELSE Fields("unknown", None, None)

(* Anything consistent whose mentions are words of the text; what is not,  *)
(* and a model that fails, is left to the patterns.                        *)
Read(p) ==
    {f \in [intent : Intents, subject : p.says \cup {None}, peer : p.says \cup {None}] :
        /\ f.peer # None => f.intent = "access.same_as_peer"
        /\ f.subject # None => f.intent \notin {"approval_reply", "refund.outage", "unknown"}}

Extracted == {Heuristic(ExtractorInput)} \cup (IF Model THEN Read(ExtractorInput) ELSE {})

KindOf(i) == IF i \in {"query", "approval_reply"} THEN i ELSE "request"

-----------------------------------------------------------------------------
(* Who that is                                                             *)

(* A mutant: among several of that name, some one is taken.                *)
BestGuess(mention) ==
    {CHOOSE p \in People : mention \in {p, FullName[p], FirstName[p]}} \cap directory

(* An id reads that record; a name, everybody of that full name, or else   *)
(* of that first name.                                                     *)
Lookup(mention) ==
    IF mention \in People THEN directory \cap {mention}
    ELSE LET full == {p \in directory : FullName[p] = mention}
         IN  IF full # {} THEN full ELSE {p \in directory : FirstName[p] = mention}

(* A pinned id is looked up, too.                                          *)
Sought(role) == IF pins[role] # None THEN pins[role] ELSE intent[role]
Records(role) == IF Sought(role) = None THEN {} ELSE Lookup(Sought(role))

One(role) == IF Cardinality(Records(role)) = 1 THEN CHOOSE p \in Records(role) : TRUE ELSE None

NeedOf(role) ==
    [role |-> role, who |-> Records(role),
     reason |-> IF Sought(role) = None THEN "no_mention"
                ELSE IF Records(role) = {} THEN "no_match" ELSE "ambiguous"]

NeedsSubject == intent.intent \in {"access.same_as_peer", "onboarding", "access.request"}

-----------------------------------------------------------------------------
(* A pass                                                                  *)

Extract ==
    /\ stage = "read"
    /\ intent' \in Extracted
    /\ needs' = IF intent'.intent = "unknown"
                THEN {[role |-> "request", who |-> {}, reason |-> "unclear_request"]} ELSE {}
    /\ found' = NoOne
    /\ stage' = "subject"
    /\ UNCHANGED <<given, status, pins, asking, answered>>

(* Nobody need be found for a question, or for an outage.                  *)
FindSubject ==
    /\ stage = "subject"
    /\ found' = [found EXCEPT !["subject"] = One("subject")]
    /\ needs' = IF One("subject") = None /\ (NeedsSubject \/ intent.subject # None)
                THEN needs \cup {NeedOf("subject")} ELSE needs
    /\ stage' = "peer"
    /\ UNCHANGED <<given, status, pins, intent, asking, answered>>

SamePerson == [role |-> "peer", who |-> {}, reason |-> "same_person"]

FindPeer ==
    /\ stage = "peer"
    /\ \/ /\ intent.intent # "access.same_as_peer"
          /\ UNCHANGED <<found, needs>>
       \/ /\ intent.intent = "access.same_as_peer" /\ One("peer") = None
          /\ needs' = needs \cup {NeedOf("peer")}
          /\ UNCHANGED found
       \/ /\ intent.intent = "access.same_as_peer" /\ One("peer") # None
          /\ One("peer") = found["subject"]
          /\ needs' = needs \cup {SamePerson}
          /\ UNCHANGED found
       \/ /\ intent.intent = "access.same_as_peer" /\ One("peer") # None
          /\ One("peer") # found["subject"]
          /\ found' = [found EXCEPT !["peer"] = One("peer")]
          /\ UNCHANGED needs
    /\ stage' = "record"
    /\ UNCHANGED <<given, status, pins, intent, asking, answered>>

(* One transaction: the run asks; or it is about nobody, and is a question *)
(* that is answered elsewhere; or it goes on to Compile.                   *)
Record ==
    /\ stage = "record"
    /\ asking' = needs
    /\ \/ needs # {} /\ status' = "needs_input" /\ stage' = "rest"
       \/ needs = {} /\ found["subject"] = None /\ status' = "done" /\ stage' = "rest"
       \/ needs = {} /\ found["subject"] # None /\ stage' = "compile" /\ UNCHANGED status
    /\ UNCHANGED <<given, pins, intent, found, needs, answered>>

-----------------------------------------------------------------------------
(* Answers, changes and failures                                           *)

(* A pass begins at Discover, whatever an earlier one made out.            *)
Anew == stage' = "read" /\ intent' = NotRead /\ found' = NoOne /\ needs' = {}

(* A pick answers for one role, and the run begins again with that alone.  *)
Pick(role, p) ==
    /\ status = "needs_input"
    /\ pins' = [NoOne EXCEPT ![role] = p]
    /\ answered' = answered \cup {role}
    /\ status' = "running" /\ Anew
    /\ UNCHANGED <<given, asking>>

(* A button of the message that asks; any id at POST /runs/{id}/pick.      *)
PressButton == \E n \in asking : n.role \in Roles /\ \E p \in n.who : Pick(n.role, p)
PickById == \E role \in Roles, p \in People : Pick(role, p)

Change == changes < MaxChanges /\ changes' = changes + 1

RecordsChange(p) ==
    /\ Change
    /\ directory' = (directory \cup {p}) \ (directory \cap {p})
    /\ UNCHANGED <<text, status, stage, pins, intent, found, needs, asking, answered>>

(* The pass dies; the job of a ticket runs it again, without its pins.     *)
BeginAgain ==
    /\ Change
    /\ status = "running" /\ stage # "compile"
    /\ Anew /\ pins' = NoOne
    /\ UNCHANGED <<text, directory, status, asking, answered>>

Pass == Extract \/ FindSubject \/ FindPeer \/ Record

Next ==
    \/ Pass
    \/ PressButton \/ PickById
    \/ (\E p \in People : RecordsChange(p)) \/ BeginAgain

Spec == Init /\ [][Next]_vars

-----------------------------------------------------------------------------
(* Somebody the request, as its sender wrote it, names in so many words,   *)
(* or whose id the pass was given.                                         *)
Meant(role, p) ==
    IF pins[role] # None THEN p = pins[role]
    ELSE /\ text.door = "email" => intent[role] \in text.own.says
         /\ p = intent[role] \/ FullName[p] = intent[role] \/ FirstName[p] = intent[role]

(* Nobody's access is touched who was not meant: a run goes on only with a *)
(* subject, and with a peer if there is one, who were meant, and who are   *)
(* not the same person.                                                    *)
RightPeople ==
    stage = "compile" =>
        /\ found["subject"] # None /\ Meant("subject", found["subject"])
        /\ intent.intent = "access.same_as_peer" <=> found["peer"] # None
        /\ found["peer"] # None =>
              Meant("peer", found["peer"]) /\ found["peer"] # found["subject"]

(* Of two people whom the words fit equally well neither is taken, while   *)
(* their records stay.                                                     *)
NobodyIsGuessed ==
    stage = "compile" /\ changes = 0 =>
        \A r \in Roles : found[r] # None /\ pins[r] = None =>
            \A p \in directory \ {found[r]} :
                /\ FullName[p] # intent[r]
                /\ FirstName[p] = intent[r] => intent[r] \in {found[r], FullName[found[r]]}

(* A button that answers a question answers it: it is not asked again in   *)
(* the pass that follows, unless both turn out to be one person.           *)
AnswersCount ==
    status = "needs_input" =>
        \A n \in asking :
            n.role \in Roles /\ pins[n.role] # None /\ changes = 0 => n.reason = "same_person"

DiscoveryIsSound == RightPeople /\ NobodyIsGuessed /\ AnswersCount

(* What was answered is not asked again: the run continues after the       *)
(* answer.                                                                 *)
AsksOnce ==
    status = "needs_input" =>
        \A n \in asking : n.role \in answered /\ changes = 0 => n.reason = "same_person"
=============================================================================
