----------------------------- MODULE Questions ------------------------------
(***************************************************************************)
(* Questions put to a door: about a request, answered from the records and *)
(* the memory of the conversation (surfaces/door.py, memory.py), or about  *)
(* policy, answered by the model's choice of read tools                    *)
(* (llm/question_agent.py, surfaces/read_tools.py).                        *)
(*                                                                         *)
(* Runs go on meanwhile: a run is in phase 0 before it exists, and each    *)
(* phase it commits leaves the audit row <<run, phase>>.                   *)
(***************************************************************************)
EXTENDS Naturals, Sequences, FiniteSets, FiniteSetsExt, SequencesExt

CONSTANTS
    Askers,        \* each asks one question
    Persons,
    Threads,
    Runs,          \* numbers, in order of creation
    OwnerOf, ThreadOf,
    MayAsk,        \* by asker: who asks, in which thread, about "request" or "policy",
                   \* and which runs match what the question names
    Phases,        \* bound
    Decisions,     \* the audit rows that record an approver's decision
    Keep,          \* entries kept of a thread
    MaxSteps, MaxSpend, MaxCost

VARIABLES phase, memory, lock, ask

vars == <<phase, memory, lock, ask>>

Nobody == "nobody"
Unnamed == {0}
NoRun == 0
Scopes == Persons \X Threads
Tools == ({"search", "precedents", "mine"} \X {NoRun}) \cup ({"status"} \X Runs)
Rows == Runs \X (1..Phases)
Entry == [run : Runs, id : Askers \X {1, 2}]
Idle == [at |-> "idle", who |-> Nobody, thread |-> "none", ref |-> Unnamed, run |-> NoRun, cites |-> {},
         told |-> 0, source |-> "none", seen |-> {}, spent |-> 0, tool |-> <<"none", NoRun>>, left |-> 0, drop |-> {}]

TypeOK ==
    /\ phase \in [Runs -> 0..Phases]
    /\ memory \in [Scopes -> Seq(Entry)]
    /\ lock \in [Scopes -> Askers \cup {Nobody}]
    /\ \A c \in Askers :
          /\ ask[c].at \in {"idle", "recall", "find", "cite", "look", "insert", "commit",
                            "model", "read", "search", "done"}
          /\ ask[c].who \in Persons \cup {Nobody} /\ ask[c].run \in Runs \cup {NoRun}
          /\ ask[c].cites \subseteq Rows /\ ask[c].seen \subseteq Tools
          /\ ask[c].source \in {"none", "records", "knowledge"}

(* What may be given: numbered runs, each of a person; a thread is named.  *)
Given ==
    /\ \E last \in {0} \cup Runs : last \in Nat /\ Runs \subseteq 1..last
    /\ \A r \in Runs : OwnerOf[r] # Nobody
    /\ Nobody \notin Askers /\ "none" \notin Threads
    /\ \A c \in Askers : \A q \in MayAsk[c] :
          q.who \in Persons \cup {Nobody} /\ q.thread \in Threads \cup {"none"} /\ q.ref \subseteq Nat
    /\ Decisions \subseteq Rows
    /\ Phases \in Nat /\ Keep \in Nat \ {0} /\ MaxSpend \in Nat \ {0} /\ MaxCost \in Nat

Init ==
    /\ phase = [r \in Runs |-> 0]
    /\ memory = [s \in Scopes |-> <<>>] /\ lock = [s \in Scopes |-> Nobody]
    /\ ask = [c \in Askers |-> Idle]

-----------------------------------------------------------------------------
Progress(r) ==
    /\ phase[r] < Phases /\ phase' = [phase EXCEPT ![r] = @ + 1]
    /\ UNCHANGED <<memory, lock, ask>>

At(c, place) == ask[c].at = place
Set(c, record) == ask' = [ask EXCEPT ![c] = record] /\ UNCHANGED phase
Reads(c, record) == Set(c, record) /\ UNCHANGED <<memory, lock>>
Answered(c) == [ask[c] EXCEPT !.at = "done", !.seen = {}, !.tool = Idle.tool]
Scope(c) == <<ask[c].who, ask[c].thread>>

(* A question about a request of nobody known finds none; one about policy *)
(* goes to the model or, without one, to the knowledge base.               *)
Ask(c) ==
    /\ At(c, "idle")
    /\ \E q \in MayAsk[c] :
       LET asked == [Idle EXCEPT !.who = q.who, !.thread = q.thread, !.ref = q.ref] IN
       \/ q.about = "policy" /\ \E next \in {"model", "search"} : Reads(c, [asked EXCEPT !.at = next])
       \/ q.about = "request" /\ q.who = Nobody /\ Reads(c, [asked EXCEPT !.at = "done"])
       \/ q.about = "request" /\ q.who # Nobody /\ Reads(c, [asked EXCEPT !.at = "recall"])

-----------------------------------------------------------------------------
(* About a request.  Memory only points to a run.                          *)

Recall(c) ==
    /\ At(c, "recall")
    /\ LET entries == IF ask[c].thread = "none" THEN <<>> ELSE memory[Scope(c)] IN
       Reads(c, [ask[c] EXCEPT !.at = "find", !.run = IF entries = <<>> THEN NoRun ELSE Last(entries).run])

Own(c) == {r \in Runs : phase[r] > 0 /\ OwnerOf[r] = ask[c].who}

(* The run meant: the one named, the last of the thread, the one remembered *)
(* or the asker's last.                                                    *)
Meant(c) ==
    LET named    == Own(c) \cap ask[c].ref
        inThread == {r \in Own(c) : ThreadOf[r] = ask[c].thread}
    IN  IF ask[c].ref # Unnamed THEN IF Cardinality(named) = 1 THEN Max(named) ELSE NoRun
        ELSE IF inThread # {} THEN Max(inThread)
        ELSE IF ask[c].run \in Own(c) THEN ask[c].run
        ELSE IF Own(c) = {} THEN NoRun ELSE Max(Own(c))

Find(c) ==
    /\ At(c, "find")
    /\ Reads(c, IF Meant(c) = NoRun THEN [Answered(c) EXCEPT !.run = NoRun]
                                    ELSE [ask[c] EXCEPT !.at = "cite", !.run = Meant(c)])

Cite(c) ==
    /\ At(c, "cite")
    /\ Reads(c, [ask[c] EXCEPT !.at = "look", !.cites = {ask[c].run} \X (1..phase[ask[c].run])])

(* The status is read after the rows.                                      *)
Look(c) ==
    /\ At(c, "look")
    /\ LET asked == [ask[c] EXCEPT !.told = phase[ask[c].run], !.source = "records"] IN
       Reads(c, IF ask[c].tool[1] = "status" \/ ask[c].thread = "none" THEN [asked EXCEPT !.at = "done", !.seen = {}]
                ELSE [asked EXCEPT !.at = "insert", !.left = 2])

(* A mutant: appending takes no lock.                                      *)
NoLock(c) == UNCHANGED lock

Locked(c) == lock[Scope(c)] = Nobody /\ lock' = [lock EXCEPT ![Scope(c)] = c]

(* What is dropped is the oldest: it stands first.                         *)
Without(gone, entries) ==
    SubSeq(entries, Cardinality({i \in DOMAIN entries : entries[i] \in gone}) + 1, Len(entries))

(* Question and answer are each remembered by a transaction: it inserts an *)
(* entry and deletes what it sees beyond the newest.                       *)
Insert(c) ==
    /\ At(c, "insert") /\ Locked(c)
    /\ LET known  == memory[Scope(c)]
           excess == IF Len(known) < Keep THEN 0 ELSE Len(known) + 1 - Keep
       IN  Set(c, [ask[c] EXCEPT !.at = "commit", !.drop = ToSet(SubSeq(known, 1, excess))])
    /\ UNCHANGED memory

Commit(c) ==
    /\ At(c, "commit")
    /\ memory' = [memory EXCEPT ![Scope(c)] =
                     Append(Without(ask[c].drop, @), [run |-> ask[c].run, id |-> <<c, ask[c].left>>])]
    /\ lock' = [lock EXCEPT ![Scope(c)] = Nobody]
    /\ Set(c, [ask[c] EXCEPT !.at = IF ask[c].left > 1 THEN "insert" ELSE "done",
                             !.left = @ - 1, !.drop = {}])

(* The retention ends, or the thread is forgotten for its person.          *)
Expire(s) ==
    /\ memory[s] # <<>>
    /\ \E rest \in {<<>>, Tail(memory[s])} : memory' = [memory EXCEPT ![s] = rest]
    /\ UNCHANGED <<phase, lock, ask>>

-----------------------------------------------------------------------------
(* About policy.  The model chooses one read tool at a time.               *)

MayGoOn(c) == ask[c].spent < MaxSpend /\ Cardinality(ask[c].seen) < MaxSteps

Choose(c) ==
    /\ At(c, "model")
    /\ \/ Reads(c, [ask[c] EXCEPT !.at = "search"])
       \/ /\ MayGoOn(c)
          /\ \E cost \in 1..MaxCost, tool \in Tools \ ask[c].seen :
                Reads(c, [ask[c] EXCEPT !.at = "read", !.tool = tool, !.spent = @ + cost, !.seen = @ \cup {tool}])

Support(c, rows, source) == Reads(c, [Answered(c) EXCEPT !.cites = rows, !.source = source])

NoSupport(c) ==
    Reads(c, [ask[c] EXCEPT !.at = IF MayGoOn(c) /\ (ask[c].who # Nobody \/ ask[c].tool[1] \in {"search", "precedents"})
                                   THEN "model" ELSE "search"])

Recorded == {row \in Decisions : row[2] <= phase[row[1]]}

(* A tool about runs checks whose they are.  Precedents are counted from   *)
(* the decisions on all runs, and cite them.  Knowledge and precedents may *)
(* support an answer or not.                                               *)
Read(c) ==
    /\ At(c, "read")
    /\ LET name == ask[c].tool[1]
           run  == ask[c].tool[2]
       IN  \/ name = "search" /\ Support(c, {}, "knowledge")
           \/ /\ name = "precedents"
              /\ \E rows \in SUBSET Recorded : rows # {} /\ Support(c, rows, "records")
           \/ /\ name = "mine" /\ Own(c) # {}
              /\ Support(c, {<<r, phase[r]>> : r \in Own(c)}, "records")
           \/ /\ name = "status" /\ run \in Own(c)
              /\ Reads(c, [ask[c] EXCEPT !.at = "look", !.run = run, !.cites = {<<run, phase[run]>>}])
           \/ /\ name = "mine" => Own(c) = {}
              /\ name = "status" => run \notin Own(c)
              /\ NoSupport(c)

(* What the model found nothing for is looked up in the knowledge base.    *)
Search(c) == At(c, "search") /\ \E source \in {"knowledge", "none"} : Support(c, {}, source)

-----------------------------------------------------------------------------
Step(c) ==
    \/ Recall(c) \/ Find(c) \/ Cite(c) \/ Look(c) \/ Commit(c)
    \/ Choose(c) \/ Read(c) \/ Search(c)

Next ==
    \/ \E r \in Runs : Progress(r)
    \/ \E s \in Scopes : Expire(s)
    \/ \E c \in Askers : Ask(c) \/ Insert(c) \/ Step(c)

Spec == Init /\ [][Next]_vars

-----------------------------------------------------------------------------
(* Nobody is told of a run that is not his, by whatever reference, memory  *)
(* or tool it was found.  What an answer cites of another's run is a       *)
(* decision recorded there, as a precedent, and such an answer tells of no *)
(* run.                                                                    *)
OwnRunsOnly ==
    \A c \in Askers :
        /\ ask[c].told > 0 => OwnerOf[ask[c].run] = ask[c].who
        /\ \A row \in ask[c].cites :
              \/ OwnerOf[row[1]] = ask[c].who
              \/ row \in Decisions /\ ask[c].run = NoRun /\ ask[c].told = 0

(* The status told is never older than the rows cited for it, though runs  *)
(* go on while the question is answered.                                   *)
NotOlderThanSources ==
    \A c \in Askers : ask[c].told > 0 => \A row \in ask[c].cites : row[2] <= ask[c].told

(* Memory keeps so many entries of a thread and no more, whoever appends.  *)
MemoryBounded == \A s \in Scopes : Len(memory[s]) <= Keep

(* A question costs less than the limit and one call more.                 *)
SpendBounded == \A c \in Askers : ask[c].spent < MaxSpend + MaxCost

(* Together: answers are the asker's own, true to their sources, bounded.  *)
AnswersAreGrounded == OwnRunsOnly /\ NotOlderThanSources /\ MemoryBounded /\ SpendBounded
=============================================================================
