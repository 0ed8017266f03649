------------------------------ MODULE Database ------------------------------
(***************************************************************************)
(* The connection pool, the locks of the database and the audit chain      *)
(* (db.py, intake.advisory_lock, repo.append_audit, audit/chain.py).  The  *)
(* other modules take a transaction for one step; here a session is a      *)
(* request or a job that runs its statements one by one, among the         *)
(* statements of the others.                                               *)
(*                                                                         *)
(* A transaction has a connection of its own, the one that only holds a    *)
(* named lock around a pass included.  Every lock belongs to a transaction *)
(* and goes with it.  A hash stands for its row: the row's number.  The    *)
(* database aborts one of several transactions that wait for each other;   *)
(* the pool lets a session wait for a connection only so long.             *)
(***************************************************************************)
EXTENDS Integers, Sequences, FiniteSets, Transactions

CONSTANTS
    Sessions,
    Script,    \* the statements of each session
    PoolSize,  \* connections there are
    Mortal     \* the sessions that may break off anywhere

VARIABLES
    at,        \* the statement each session has come to
    failed,    \* the sessions that ended with an exception
    conns,     \* how many connections, each with its transaction, a session has
    held,      \* the locks of each session, with the transaction that took them
    audit,     \* the committed rows of the audit table
    pending,   \* the rows of a session's transaction that is not committed
    head,      \* the hash a session read last
    seq        \* the sequence of the audit table

vars == <<at, failed, conns, held, audit, pending, head, seq>>

-----------------------------------------------------------------------------
Init ==
    /\ at = [s \in Sessions |-> 1]
    /\ failed = {}
    /\ conns = [s \in Sessions |-> 0]
    /\ held = [s \in Sessions |-> {}]
    /\ audit = {} /\ seq = 0
    /\ pending = [s \in Sessions |-> {}]
    /\ head = [s \in Sessions |-> 0]

Running(s) == s \notin failed /\ at[s] \in DOMAIN Script[s]

Comes(s, what) ==
    /\ Running(s) /\ Script[s][at[s]].do = what
    /\ at' = [at EXCEPT ![s] = @ + 1]
    /\ UNCHANGED failed

Connections == Cardinality(UNION {{s} \X (1 .. conns[s]) : s \in Sessions})

(* The pool hands out a connection, and a transaction begins on it.        *)
Connect(s) ==
    /\ Comes(s, "open")
    /\ Connections < PoolSize
    /\ conns' = [conns EXCEPT ![s] = @ + 1]
    /\ UNCHANGED <<held, audit, pending, head, seq>>

(* Whether the innermost transaction of s may have the lock.  One that s   *)
(* holds in an outer transaction is another connection's.                  *)
Free(l, s) ==
    \A t \in Sessions : \A k \in held[t] : k[1] = l => t = s /\ k[2] = conns[s]

TakeLock(s) ==
    /\ Comes(s, "lock")
    /\ Free(Script[s][at[s]].on, s)
    /\ held' = [held EXCEPT ![s] = @ \cup {<<Script[s][at[s]].on, conns[s]>>}]
    /\ UNCHANGED <<conns, audit, pending, head, seq>>

(* h is the hash of the last of the rows, or the one before the first.     *)
IsLast(h, rows) ==
    \/ rows = {} /\ h = 0
    \/ \E r \in rows : r.seq = h /\ \A q \in rows : q.seq <= h

(* The last hash, of the rows committed by now and of one's own.           *)
SeeHead(s) ==
    /\ Comes(s, "read")
    /\ \E h \in {0} \cup {r.seq : r \in audit \cup pending[s]} :
        /\ IsLast(h, audit \cup pending[s])
        /\ head' = [head EXCEPT ![s] = h]
    /\ UNCHANGED <<conns, held, audit, pending, seq>>

(* The row takes its number when it is inserted, committed or not.         *)
Insert(s) ==
    /\ Comes(s, "insert")
    /\ seq' = seq + 1
    /\ pending' = [pending EXCEPT ![s] = @ \cup {[seq |-> seq + 1, prev |-> head[s]]}]
    /\ UNCHANGED <<conns, held, audit, head>>

Innermost(s) == {k \in held[s] : k[2] = conns[s]}

(* The innermost transaction commits: its rows are seen, its locks and its *)
(* connection are free.                                                    *)
Commit(s) ==
    /\ Comes(s, "close")
    /\ \/ /\ <<Chain, conns[s]>> \in held[s]
          /\ audit' = audit \cup pending[s]
          /\ pending' = [pending EXCEPT ![s] = {}]
       \/ /\ <<Chain, conns[s]>> \notin held[s]
          /\ UNCHANGED <<audit, pending>>
    /\ held' = [held EXCEPT ![s] = @ \ Innermost(s)]
    /\ conns' = [conns EXCEPT ![s] = @ - 1]
    /\ UNCHANGED <<head, seq>>

(* An exception: every transaction of the session is rolled back.          *)
RollBack(s) ==
    /\ failed' = failed \cup {s}
    /\ conns' = [conns EXCEPT ![s] = 0]
    /\ held' = [held EXCEPT ![s] = {}]
    /\ pending' = [pending EXCEPT ![s] = {}]
    /\ UNCHANGED <<at, audit, head, seq>>

(* The pool has nothing to give for too long.                              *)
GiveUp(s) ==
    /\ Running(s) /\ Script[s][at[s]].do = "open"
    /\ Connections >= PoolSize
    /\ RollBack(s)

(* s waits for a lock that t holds.                                        *)
WaitsFor(s, t) ==
    /\ Running(s) /\ Script[s][at[s]].do = "lock"
    /\ \E k \in held[t] : k[1] = Script[s][at[s]].on

Deadlocked(S) == S # {} /\ \A s \in S : \E t \in S \ {s} : WaitsFor(s, t)

(* The database finds a deadlock and aborts one of its transactions.       *)
Abort(s) ==
    /\ \E t \in Sessions \ {s} : WaitsFor(s, t)
    /\ \E S \in SUBSET Sessions : s \in S /\ Deadlocked(S)
    /\ RollBack(s)

(* A statement raises, the handler is cancelled, the process dies.         *)
Break(s) == s \in Mortal /\ Running(s) /\ RollBack(s)

Step(s) ==
    \/ Connect(s) \/ TakeLock(s) \/ SeeHead(s) \/ Insert(s) \/ Commit(s)
    \/ GiveUp(s) \/ Abort(s)

Next == \E s \in Sessions : Step(s) \/ Break(s)

Spec == Init /\ [][Next]_vars

(* The event loop goes on; the pool's and the database's timers run.       *)
FairSpec == Spec /\ WF_vars(\E s \in Sessions : Step(s))

-----------------------------------------------------------------------------
(* Nothing reads the last hash without the lock on the chain, and nothing  *)
(* comes between the reading and the row.                                  *)
AppendsUnderLock ==
    \A s \in Sessions : \A i \in DOMAIN Script[s] :
        /\ Script[s][i].do = "read" => i > 1 /\ Script[s][i - 1] = Lock(Chain)
        /\ Script[s][i].do = "insert" => i > 1 /\ Script[s][i - 1] = ReadHead

(* The connections a script has before its statement i.                    *)
Depth(s, i) ==
    Cardinality({j \in 1 .. i - 1 : Script[s][j].do = "open"})
    - Cardinality({j \in 1 .. i - 1 : Script[s][j].do = "close"})

(* The locks it has then, with the transactions that took them: those      *)
(* taken before, unless the transaction has ended since.                   *)
Kept(s, i) ==
    {<<Script[s][j].on, Depth(s, j)>> :
        j \in {j \in 1 .. i - 1 : /\ Script[s][j].do = "lock"
                                  /\ \A k \in j .. i - 1 : Depth(s, k + 1) >= Depth(s, j)}}
Locks(s, i) == {k[1] : k \in Kept(s, i)}

(* Nothing is locked outside of a transaction.                             *)
LocksInTransactions ==
    /\ PoolSize \in Nat
    /\ \A s \in Sessions :
        /\ Len(Script[s]) \in Nat /\ DOMAIN Script[s] = 1 .. Len(Script[s])
        /\ \A i \in DOMAIN Script[s] :
              Script[s][i].do = "lock" => Script[s][i] = Lock(Script[s][i].on) /\ Depth(s, i) >= 1

(* What is given.                                                          *)
Given == AppendsUnderLock /\ LocksInTransactions

(* Passes and appends: a row is locked under the named lock that guards    *)
(* it, and named locks are taken before rows and the chain, each below the *)
(* ones it may be held with.                                               *)
TakesInOrder(Orderly, guard, rank) ==
    /\ Orderly \subseteq Sessions /\ Chain \notin DOMAIN rank
    /\ \A name \in DOMAIN rank : rank[name] \in Nat
    /\ \E top \in {0} \cup {rank[name] : name \in DOMAIN rank} : \A name \in DOMAIN rank : rank[name] <= top
    /\ \A s \in Orderly : \A i \in 1 .. Len(Script[s]) + 1 :
        /\ \A l \in Locks(s, i) : l[1] = "row" => guard[l] \in Locks(s, i)
        /\ i \in DOMAIN Script[s] /\ Script[s][i].do = "lock" =>
              LET l == Script[s][i].on
              IN  \/ l = Chain
                  \/ l[1] = "row" /\ guard[l] \in Locks(s, i)
                  \/ l \in DOMAIN rank /\ \A m \in Locks(s, i) : m \in DOMAIN rank /\ rank[m] < rank[l]

Numbered == [seq : 1 .. seq, prev : 0 .. seq]

TypeOK ==
    /\ AppendsUnderLock
    /\ failed \subseteq Sessions
    /\ Connections <= PoolSize
    /\ audit \subseteq Numbered
    /\ \A s \in Sessions :
        /\ at[s] \in 1 .. Len(Script[s]) + 1
        /\ \A k \in held[s] :
            k[2] \in 1 .. conns[s] /\ \E i \in DOMAIN Script[s] : Script[s][i] = Lock(k[1])
        /\ pending[s] \subseteq Numbered /\ head[s] \in 0 .. seq

(* What verify_chain asks of rows in the order of their numbers: each      *)
(* names the hash of the one before it.                                    *)
Linear(rows) == \A r \in rows : IsLast(r.prev, {q \in rows : q.seq < r.seq})

(* The committed rows are one chain at any moment, whoever appends at the  *)
(* same time, whichever transactions are rolled back after they had their  *)
(* numbers.                                                                *)
ChainIsLinear == Linear(audit)

(* Sessions whose passes run under the lock of their run, and those that   *)
(* only append, never wait for each other in a circle: stages take the run *)
(* before the chain and halts the chain before the run, but not at once.   *)
(* A resume that follows a decision has no such lock, see Abort.           *)
NoDeadlock(Orderly) == \A S \in SUBSET Orderly : ~Deadlocked(S)

(* Once they begin, all sessions come to an end, although some hold a      *)
(* connection while they wait for another.                                 *)
EveryoneIsServed == (\E s \in Sessions : at[s] > 1) ~> (\A s \in Sessions : ~Running(s))
=============================================================================
