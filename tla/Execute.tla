------------------------------ MODULE Execute -------------------------------
(***************************************************************************)
(* Inside execute_action: several executors, in one process or in several, *)
(* write to one target whose state is a document on disk                   *)
(* (rail/execute.py; connectors/fixture.py, state.py).                     *)
(*                                                                         *)
(* Two executors carry the same key when two passes write the same action, *)
(* and different keys for the same change when a rebuilt plan gave the     *)
(* action another id.  A write loads the whole document, changes it and    *)
(* replaces it, with no await between: within a process nothing comes in   *)
(* between, another process may.  The target misbehaves at will; a fault   *)
(* is chosen where the document would hold an injected one.                *)
(***************************************************************************)
EXTENDS Naturals, FiniteSets, Target

CONSTANTS
    Executors,    \* calls of execute_action
    Keys,         \* idempotency keys
    Changes,      \* entitlements to be granted (a revocation is the same, mirrored)
    KeyOf,        \* the key each executor's action has
    ChangeOf,     \* the change each executor's action makes
    ProcessOf,    \* the process it runs in
    MaxAttempts,
    Faults,       \* what the target may do to a write
    Mortal        \* the executors that may be cancelled or die

ASSUME ExecuteAssumption ==
    /\ KeyOf \in [Executors -> Keys]
    /\ ChangeOf \in [Executors -> Changes]
    /\ ProcessOf \in [Executors -> Executors]    \* named by one executor of it
    /\ \A x, y \in Executors : KeyOf[x] = KeyOf[y] => ChangeOf[x] = ChangeOf[y]
    /\ MaxAttempts \in Nat \ {0}
    /\ Faults \subseteq {"ok", "ack_without_apply", "transient", "timeout_before_apply",
                         "timeout_after_apply"}
    /\ Mortal \subseteq Executors

VARIABLES
    doc,      \* the document on disk: the changes in place, the keys it has seen
    pc,       \* "write", "store", "reconcile", "returned" or "cancelled"
    attempt,  \* the number of the attempt
    copy,     \* the document the executor has loaded
    result,   \* the state the call returned
    applier   \* history: the executors that made each key's change

vars == <<doc, pc, attempt, copy, result, applier>>

Doc == [inPlace : SUBSET Changes, ledger : SUBSET Keys]
NothingDone == [inPlace |-> {}, ledger |-> {}]

TypeOK ==
    /\ doc \in Doc
    /\ pc \in [Executors -> {"write", "store", "reconcile", "returned", "cancelled"}]
    /\ attempt \in [Executors -> 1 .. MaxAttempts]
    /\ copy \in [Executors -> Doc]
    /\ result \in [Executors -> {"none", "executed", "failed", "unknown"}]
    /\ applier \in [Keys -> SUBSET Executors]

Init ==
    /\ doc = NothingDone
    /\ pc = [x \in Executors |-> "write"]
    /\ attempt = [x \in Executors |-> 1]
    /\ copy = [x \in Executors |-> NothingDone]
    /\ result = [x \in Executors |-> "none"]
    /\ applier = [k \in Keys |-> {}]

-----------------------------------------------------------------------------
Goto(x, label) == pc' = [pc EXCEPT ![x] = label]

ReturnWith(x, st) ==
    /\ Goto(x, "returned")
    /\ result' = [result EXCEPT ![x] = st]
    /\ UNCHANGED attempt

(* A mutant: the attempts are not counted.                                 *)
RetryForEver(x, st) ==
    /\ Goto(x, "write")
    /\ UNCHANGED <<attempt, result>>

(* A mutant: one attempt too many.                                         *)
RetryOnceMore(x, st) ==
    \/ /\ attempt[x] <= MaxAttempts
       /\ Goto(x, "write")
       /\ attempt' = [attempt EXCEPT ![x] = @ + 1]
       /\ UNCHANGED result
    \/ /\ attempt[x] > MaxAttempts
       /\ ReturnWith(x, st)

(* Back off and try again, unless this was the last attempt.               *)
RetryOr(x, st) ==
    \/ /\ attempt[x] < MaxAttempts
       /\ Goto(x, "write")
       /\ attempt' = [attempt EXCEPT ![x] = @ + 1]
       /\ UNCHANGED result
    \/ /\ attempt[x] = MaxAttempts
       /\ ReturnWith(x, st)

(* A mutant: a load may come between another's load and store.             *)
NobodyWaits(x) == TRUE

(* An event loop runs one task at a time, and a write does not await       *)
(* between loading the document and storing it.                            *)
ItsTurn(x) ==
    \A y \in Executors : ProcessOf[y] = ProcessOf[x] => pc[y] # "store"

(* FixtureState.mutate: load the document, ...                             *)
Load(x) ==
    /\ pc[x] = "write" /\ ItsTurn(x)
    /\ copy' = [copy EXCEPT ![x] = doc]
    /\ Goto(x, "store")
    /\ UNCHANGED <<doc, attempt, result, applier>>

(* A mutant: the ledger is not looked up.                                  *)
NeverKnown(x) == FALSE

Known(x) == KeyOf[x] \in copy[x].ledger

Recorded(x) == [copy[x] EXCEPT !.ledger = @ \cup {KeyOf[x]}]

Applied(x) == [inPlace |-> copy[x].inPlace \cup {ChangeOf[x]},
               ledger |-> copy[x].ledger \cup {KeyOf[x]}]

(* ... and put the changed one in its place: the body of _apply, with the  *)
(* answer the connector's write gives.                                     *)
Store(x) ==
    /\ pc[x] = "store"
    /\ \/ /\ Known(x)
          /\ doc' = copy[x]
          /\ UNCHANGED applier
          /\ ReturnWith(x, "executed")
       \/ /\ ~Known(x)
          /\ \E fault \in Faults :
              \/ /\ fault = "ok"
                 /\ doc' = Applied(x)
                 /\ applier' = [applier EXCEPT ![KeyOf[x]] = @ \cup {x}]
                 /\ ReturnWith(x, "executed")
              \/ /\ fault = "ack_without_apply"
                 /\ doc' = Recorded(x)
                 /\ UNCHANGED applier
                 /\ ReturnWith(x, "executed")
              \/ /\ fault = "transient"
                 /\ doc' = copy[x]
                 /\ UNCHANGED applier
                 /\ RetryOr(x, "failed")
              \/ /\ fault = "timeout_before_apply"
                 /\ doc' = copy[x]
                 /\ Goto(x, "reconcile")
                 /\ UNCHANGED <<attempt, result, applier>>
              \/ /\ fault = "timeout_after_apply"
                 /\ doc' = Applied(x)
                 /\ applier' = [applier EXCEPT ![KeyOf[x]] = @ \cup {x}]
                 /\ Goto(x, "reconcile")
                 /\ UNCHANGED <<attempt, result>>
    /\ UNCHANGED copy

(* The connector refuses the action before it loads anything, or while it  *)
(* would change it: nothing is stored, and the action has failed.          *)
Reject(x) ==
    /\ pc[x] = "write" /\ ItsTurn(x)
    /\ ReturnWith(x, "failed")
    /\ UNCHANGED <<doc, copy, applier>>

(* A mutant: a doubtful write that cannot be read back is called failed.   *)
DoubtFails(x) ==
    /\ pc[x] = "reconcile" /\ ItsTurn(x)
    /\ \/ ReturnWith(x, "failed")
       \/ /\ ChangeOf[x] \in doc.inPlace
          /\ ReturnWith(x, "executed")
       \/ /\ ChangeOf[x] \notin doc.inPlace
          /\ RetryOr(x, "unknown")
    /\ UNCHANGED <<doc, copy, applier>>

(* UnknownOutcome: never retried before the target has been read back.     *)
Reconcile(x) ==
    /\ pc[x] = "reconcile" /\ ItsTurn(x)
    /\ \/ ReturnWith(x, "unknown")             \* the read failed
       \/ /\ ChangeOf[x] \in doc.inPlace
          /\ ReturnWith(x, "executed")
       \/ /\ ChangeOf[x] \notin doc.inPlace
          /\ RetryOr(x, "unknown")
    /\ UNCHANGED <<doc, copy, applier>>

(* The job's timeout cancels the task at an await, or its process dies.    *)
Cancel(x) ==
    /\ x \in Mortal
    /\ pc[x] \in {"write", "store", "reconcile"}
    /\ Goto(x, "cancelled")
    /\ UNCHANGED <<doc, attempt, copy, result, applier>>

Step(x) == Load(x) \/ Store(x) \/ Reject(x) \/ Reconcile(x)

Next == \E x \in Executors : Step(x) \/ Cancel(x)

Spec == Init /\ [][Next]_vars

FairSpec == Spec /\ \A x \in Executors : WF_vars(Step(x))

-----------------------------------------------------------------------------
(* Whoever carries the key, and however often a doubtful write is tried    *)
(* again, the change the key stands for is made at most once.              *)
AppliedOncePerKey == \A k \in Keys : Cardinality(applier[k]) <= 1

(* A call comes to one of the outcomes the rail takes it for.  "Known" is  *)
(* that somebody else has recorded the key: one who made the change, or    *)
(* one to whom the target only acknowledged it.                            *)
SumsUp ==
    \A x \in Executors :
        LET key == KeyOf[x]
            applied == x \in applier[key]
        IN  pc[x] = "returned" =>
               \E known \in BOOLEAN :
                   /\ known => key \in doc.ledger
                   /\ [st |-> result[x], applies |-> applied, records |-> key \in doc.ledger]
                          \in WriteOutcomes(known, ChangeOf[x] \in doc.inPlace)

(* What a write put in place stays: no other write undoes it by accident.  *)
AppliedStays ==
    [][doc.inPlace \subseteq doc'.inPlace /\ doc.ledger \subseteq doc'.ledger]_vars

(* An executor always comes back to the rail, whatever the target does.    *)
Returns == <>(\A x \in Executors : pc[x] \in {"returned", "cancelled"})
=============================================================================
