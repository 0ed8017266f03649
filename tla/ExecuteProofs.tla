--------------------------- MODULE ExecuteProofs ----------------------------
(***************************************************************************)
(* Executors that share one process make each change once and undo none of *)
(* each other's, however many they are, whatever the target does and       *)
(* whoever is cancelled.                                                   *)
(*                                                                         *)
(* The argument: between its load and its store an executor's copy is the  *)
(* document itself (CopiesAreFresh), since nobody else of the process can  *)
(* be there; so a key it does not find in its copy is in no ledger, and    *)
(* nobody has made the key's change.                                       *)
(* What a call returns is then borne out by the document (SumInv), which   *)
(* is all that the rail takes a call for.                                  *)
(***************************************************************************)
EXTENDS Execute, FiniteSetTheorems, TLAPS

OneProcessOnly == \A x, y \in Executors : ProcessOf[x] = ProcessOf[y]

OneStores == \A x, y \in Executors : pc[x] = "store" /\ pc[y] = "store" => x = y

CopiesAreFresh == \A x \in Executors : pc[x] = "store" => copy[x] = doc

(* A change that was made is on record under its key.                      *)
AppliedIsRecorded == \A k \in Keys : applier[k] # {} => k \in doc.ledger

OneApplier == \A k \in Keys : \A x, y \in applier[k] : x = y

IInv == TypeOK /\ OneStores /\ CopiesAreFresh /\ AppliedIsRecorded /\ OneApplier

(* Who has made its change does not try again, and the change is there;    *)
(* what a call returned, the document bears out.                           *)
SumOf(x) ==
    /\ x \in applier[KeyOf[x]] =>
           pc[x] \in {"reconcile", "returned", "cancelled"} /\ ChangeOf[x] \in doc.inPlace
    /\ pc[x] = "returned" =>
           /\ result[x] # "none"
           /\ result[x] = "failed" => x \notin applier[KeyOf[x]]
           /\ result[x] = "executed" => KeyOf[x] \in doc.ledger \/ ChangeOf[x] \in doc.inPlace

SumInv == \A x \in Executors : SumOf(x)

(* An execution starts with a target that knows no key.                    *)
LEMMA InitInv == Init => IInv
BY ExecuteAssumption DEF Init, IInv, TypeOK, Doc, NothingDone, OneStores, CopiesAreFresh,
   AppliedIsRecorded, OneApplier

(* A call that returns, or tries again, leaves the store.                  *)
LEMMA EndsAttempt ==
    ASSUME TypeOK, NEW x \in Executors, NEW st \in {"executed", "failed", "unknown"},
           RetryOr(x, st) \/ ReturnWith(x, st)
    PROVE  /\ pc' \in [Executors -> {"write", "store", "reconcile", "returned", "cancelled"}]
           /\ attempt' \in [Executors -> 1 .. MaxAttempts]
           /\ result' \in [Executors -> {"none", "executed", "failed", "unknown"}]
           /\ pc'[x] # "store" /\ \A y \in Executors \ {x} : pc'[y] = pc[y]
BY ExecuteAssumption DEF TypeOK, RetryOr, ReturnWith, Goto

(* The mutate of connectors/state.py reads the document ...                *)
LEMMA LoadKeeps == ASSUME OneProcessOnly, IInv, NEW x \in Executors, Load(x) PROVE IInv'
<1>1. /\ pc[x] = "write" /\ pc' = [pc EXCEPT ![x] = "store"]
      /\ copy' = [copy EXCEPT ![x] = doc]
      /\ UNCHANGED <<doc, attempt, result, applier>>
      /\ \A y \in Executors : pc[y] # "store"
  BY DEF Load, Goto, ItsTurn, OneProcessOnly
<1>2. TypeOK'
  BY <1>1 DEF IInv, TypeOK
<1>3. OneStores' /\ CopiesAreFresh'
  BY <1>1 DEF IInv, TypeOK, OneStores, CopiesAreFresh
<1>4. AppliedIsRecorded' /\ OneApplier'
  BY <1>1 DEF IInv, AppliedIsRecorded, OneApplier
<1> QED BY <1>2, <1>3, <1>4 DEF IInv

(* What any store may do to the document and to who made which change.     *)
Stored(x) ==
    \/ doc' = doc /\ applier' = applier
    \/ doc' = Recorded(x) /\ applier' = applier
    \/ /\ doc' = Applied(x) /\ KeyOf[x] \notin doc.ledger
       /\ applier' = [applier EXCEPT ![KeyOf[x]] = @ \cup {x}]

(* ... and writes it back, with the key, or unchanged.                     *)
LEMMA StoreShape ==
    ASSUME IInv, NEW x \in Executors, Store(x)
    PROVE  /\ Stored(x) /\ copy[x] = doc /\ copy' = copy
           /\ pc' \in [Executors -> {"write", "store", "reconcile", "returned", "cancelled"}]
           /\ attempt' \in [Executors -> 1 .. MaxAttempts]
           /\ result' \in [Executors -> {"none", "executed", "failed", "unknown"}]
           /\ pc[x] = "store" /\ pc'[x] # "store"
           /\ \A y \in Executors \ {x} : pc'[y] = pc[y]
<1>1. pc[x] = "store" /\ copy[x] = doc /\ copy' = copy /\ TypeOK
  BY DEF Store, IInv, CopiesAreFresh
<1>2. Stored(x)
  BY <1>1 DEF Store, Stored, Known
<1>3. \/ \E st \in {"executed", "failed", "unknown"} : RetryOr(x, st) \/ ReturnWith(x, st)
      \/ Goto(x, "reconcile") /\ UNCHANGED <<attempt, result>>
  BY DEF Store
<1>4. CASE \E st \in {"executed", "failed", "unknown"} : RetryOr(x, st) \/ ReturnWith(x, st)
  BY <1>1, <1>2, <1>4, EndsAttempt
<1>5. CASE Goto(x, "reconcile") /\ UNCHANGED <<attempt, result>>
  BY <1>1, <1>2, <1>5 DEF TypeOK, Goto
<1> QED BY <1>3, <1>4, <1>5

(* A store keeps the invariant: nobody else waits to store an older copy.  *)
LEMMA StoreKeeps == ASSUME IInv, NEW x \in Executors, Store(x) PROVE IInv'
<1>1. /\ Stored(x) /\ copy[x] = doc /\ copy' = copy
      /\ pc[x] = "store" /\ pc'[x] # "store" /\ \A y \in Executors \ {x} : pc'[y] = pc[y]
  BY StoreShape
<1>2. \A y \in Executors : pc'[y] # "store"
  BY <1>1 DEF IInv, OneStores
<1>3. KeyOf[x] \in Keys /\ ChangeOf[x] \in Changes
  BY ExecuteAssumption
<1>4. doc' \in Doc /\ doc.ledger \subseteq doc'.ledger
  BY <1>1, <1>3 DEF Stored, Recorded, Applied, IInv, TypeOK, Doc
<1>5. applier' \in [Keys -> SUBSET Executors]
  BY <1>1 DEF Stored, IInv, TypeOK
<1>6. TypeOK'
  BY <1>1, <1>4, <1>5, StoreShape DEF IInv, TypeOK
<1>7. CASE applier' = applier
  BY <1>2, <1>4, <1>6, <1>7 DEF IInv, OneStores, CopiesAreFresh, AppliedIsRecorded, OneApplier
<1>8. CASE /\ doc' = Applied(x) /\ KeyOf[x] \notin doc.ledger
           /\ applier' = [applier EXCEPT ![KeyOf[x]] = @ \cup {x}]
  <2>1. applier[KeyOf[x]] = {}
    BY <1>3, <1>8 DEF IInv, AppliedIsRecorded
  <2>2. /\ applier'[KeyOf[x]] = {x} /\ KeyOf[x] \in doc'.ledger
        /\ \A k \in Keys \ {KeyOf[x]} : applier'[k] = applier[k]
    BY <1>3, <1>8, <2>1 DEF Applied, IInv, TypeOK
  <2>3. AppliedIsRecorded' /\ OneApplier'
    BY <1>3, <1>4, <2>2 DEF IInv, AppliedIsRecorded, OneApplier
  <2> QED BY <1>2, <1>6, <2>3 DEF IInv, OneStores, CopiesAreFresh
<1> QED BY <1>1, <1>7, <1>8 DEF Stored

(* A refusal, a read-back, a cancellation change nothing in the target.    *)
LEMMA OthersKeep ==
    ASSUME IInv, NEW x \in Executors, Reject(x) \/ Reconcile(x) \/ Cancel(x)
    PROVE  IInv'
<1>1. UNCHANGED <<doc, copy, applier>>
  BY DEF Reject, Reconcile, Cancel
<1>2. \/ \E st \in {"executed", "failed", "unknown"} : RetryOr(x, st) \/ ReturnWith(x, st)
      \/ Goto(x, "cancelled") /\ UNCHANGED <<attempt, result>>
  BY DEF Reject, Reconcile, Cancel
<1>3. /\ pc' \in [Executors -> {"write", "store", "reconcile", "returned", "cancelled"}]
      /\ attempt' \in [Executors -> 1 .. MaxAttempts]
      /\ result' \in [Executors -> {"none", "executed", "failed", "unknown"}]
      /\ pc'[x] # "store" /\ \A y \in Executors \ {x} : pc'[y] = pc[y]
  <2>1. CASE \E st \in {"executed", "failed", "unknown"} : RetryOr(x, st) \/ ReturnWith(x, st)
    BY <2>1, EndsAttempt DEF IInv
  <2>2. CASE Goto(x, "cancelled") /\ UNCHANGED <<attempt, result>>
    BY <2>2 DEF Goto, IInv, TypeOK
  <2> QED BY <1>2, <2>1, <2>2
<1>4. TypeOK'
  BY <1>1, <1>3 DEF IInv, TypeOK
<1> QED BY <1>1, <1>3, <1>4 DEF IInv, OneStores, CopiesAreFresh, AppliedIsRecorded, OneApplier

(* Every step of executors in one process keeps the invariant.             *)
LEMMA NextInv == ASSUME OneProcessOnly PROVE IInv /\ [Next]_vars => IInv'
<1> SUFFICES ASSUME IInv, [Next]_vars PROVE IInv'
  OBVIOUS
<1>1. CASE UNCHANGED vars
  BY <1>1 DEF vars, IInv, TypeOK, OneStores, CopiesAreFresh, AppliedIsRecorded, OneApplier
<1>2. ASSUME NEW x \in Executors, Step(x) \/ Cancel(x) PROVE IInv'
  BY <1>2, LoadKeeps, StoreKeeps, OthersKeep DEF Step
<1> QED BY <1>1, <1>2 DEF Next

(* Under one event loop, whoever carries a key and however often a         *)
(* doubtful write is tried again, its change is made at most once.         *)
THEOREM AppliedOnce ==
    ASSUME OneProcessOnly PROVE Spec => []AppliedOncePerKey
<1>1. IInv => AppliedOncePerKey
  <2> SUFFICES ASSUME IInv, NEW k \in Keys PROVE Cardinality(applier[k]) <= 1
    BY DEF AppliedOncePerKey
  <2>1. CASE applier[k] = {}
    <3>1. Cardinality(applier[k]) = 0
      BY <2>1, FS_EmptySet
    <3> QED BY <3>1
  <2>2. CASE applier[k] # {}
    <3>1. PICK x \in applier[k] : applier[k] = {x}
      BY <2>2 DEF IInv, OneApplier
    <3>2. Cardinality(applier[k]) = 1
      BY <3>1, FS_Singleton
    <3> QED BY <3>2
  <2> QED BY <2>1, <2>2
<1>2. IInv /\ [Next]_vars => IInv'
  BY NextInv
<1> QED BY <1>1, <1>2, InitInv, PTL DEF Spec

(* Under one event loop, no step takes anything out of the document.       *)
LEMMA DocGrows ==
    ASSUME IInv, NEW x \in Executors, Step(x) \/ Cancel(x)
    PROVE  doc.inPlace \subseteq doc'.inPlace /\ doc.ledger \subseteq doc'.ledger
<1>1. CASE Store(x)
  BY <1>1, StoreShape DEF Stored, Recorded, Applied, IInv, TypeOK, Doc
<1>2. CASE ~Store(x)
  BY <1>2 DEF Step, Load, Reject, Reconcile, Cancel
<1> QED BY <1>1, <1>2

(* Under one event loop, no write loses what another one wrote.            *)
THEOREM NothingLost ==
    ASSUME OneProcessOnly PROVE Spec => AppliedStays
<1>1. IInv /\ [Next]_vars =>
        [doc.inPlace \subseteq doc'.inPlace /\ doc.ledger \subseteq doc'.ledger]_vars
  BY DocGrows DEF Next
<1>2. IInv /\ [Next]_vars => IInv'
  BY NextInv
<1> QED BY <1>1, <1>2, InitInv, PTL DEF Spec, AppliedStays

(* A call that returns is told by its result; one that tries again has not *)
(* returned.                                                               *)
LEMMA ReturnTells ==
    ASSUME TypeOK, NEW x \in Executors, NEW st \in {"executed", "failed", "unknown"},
           RetryOr(x, st) \/ ReturnWith(x, st)
    PROVE  /\ \/ pc'[x] = "write" /\ RetryOr(x, st)
              \/ pc'[x] = "returned" /\ result'[x] = st
           /\ \A y \in Executors \ {x} : result'[y] = result[y]
BY DEF TypeOK, RetryOr, ReturnWith, Goto

(* A step of one call leaves what another one came to.                     *)
LEMMA SumStays ==
    ASSUME IInv, NEW x \in Executors, Step(x) \/ Cancel(x),
           NEW y \in Executors \ {x}, SumOf(y)
    PROVE  SumOf(y)'
<1>1. doc.inPlace \subseteq doc'.inPlace /\ doc.ledger \subseteq doc'.ledger
  BY DocGrows
<1>2. KeyOf[x] \in Keys /\ KeyOf[y] \in Keys
  BY ExecuteAssumption
<1>3. y \in applier'[KeyOf[y]] => y \in applier[KeyOf[y]]
  <2>1. applier' = applier \/ applier' = [applier EXCEPT ![KeyOf[x]] = @ \cup {x}]
    BY DEF Step, Load, Store, Reject, Reconcile, Cancel
  <2> QED BY <1>2, <2>1 DEF IInv, TypeOK
<1>4. pc'[y] = pc[y] /\ result'[y] = result[y]
  BY DEF Step, Load, Store, Reject, Reconcile, Cancel, RetryOr, ReturnWith, Goto, IInv, TypeOK
<1> QED BY <1>1, <1>3, <1>4 DEF SumOf

(* What the call itself comes to: a store that made the change is not      *)
(* followed by another attempt, and a read-back tells what is there.       *)
LEMMA SumKeeps ==
    ASSUME IInv, IInv', NEW x \in Executors, Step(x) \/ Cancel(x), SumOf(x)
    PROVE  SumOf(x)'
<1> DEFINE key == KeyOf[x]
<1>1. key \in Keys /\ ChangeOf[x] \in Changes
  BY ExecuteAssumption
<1>2. doc.inPlace \subseteq doc'.inPlace /\ doc.ledger \subseteq doc'.ledger
  BY DocGrows
<1>3. CASE Load(x) \/ Cancel(x)
  BY <1>3 DEF Load, Cancel, Goto, SumOf, IInv, TypeOK
<1>4. CASE Reject(x)
  <2>1. pc'[x] = "returned" /\ result'[x] = "failed" /\ applier' = applier /\ pc[x] = "write"
    BY <1>4 DEF Reject, ReturnWith, Goto, IInv, TypeOK
  <2> QED BY <2>1 DEF SumOf
<1>5. CASE Reconcile(x)
  <2>1. doc' = doc /\ applier' = applier /\ pc[x] = "reconcile"
    BY <1>5 DEF Reconcile
  <2>2. \/ pc'[x] = "returned" /\ result'[x] = "unknown"
        \/ pc'[x] = "returned" /\ result'[x] = "executed" /\ ChangeOf[x] \in doc.inPlace
        \/ pc'[x] = "write" /\ ChangeOf[x] \notin doc.inPlace
    BY <1>5, ReturnTells DEF Reconcile, IInv, ReturnWith, Goto, TypeOK
  <2> QED BY <2>1, <2>2 DEF SumOf
<1>6. CASE Store(x)
  <2>1. pc[x] = "store" /\ copy[x] = doc /\ x \notin applier[key]
    BY <1>6 DEF Store, IInv, CopiesAreFresh, SumOf
  <2>2. CASE Known(x)
    <3>1. doc' = doc /\ applier' = applier /\ ReturnWith(x, "executed") /\ key \in doc.ledger
      BY <1>6, <2>1, <2>2 DEF Store, Known
    <3> QED BY <2>1, <3>1 DEF ReturnWith, Goto, SumOf, IInv, TypeOK
  <2>3. CASE doc' = Recorded(x) /\ applier' = applier /\ ReturnWith(x, "executed")
    BY <1>1, <2>1, <2>3 DEF Recorded, ReturnWith, Goto, SumOf, IInv, TypeOK, Doc
  <2>4. CASE doc' = copy[x] /\ applier' = applier /\ (RetryOr(x, "failed") \/ Goto(x, "reconcile"))
    <3>1. pc'[x] \in {"write", "reconcile"} \/ (pc'[x] = "returned" /\ result'[x] = "failed")
      BY <2>4, ReturnTells DEF Goto, IInv, TypeOK
    <3> QED BY <2>1, <2>4, <3>1 DEF SumOf
  <2>5. CASE doc' = Applied(x) /\ (ReturnWith(x, "executed") \/ Goto(x, "reconcile"))
    <3>1. ChangeOf[x] \in doc'.inPlace /\ key \in doc'.ledger
      BY <2>5 DEF Applied
    <3>2. pc'[x] = "reconcile" \/ (pc'[x] = "returned" /\ result'[x] = "executed")
      BY <2>5 DEF ReturnWith, Goto, IInv, TypeOK
    <3> QED BY <3>1, <3>2 DEF SumOf
  <2> QED BY <1>6, <2>2, <2>3, <2>4, <2>5 DEF Store
<1> QED BY <1>3, <1>4, <1>5, <1>6 DEF Step

(* What the rail takes one call for is all that a call can come to, under  *)
(* one event loop: whatever the target does, however often a doubtful      *)
(* write is tried again.                                                   *)
THEOREM CallsSumUp ==
    ASSUME OneProcessOnly PROVE Spec => []SumsUp
<1>1. Init => SumInv
  BY ExecuteAssumption DEF Init, SumInv, SumOf
<1>2. IInv /\ IInv' /\ SumInv /\ [Next]_vars => SumInv'
  <2> SUFFICES ASSUME IInv, IInv', SumInv, [Next]_vars PROVE SumInv'
    OBVIOUS
  <2>1. CASE UNCHANGED vars
    BY <2>1 DEF vars, SumInv, SumOf
  <2>2. ASSUME NEW x \in Executors, Step(x) \/ Cancel(x) PROVE SumInv'
    <3>1. \A y \in Executors \ {x} : SumOf(y)'
      BY <2>2, SumStays DEF SumInv
    <3>2. SumOf(x)'
      BY <2>2, SumKeeps DEF SumInv
    <3> QED BY <3>1, <3>2 DEF SumInv
  <2> QED BY <2>1, <2>2 DEF Next
<1>3. IInv /\ SumInv => SumsUp
  <2> SUFFICES ASSUME IInv, NEW x \in Executors, SumOf(x), pc[x] = "returned"
               PROVE  \E known \in BOOLEAN :
                   /\ known => KeyOf[x] \in doc.ledger
                   /\ [st |-> result[x], applies |-> x \in applier[KeyOf[x]],
                       records |-> KeyOf[x] \in doc.ledger]
                          \in WriteOutcomes(known, ChangeOf[x] \in doc.inPlace)
    BY DEF SumInv, SumsUp
  <2>1. result[x] \in {"executed", "failed", "unknown"} /\ KeyOf[x] \in Keys
    BY ExecuteAssumption DEF SumOf, IInv, TypeOK
  <2>2. CASE x \in applier[KeyOf[x]]
    <3>1. KeyOf[x] \in doc.ledger /\ result[x] # "failed"
      BY <2>1, <2>2 DEF SumOf, IInv, AppliedIsRecorded
    <3>2. [st |-> result[x], applies |-> TRUE, records |-> TRUE]
             \in WriteOutcomes(FALSE, ChangeOf[x] \in doc.inPlace)
      BY <2>1, <3>1 DEF WriteOutcomes
    <3> QED BY <2>2, <3>1, <3>2
  <2>3. CASE x \notin applier[KeyOf[x]]
    <3>0. (x \in applier[KeyOf[x]]) = FALSE
      BY <2>3
    <3>1. CASE KeyOf[x] \in doc.ledger
      <4>1. [st |-> result[x], applies |-> FALSE, records |-> TRUE]
               \in WriteOutcomes(TRUE, ChangeOf[x] \in doc.inPlace)
        BY <2>1 DEF WriteOutcomes
      <4>2. (KeyOf[x] \in doc.ledger) = TRUE
        BY <3>1
      <4> QED BY <3>0, <3>1, <4>1, <4>2
    <3>2. CASE KeyOf[x] \notin doc.ledger
      <4>1. [st |-> result[x], applies |-> FALSE, records |-> FALSE]
               \in WriteOutcomes(FALSE, ChangeOf[x] \in doc.inPlace)
        BY <2>1, <3>2 DEF WriteOutcomes, SumOf
      <4>2. (KeyOf[x] \in doc.ledger) = FALSE
        BY <3>2
      <4> QED BY <3>0, <3>2, <4>1, <4>2
    <3> QED BY <3>1, <3>2
  <2> QED BY <2>2, <2>3
<1>4. IInv /\ [Next]_vars => IInv'
  BY NextInv
<1> QED BY <1>1, <1>2, <1>3, <1>4, InitInv, PTL DEF Spec
=============================================================================
