----------------------------- MODULE Transactions -----------------------------
(***************************************************************************)
(* The transactions of the program as statements in their order: what each *)
(* of them locks and when it appends to the audit chain (rail/runner.py,   *)
(* surfaces/door.py, intake.py, repo.py).                                  *)
(***************************************************************************)
EXTENDS Sequences

Open == [do |-> "open"]
Close == [do |-> "close"]
Lock(l) == [do |-> "lock", on |-> l]
ReadHead == [do |-> "read"]
InsertRow == [do |-> "insert"]

Chain == <<"audit">>     \* the lock of append_audit
Row(r) == <<"row", r>>   \* a run's row, locked by its first update

(* A mutant: the last hash is read before the lock is there.               *)
AppendUnlocked == <<ReadHead, Lock(Chain), InsertRow>>

(* append_audit, and the lock on the chain it takes first.                 *)
AppendAudit == <<Lock(Chain), ReadHead, InsertRow>>

(* A stage: the run and its actions are written, and then the audit row.   *)
Stage(r) == <<Open, Lock(Row(r))>> \o AppendAudit \o <<Close>>

(* A halt: the audit row first, and then the run.                          *)
Halt(r) == <<Open>> \o AppendAudit \o <<Lock(Row(r)), Close>>

(* A decision, a notice, a note: an audit row beside rows of their own.    *)
Record == <<Open>> \o AppendAudit \o <<Close>>

(* advisory_lock: a transaction that holds a named lock around the body.   *)
UnderLock(key, body) == <<Open, Lock(<<"key", key>>)>> \o body \o <<Close>>
=============================================================================
