------------------------------- MODULE Router -------------------------------
(***************************************************************************)
(* Calls of the language model (llm/router.py) down the chain of tiers,    *)
(* with the circuit breaker, the budgets and the ledger (llm/ledger.py)    *)
(* they are checked against.  Prices are in units of the least cost.       *)
(*                                                                         *)
(* Every caller makes one call.  A call holds the session locks of its run *)
(* and, on Bedrock, of the account while it reads what is spent, calls the *)
(* provider and books the attempt.                                         *)
(***************************************************************************)
EXTENDS Integers, Sequences, FiniteSets

CONSTANTS
    Callers,
    RunOf,         \* the run a call is charged to, if any
    NoRun,
    Chains,        \* the tiers that may be enabled, in order
    Reserve,       \* the most that one call may cost
    RunBudget,
    BedrockCap,
    MaxFaults      \* bound: providers' failures and crashes

VARIABLES
    chain,         \* the enabled tiers
    call,          \* by caller: place, tier, whether a 429 was retried, answer, cost
    locks,         \* who holds what
    booked,        \* what the llm_calls rows add up to, of a run and of Bedrock
    open,          \* tiers whose breaker is open
    paid,          \* what the answers received have cost, booked or not
    faults, crashes

vars == <<chain, call, locks, booked, open, paid, faults, crashes>>

Runs == {RunOf[c] : c \in Callers} \ {NoRun}
Keys == Runs \cup {"bedrock"}
Tiers == {"T1", "T2", "T3", "T4"}
Errors == {"budget", "no tier", "fatal", "replay miss"}
Replies == {"ok", "429", "failover", "fatal"}

TypeOK ==
    /\ chain \in Chains
    /\ \A c \in Callers : /\ call[c].at \in {"next", "lock", "check", "send", "log", "done"}
                          /\ call[c].tier \in 1..Len(chain) + 1 /\ call[c].retried \in BOOLEAN
                          /\ call[c].reply \in Replies \cup {"none"}
                          /\ call[c].result \in Tiers \cup Errors \cup {"none", "died"}
    /\ locks \in [Keys -> Callers \cup {"free"}]
    /\ open \subseteq Tiers \ {"T4"}
    /\ \A k \in Keys : paid[k] \in Nat /\ booked[k] \in 0..paid[k]
    /\ faults \in 0..MaxFaults /\ crashes \in 0..faults

(* What may be given: chains of tiers; a run is not the Bedrock account.   *)
Given ==
    /\ Chains \subseteq Seq(Tiers) /\ "free" \notin Callers /\ \A c \in Callers : RunOf[c] # "bedrock"
    /\ Reserve \in Nat /\ RunBudget \in Nat /\ BedrockCap \in Nat /\ MaxFaults \in Nat

Init ==
    /\ chain \in Chains
    /\ call = [c \in Callers |-> [at |-> "next", tier |-> 1, retried |-> FALSE, reply |-> "none",
                                  cost |-> 0, over |-> FALSE, result |-> "none"]]
    /\ locks = [k \in Keys |-> "free"]
    /\ booked = [k \in Keys |-> 0] /\ open = {} /\ paid = [k \in Keys |-> 0]
    /\ faults = 0 /\ crashes = 0

-----------------------------------------------------------------------------
Tier(c) == chain[call[c].tier]
At(c, place) == call[c].at = place /\ call[c].tier <= Len(chain)
Fault == faults < MaxFaults /\ faults' = faults + 1

NextTier(c) == [call[c] EXCEPT !.at = "next", !.tier = @ + 1, !.retried = FALSE, !.reply = "none", !.cost = 0]
Done(c, result) == [call[c] EXCEPT !.at = "done", !.result = result]

(* A mutant: Bedrock calls take the lock of their run only.                *)
RunKeys(c) == {RunOf[c]} \ {NoRun}
Needed(c) == (IF Tier(c) = "T3" THEN {"bedrock"} ELSE {}) \cup ({RunOf[c]} \ {NoRun})

(* The next tier: an open breaker is passed over.                          *)
Enter(c) ==
    /\ At(c, "next") /\ Tier(c) # "T4"
    /\ call' = [call EXCEPT ![c] = IF Tier(c) \in open THEN NextTier(c) ELSE [@ EXCEPT !.at = "lock"]]
    /\ UNCHANGED <<chain, locks, booked, open, paid, faults, crashes>>

(* The account's lock comes before the run's.                              *)
Lock(c) ==
    /\ At(c, "lock")
    /\ LET missing == {k \in Needed(c) : locks[k] # c}
           key     == IF "bedrock" \in missing THEN "bedrock" ELSE CHOOSE k \in missing : TRUE
       IN  \/ /\ missing = {} /\ UNCHANGED locks
              /\ call' = [call EXCEPT ![c].at = "check"]
           \/ /\ missing # {} /\ locks[key] = "free"
              /\ locks' = [locks EXCEPT ![key] = c] /\ UNCHANGED call
    /\ UNCHANGED <<chain, booked, open, paid, faults, crashes>>

Released(c) == [k \in Keys |-> IF locks[k] = c THEN "free" ELSE locks[k]]

Charged(c) == ({RunOf[c]} \ {NoRun}) \cup (IF Tier(c) = "T3" THEN {"bedrock"} ELSE {})
Plus(sums, c, cost) == [k \in Keys |-> IF k \in Charged(c) THEN sums[k] + cost ELSE sums[k]]

OverRun(c) == RunOf[c] # NoRun /\ booked[RunOf[c]] + Reserve > RunBudget
OverCap(c) == Tier(c) = "T3" /\ booked["bedrock"] + Reserve > BedrockCap

(* A refusal costs nothing, and the next tier is tried.                    *)
Check(c) ==
    /\ At(c, "check")
    /\ \/ /\ ~OverRun(c) /\ ~OverCap(c)
          /\ call' = [call EXCEPT ![c].at = "send"] /\ UNCHANGED locks
       \/ /\ OverRun(c) \/ OverCap(c)
          /\ call' = [call EXCEPT ![c] = [NextTier(c) EXCEPT !.over = call[c].over \/ OverRun(c)]]
          /\ locks' = Released(c)
    /\ UNCHANGED <<chain, booked, open, paid, faults, crashes>>

(* The provider answers, at a cost, or fails.                              *)
Send(c) ==
    /\ At(c, "send")
    /\ \/ \E cost \in 1..Reserve :
              /\ call' = [call EXCEPT ![c].at = "log", ![c].reply = "ok", ![c].cost = cost]
              /\ paid' = Plus(paid, c, cost)
              /\ UNCHANGED faults
       \/ /\ Fault /\ \E reply \in Replies \ {"ok"} : call' = [call EXCEPT ![c].at = "log", ![c].reply = reply]
          /\ UNCHANGED paid
    /\ UNCHANGED <<chain, locks, booked, open, crashes>>

Retry(c) == call[c].reply = "429" /\ ~call[c].retried

(* A mutant: a call that moves on keeps its locks.                         *)
KeptOnFailure(c) == IF call[c].reply = "ok" THEN Released(c) ELSE locks

Unlocked(c) == Released(c)

(* The attempt is booked, and what it means is decided: the answer, one    *)
(* more attempt after a wait, the next tier, or the end.                   *)
Log(c) ==
    /\ At(c, "log")
    /\ booked' = Plus(booked, c, call[c].cost)
    /\ \/ /\ Retry(c)
          /\ call' = [call EXCEPT ![c].at = "send", ![c].retried = TRUE]
          /\ UNCHANGED <<locks, open>>
       \/ /\ call[c].reply \in {"429", "failover"} /\ ~Retry(c)
          /\ call' = [call EXCEPT ![c] = NextTier(c)]
          /\ locks' = Unlocked(c) /\ open' = open \cup {Tier(c)}
       \/ /\ call[c].reply = "fatal"
          /\ call' = [call EXCEPT ![c] = Done(c, "fatal")]
          /\ locks' = Unlocked(c) /\ UNCHANGED open
       \/ /\ call[c].reply = "ok"
          /\ call' = [call EXCEPT ![c] = Done(c, Tier(c))]
          /\ locks' = Unlocked(c) /\ open' = open \ {Tier(c)}
    /\ UNCHANGED <<chain, paid, faults, crashes>>

(* The last tier plays a recording, if there is one, for nothing.          *)
Replay(c) ==
    /\ At(c, "next") /\ Tier(c) = "T4"
    /\ \E result \in {"T4", "replay miss"} : call' = [call EXCEPT ![c] = Done(c, result)]
    /\ UNCHANGED <<chain, locks, booked, open, paid, faults, crashes>>

Verdict(c) == IF call[c].over THEN "budget" ELSE "no tier"

Exhaust(c) ==
    /\ call[c].at = "next" /\ call[c].tier > Len(chain)
    /\ call' = [call EXCEPT ![c] = Done(c, Verdict(c))]
    /\ UNCHANGED <<chain, locks, booked, open, paid, faults, crashes>>

(* The breaker's cooldown is over.                                         *)
Cool(tier) ==
    /\ open' = open \ {tier}
    /\ UNCHANGED <<chain, call, locks, booked, paid, faults, crashes>>

(* The caller's process dies, and with its session its locks.              *)
Crash(c) ==
    /\ call[c].at # "done" /\ Fault /\ crashes' = crashes + 1
    /\ call' = [call EXCEPT ![c] = Done(c, "died")] /\ locks' = Released(c)
    /\ UNCHANGED <<chain, booked, open, paid>>

-----------------------------------------------------------------------------
CallStep(c) == Enter(c) \/ Check(c) \/ Send(c) \/ Log(c) \/ Replay(c) \/ Exhaust(c)

Next ==
    \/ \E c \in Callers : CallStep(c) \/ Lock(c) \/ Crash(c)
    \/ \E tier \in open : Cool(tier)

(* Clients time out, and Postgres grants a lock to who waits for it.       *)
Fairness == \A c \in Callers : WF_vars(CallStep(c)) /\ SF_vars(Lock(c))

Spec == Init /\ [][Next]_vars
FairSpec == Spec /\ Fairness

-----------------------------------------------------------------------------
(* Concurrent calls of a run together stay within its budget: only a crash *)
(* between an answer and its row lets a run pay more, by one call each.    *)
RunWithinBudget == \A run \in Runs : paid[run] <= RunBudget + crashes * Reserve

(* So do all calls of the Bedrock account, whatever runs they belong to.   *)
BedrockWithinCap == paid["bedrock"] <= BedrockCap + crashes * Reserve

(* A call is refused as over its run's budget only when it would be.       *)
RefusedMeansSpent ==
    \A c \in Callers : call[c].result = "budget" =>
        RunOf[c] # NoRun /\ booked[RunOf[c]] + Reserve > RunBudget

(* The budgets hold for callers together, and refusals are true.           *)
BudgetsHold == RunWithinBudget /\ BedrockWithinCap /\ RefusedMeansSpent

(* A call that waits for its locks comes to an answer or an error, whoever *)
(* fails meanwhile.                                                        *)
CallsEnd == \A c \in Callers : (call[c].at = "lock") ~> (call[c].at = "done")
=============================================================================
