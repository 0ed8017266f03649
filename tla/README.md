# ContextRail in TLA+

ContextRail takes an access request ("give Anil what Rahul has") along a fixed rail: Discover who and what is
meant, Compile the evidence, Govern each action by policy, Plan, Approve what policy holds for a person, Execute,
Verify, Finalize. The engine is `engine/contextrail` (Python, asyncio, Postgres). Everything it knows is in
Postgres; the API process and any number of worker processes share it, so almost everything that can go wrong is a
matter of who reads what between whose transactions, and of what is left behind by a process that dies. A voice
agent (`src/voice`) is a client of its doors.

All paths below are relative to `src/engine/contextrail/` unless they start with `src/`.

## 1. Inventory

| Part | State | Operations | What is hard |
|---|---|---|---|
| Rail runner (`rail/runner.py`, `store.py`, `finalize.py`, `approve.py`) | `runs` (status, capsule and its digest), `actions`, `jobs` | `start`, `run`, one transaction per stage, `_halt`, `resume` | several tasks on one run, READ COMMITTED, crashes between stages, blockers |
| Discover (`rail/discover.py`, `llm/adapters.py`, `rail/email_intake.py`) | the questions in the audit | `extract`, `lookup`, `discover`, `pick_candidate` | names that fit several people, records that change between lookups, answers that come one by one |
| Compile (`rail/compile.py`, `constraints.py`, `knowledge/okf.py`, `query.py`, `lint.py`) | the bundle of pages, loaded once; the capsule | `gather_inputs`, `load_concepts`, `mark_stale`, `extract`, `lint` | pages that move or age, one evidence id from several sources, quotes that do not stand in their document |
| Plan (`rail/govern.py`, `plan.py`, `models.py`) | the case file's actions | `build_candidates`, `evaluate`, `build_plan` | action ids are positions and shift when a plan is rebuilt |
| Policy (`policy/*.py`) | rules | `decide`, `resolve`, `resolve_approver`, `check_decision` | precedence, missing values, who may decide; pure |
| Execute, verify, connectors (`rail/execute.py`, `verify.py`, `connectors/fixture.py`, `state.py`) | each target's document and ledger of idempotency keys | `execute_action`, `verify_action`, `mutate` | doubtful writes, retries, lying targets, whole-document replacement |
| Doors (`surfaces/door.py`, `rest.py`, `slack_app.py`, `email.py`, `decision_link.py`, `decision_page.py`) | `approvals`, `door_messages` | `start_run`, `pick_candidate`, `decide`, `answer_query` | two doors at once, stale cards, decisions that arrive while a pass runs |
| Intake (`intake.py`, `surfaces/webhooks.py`, `ticket_requests.py`) | `runs`, `webhook_dedupe`, `jobs`, advisory locks | webhook, `rail.run` job, POST /runs, `start_ticket_request` | duplicates, retries, crashes, a POST without idempotency key |
| Job queue (`jobs.py`, `repo.py`, `worker.py`) | `jobs` | `enqueue_job`, `claim_job`, `complete_job`, `fail_job` | leases, lost and late reports, the last attempt |
| Messages (`connectors/once.py`, `surfaces/job_dispatch.py`, `freshservice.py`, `slack_app.py`, `email.py`, `receipts.py`, `ses_webhook.py`) | `door_messages`, `receipts`, remote notes, cards and mails | `send_once`, approval requests, mirror notes, receipts, notices | a send and its record cannot be one step |
| Stage events (`rail/events.py`, `surfaces/sse.py`) | sequence numbers, history, queues | `emit`, `subscribe`, `stage_events` | order, reconnection, restarts, the end of a stream |
| LLM router (`llm/router.py`, `ledger.py`) | cost ledger, breakers, session locks | `call`, `budget_guard` | concurrent spending, failover, crashes between answer and row |
| Questions and memory (`surfaces/door.py`, `llm/question_agent.py`, `surfaces/read_tools.py`, `memory.py`) | `conversation_memory` | `answer_query`, `ask`, `append`, `recent`, `forget` | whose runs are told, runs that go on meanwhile, a cap under concurrency |
| Freshservice client (`connectors/freshservice*.py`, `ratelimit.py`) | the tenant, its stand-in, the token bucket | tickets, tasks, notes, approvals, records, assets, reading | writes acknowledged and lost or given up and landed, two sources of truth, any window of a minute |
| Voice agent (`src/voice`) | calls, sessions, the dialogue | callbacks, media streams, utterances, keys | overlapping streams of one call, repeated callbacks |
| Database and audit chain (`db.py`, `audit/chain.py`, `intake.advisory_lock`, `repo.append_audit`) | the pool's connections, row and advisory locks, `audit` | `transaction`, `advisory_lock`, `append_audit`, `verify_chain` | nested connections, locks taken in two orders, pool timeouts, aborted transactions |
| Database set-up, billing client, web demo, sidebar | see section 7 | | |

What makes each part correct is stated as the properties of section 4; `PROJECT.json` lists the hazards, each at
the line where it bites, with the properties that would catch it.

## 2. Modules

| Module | Models | Built on |
|---|---|---|
| `Lifecycle` | states of an action, statuses of a run, the moves allowed (`models.py`) | |
| `CasePlan` | what Compile, Govern and Plan compute: numbered actions with their verdict's first state, order of execution | `Lifecycle` |
| `Target` | what one `execute_action` may come to, seen from outside | |
| `Rail` | one run and every task that can move it | `CasePlan`, `Target`; `Authority` by INSTANCE |
| `Authority` | the promise: a target changes only on authority, a decision is made once per action id, a run is billed once | |
| `Discovery` | inside Discover: reading, looking up, asking, answers | |
| `Knowledge`, `CaseFile` | the pages and their lint; inside Compile: evidence, freshness, constraints, the seal | `CaseFile` on `Knowledge` |
| `Execute` | inside `execute_action`: attempts, reconciling reads, the target's document | `Target` |
| `JobQueue` | the jobs table and its workers | |
| `Intake` | tickets, events and requests becoming runs, runs getting tickets | |
| `Approvals` | asking an approver, the links of a mail, telling every door the decision, bounces | |
| `Receipts` | building, indexing, noting and mailing the receipt of a run that goes on | |
| `Streams` | stage events, the streams of browsers, the message in Slack | |
| `Router` | concurrent calls of the model under two budgets | |
| `Questions` | questions, read tools, the memory of a conversation | |
| `Voice` | one phone call | |
| `Helpdesk`, `RateLimit` | one use of Freshservice with its repetitions; the bucket in front of it | |
| `Transactions`, `Database` | the statements of the transactions; sessions, pool, locks and the audit chain under them | `Database` on `Transactions` |
| `Verdicts`, `Governing` | how outcomes become a verdict; every shipped rule and who may decide | `Governing` on `Verdicts` |
| `RailInv`, `RailOrder` | invariants of `Rail` that the runs do not check by themselves and the proofs need; what keeps passes apart | `Rail` |
| `Work` | `Execute`, `Intake`, `Discovery`, `CaseFile` and `Database` side by side | `Execute`; the others by INSTANCE |
| `Messages` | `JobQueue`, `Approvals` and `Receipts` side by side | `JobQueue`; the others by INSTANCE |
| `Services` | `Governing`, `Streams`, `Router`, `Questions`, `Voice`, `Helpdesk` and `RateLimit` side by side | `Governing`; the others by INSTANCE |
| `RailProofs`, `RailOrderProofs`, `ExecuteProofs`, `JobQueueProofs` | section 5 | `RailInv`, `RailOrder`, `Execute`, `JobQueue` |
| `WorkProofs`, `MessagesProofs`, `DecisionProofs`, `ServicesProofs` | section 5 | `Work` and `ExecuteProofs`; `Messages` and `JobQueueProofs`; `Services`; `DecisionProofs` |
| `MCRail`, `MCWork`, `MCMessages`, `MCServices` | instances for TLC | `Rail`, `Work`, `Messages`, `Services` |

`Work`, `Messages` and `Services` each hold several components that do not share state, and every step is a step of
one of them. The theorems are about these: a behaviour of all is a behaviour of each, so what is proved of a
component holds of its composition. TLC checks a union of small models and not their product: in `MCWork`,
`MCMessages` and `MCServices` each behaviour explores one component, the one that `part` names, and leaves the
variables of the others as they began; a property of a component is checked in the behaviours of its own part.

Where a module needs something of its constants that its runs might not give it, the module states that as an operator
(`Given`, `CallersAreGiven`, `RateOK`, ...). It is a hypothesis of the theorems, and `ASSUME AllGiven` of the MC
modules has TLC evaluate it for the constants of the runs, so that no theorem rests on what no instance satisfies.

How the components meet: `Rail` takes a write as one step with an outcome of `Target!WriteOutcomes`, and `Execute`
shows that nothing else comes out (`SumsUp`); it takes Discover's answer as a choice (`Discoveries`), which
`Discovery` makes; the blockers that Compile may put into the case (`PolicyMissing`) come from `CaseFile`; the verdict
on an entitlement, a constant of `Rail`, is what `Governing` computes; `Intake` runs a rail as a step `Run(c)`; a job of
`Approvals` or `Receipts` has one holder, which is what `JobQueue` gives it as long as reports are prompt; every module
takes a transaction as a step and a held lock as given, and `Database` opens both.

### Rail

A *task* is one asyncio task, in the API or in a worker: a delivery of the ticket's job or of a `{run_id}` job, a
door request that starts a run, answers a question or decides, a call of the MCP tool. `pc[t]` says which
transaction or connector call it does next. Every transaction is one action, every connector call is one action,
and any other task may act between two of them. A transaction that reads the status and writes it later is split
at that gap (`OpenRun`/`SetRun`, `OpenResume`/`CheckResume`/`SetResume`, `DecideRead`/`RecordApproval`), because
Postgres runs READ COMMITTED and the code takes no row lock on what it reads; where the transaction has written the
run's row before it reads, it is one action.

`status`, `capsule` (actions by slot), `blockers` and `sealed` are the run's row; `rows`, `approvals`, `asked`
(approval.dispatch jobs), `receipts`, `usage` and `jobDone` stand for the other tables; `ledger`, `held` and
`wrote` for the targets. `case[t]`, `seen[t]`, `touched[t]`, `ask[t]` are what a task has in memory. The locks are
the advisory locks of `intake.py`: scoped to a transaction, so they go when the task ends, dies or raises.

A *slot* is an action id: A01, A02, ... and R01, R02, .... `CasePlan!Candidates` numbers what is wanted and not
held *now*; that is why a rebuilt plan can give an id to another entitlement, and most of what is interesting in
the rail follows from it. `params_hash` is the slot's entitlement (the hash is taken as injective), and the
idempotency key is the pair of slot and entitlement, as in `canonical.idempotency_key`.

Left out: what stage events and audit rows say, expiry of grants, intents other than access and transfer.

### Discovery

A text is its passages: what its sender wrote (`own`) and that with what is quoted (`whole`), each with what the
patterns would find and the words it says. `Extracted` is what may be read: what the patterns find, or, with a model,
anything consistent whose mentions are words of the text. `Lookup` is the exact lookup. A pass is `Extract`,
`FindSubject`, `FindPeer`, `Record`; the HR records may change between any two. `asking` is what the doors read from
the last `stage.discover` row; a pick starts a pass that knows only that pick.

### Knowledge and CaseFile

A page is its path, its shelf, whether its frontmatter is usable, what that says, and its sections in order, each with
the clauses its heading answers to and the rules whose text stands in it. `shelf` is the bundle as the process loaded
it, `files` the directory now. Every pass of Compile is `Gather`, `Retrieve`, `MarkStale`, `ExtractConstraints`,
`Seal`; days pass, pages are edited, messages are posted and the process restarts at any point.

### Execute

`Rail` takes a write as one step. `Execute` opens that step: attempts, the target's ledger of keys, transient errors,
timeouts before or after the change, the reading back. The target's document is loaded and replaced whole; `ItsTurn` is
the event loop of one process, in which nothing comes between the two.

### JobQueue

Time is abstract: a lease may run out once the handler of its claim has ended (the handler is cancelled at 90% of
the lease), and, if `PromptReports`, once its report has been made. `starts`, `succeeded`, `permanent` and `holder`
are history variables. `Usage` are the jobs of a kind that is enqueued and for which no module registers a handler.

### Intake

Callers act once, a retry is another caller. `lock` holds the ticket locks, the locks of messages and events;
`Run(c)` stands for the whole rail. Runs are named after the caller that starts them. A ticket the engine places is
named after its run; with `Echo` the help desk reports such tickets to the webhook, as the automation of
`src/docs/CHECKLIST.md:179` would. The tail of an onboarding (`Tasks`, `Procedure`) writes into a row what came of each,
and a failure there never changes what was answered of the ticket.

### Approvals and Receipts

One held action and the three jobs about it (`approval.dispatch`, `fs.approval.mirror`, `door.update`), step by step,
against a ticket, Slack and mail, each of which may do a thing and lose the answer; between two steps the approver
decides, the run resumes, a bounce arrives or the worker dies. `lost` and `blind` count what the code cannot know.
`Receipts` lets a run go through a `Story` of outcomes while `receipt.build` jobs read it in statements of their own.
The receipt mail is modelled as its docstring says it is used (`surfaces/email.py:427`); in this commit nothing but a
test calls it.

### Streams, Router, Questions

`Streams`: two processes with buses of their own, and passes of one run in each, which may overlap: a pass reads the
status and sets the run running later, with no lock on its row (`Open`, `SetRunning`), so a run that another pass has
finished in between is set running again (`revived`); then it commits statuses and emits events, or fails. A client
disconnects and returns with the last id it has; processes restart. `Router`: callers down a chain of tiers, holding
session locks in the code's order; costs are small numbers. `Questions`: an answer reads scope by scope what the door
and the read tools read, while runs commit phases; precedents are the decisions on record of anybody's runs, and an
answer may cite any of them.

### Voice, Helpdesk, RateLimit

`Voice`: streams, sessions and callbacks of one call around one `Dialogue`. `Helpdesk`: one operation, tried up to
`MaxTries` times, against a tenant whose requests may fail before, be refused, be acknowledged and lost, or land after
they were given up (`strays`); where the tenant forbids the catalog, a plain incident is posted in its place.
`RateLimit` counts time so that arithmetic is exact.

### Transactions and Database

A session is a request or a job as the list of its statements: what it locks, in which order, and when it appends to
the audit chain. `advisory_lock` is a transaction around others, so that a pass under its run's lock holds two
connections and a ticket's pass three. A stage locks the row of its run before the chain, a halt the chain before the
row. A session that waits too long for a connection raises (`GiveUp`), one that waits in a circle may be aborted by
the database (`Abort`), and then everything it has is rolled back. A row takes its number when it is inserted, so that
an aborted append leaves a gap, as Postgres sequences do.

### Verdicts and Governing

`Resolve` is `policy/engine.py`'s precedence on any set of outcomes; `Governing` reads every shipped rule file, with
`"missing"` for a value that a record or the catalogue lacks, and takes an action from its request through a verdict to
a decision.

## 3. Abstract specifications

`Authority` knows the writes, the decisions and the bill, and nothing of tasks, passes or plans. `Rail` implements
it under the mapping `decided <- approvals, billed <- usage` (property `KeepsPromise`, theorem `RailKeepsPromise`).
`Target!WriteOutcomes` plays the same part for one write: the contract between `Rail` and `Execute`.

## 4. Runs

Every run allows deadlock, because the system really may stop: a task or caller is one-shot and ends, and workers
that poll a table in which every job is done or dead change nothing.

| Run | Bounds | What it shows |
|---|---|---|
| `rail_doors` | one start, an allowed and two held entitlements, two deciders, one of which may die | `WritesAreAuthorised`, `VerifiedIsInPlace`, `WaitingWasAsked` with overlapping passes |
| `rail_one_pass` | an allowed, a held and a refused grant and a revocation; two answers over REST, one decider that may die, an outside edit of the capsule | `RecordsAgree`, `OutcomeIsBooked`, `OnePassAtATime`, `NothingIsTakenBack`: books, rows, case file and status agree; a finished run stays finished |
| `rail_retry` | a GitHub grant listed first, an allowed and two held grants; the ticket's job delivered twice, its first worker may die anywhere, one decider | `WrittenAtMostOnce`, `KeepsPromise`, and `RunSettles` |
| `rail_blocked` | a held action without an approver; a Slack answer, a job, an MCP call, a decider | `BlockedRunNeverWrites` in every pass |
| `work` | `Execute`: three executors, two keys for one change, three attempts, every fault. `Intake`: a ticket by webhook and POST, its job twice, a direct message twice and once with another text; one of each may die. `Discovery`: three people, two of them Rahul, five texts, one change or death. `CaseFile`: two cases, four states of the pages, one edit, three days. `Database`: two passes of one run under its lock, one of them a ticket's, a decision with the pass it resumes, a receipt; four connections; the decision's session may die | `TypesOK`; `AppliedOncePerKey`, `AppliedStays`, `SumsUp`, `WorkEnds`; `OneOfEach`, `RequestsStayApart`, `OutcomeStands`, `AcceptedTicketIsRun`; `CasesAreSound`; `DatabaseIsSound` |
| `messages` | `JobQueue`: two workers (one mortal), two jobs, three attempts, prompt reports. `Approvals`: four set-ups of doors, one worker, two tries, one fault. `Receipts`: a story of three outcomes, two workers, two tries, one fault | `TypesOK`; `OneWorkerPerJob`, `StartsAreBounded`, `DoneWasDone`, `DeadStaysDead`, `JobsEnd`; `AskingIsSound`, `ReceiptsAreTrue`, `OutcomeIsTold` |
| `services` | `Streams`: two processes with a pass at a time in each, which emit three events (one more after a restart) and one; one event kept, a client, one restart. `Router`: three callers, two on one run, one fault. `Questions`: two askers, two runs of two owners. `Voice`: two streams, three utterances, one repeated callback. `Helpdesk`: three tries, three faults. `RateLimit`: two callers, seven ticks. `Governing`: five people, ten entitlements, every origin and requester | `TypesOK`; `FollowersSeeTheRun`, `BudgetsHold`, `AnswersAreGrounded`, `PhoneIsHarmless`, `HelpdeskIsSound`, `PolicyIsKept`, `ServicesAnswer` |

The properties of `work`, `messages` and `services` are conjunctions of named parts, which the modules state one by one,
each with the behaviour it is about; `TypesOK` of each has the types of all its components. Some that reach furthest:
whoever is compiled for was named by the sender's own words or by a picked id (`RightPeople`); pages that pass the lint
on a day never block a case judged on that day (`CleanPagesNeverBlock`: the lint and Compile are two programs that must
agree); a receipt that says the run is over tells what became of every action (`FinalReceiptIsWhole`); a client that
reconnects misses only what the bus no longer kept (`NoGapButForgotten`); concurrent calls overspend only by crashes
between an answer and its row (`RunWithinBudget`); the rows of the audit are one chain at every moment, whoever is
rolled back (`ChainIsLinear`), and passes that hold their run's lock never deadlock over chain and row (`NoDeadlock`); a
status told is never older than the rows cited for it (`NotOlderThanSources`); holding a rule out changes a verdict only
through what that rule said (`StudioIsRight`).

Runs that end in a violation, each of what a comment or document says of the code:

| Run | Violates | In a sentence |
|---|---|---|
| `rail_lost_wakeup` | `DecisionTakesEffect` | a decision that lands between Approve and Finalize of a running pass is never acted upon |
| `rail_retry_github` | `WrittenAtMostOnce` | a worker dies after its writes; the rebuilt plan gives a GitHub grant that was written another id, and so another idempotency key, and it is written again |
| `jobs_two_workers` | `OneWorkerPerJob` | a report that comes after its lease frees the lease of the next claim |
| `usage_unclaimed` | `UsageIsSent` | no module registers a handler for the `dodo.usage` job that Finalize enqueues, so no worker claims it and a finished run is never billed |
| `discover_two_questions` | `AsksOnce` | of two questions the first answer is forgotten when the second is given, and the run asks again |

### Met while modelling

Visible in the modules after a change of constants, but not among the runs:

- `FinishedStaysFinished` fails when two resumes read `awaiting_approval`: the second sets a finished run running. A
  browser may have been told by then that the run is over; its stream has ended, and it sees nothing of the second pass
  (`EndIsTrue` of `Streams` without `revived`).
- A policy question answered from precedents cites audit rows of other people's runs (`surfaces/read_tools.py:81`, passed
  on by `surfaces/door.py:247`); `OwnRunsOnly` allows for these and for nothing else of another's run.
  `VerifiedIsInPlace` and `OnePassAtATime` fail with two overlapping passes begun by Slack picks (no run lock in
  `surfaces/slack_app.py:155`). `WaitingWasAsked` fails in the instance of `rail_retry_github`, if the shifted action
  is held.
- `EveryWriteIsReported` fails when the worker of a ticket's job dies between a write and the end of its pass: the job is
  delivered again, the new plan leaves out what is held by now, and the run ends without a word of that change in its case
  file, receipt or bill. `VerdictsStayTerminal` fails in the same instance.
- `BlockedRunNeverWrites` fails for two Slack answers to one question of a run with an unresolved revocation.
- `AppliedStays` fails when two processes share a state directory (`ProcessOf` with two values).
- A worker that dies in a job's last attempt leaves a dead job whose row names no error (`lastError`).
- `OneRunPerEvent` fails when a Slack command's retry follows a crash, and `OneRunPerTicket` with `Echo = TRUE`.
- A mail whose send fails after the provider took it is sent again: `connectors/once.py:6` promises what
  `connectors/ses.py:136` cannot give (`blind` in `OneMailPerSend`).

- `NoDeadlock` fails for the session that resumes a run after a decision: it holds no run lock, so its stage (row, then
  chain) may meet another pass's halt (chain, then row). The database aborts one of the two, and the run is left
  running.

Met while reading the code, and kept in the modules as it is:

- Policy: `policy/conditions.py:12` says an unknown "can never become ALLOW", but `escalate` and `match` use the same
  false-if-missing test, so missing repository tags turn a HOLD into an ALLOW. `resolve_approver` avoids the requester
  and not the beneficiary. A hold by several rules asks the most senior of their approvers.
- Voice: an utterance cut off by the end of its stream may refill the queue while a key is awaited; a second,
  different request confirmed in one call is answered with 409 and told as "engine down".
- Helpdesk: a transient failure while the requested items of a ticket are read makes the description the request,
  although the items take precedence; a write that lands after it was given up is duplicated by the retry
  (`strays`).
- Discovery: `find_by_name` returns matches of the first name only where none has the full name; a request for a
  refund without a subject ends done, told as a question.
- Knowledge: the lint compares a page's type with "Precedent" as written, Compile in lower case; a rule that cites a
  reserved page is dated by a page the lint does not date; two pages that link only each other are no orphans.
- A page without a date never blocks, though the lint reports it (`OnlyOldEvidenceBlocks`); freshness is judged once,
  so a run held for long executes on evidence that has since grown old.

### Bounds

Three actions are enough for ids to shift past each other, to have an action of each verdict beside a held
one, and for one decision to arrive while another's pass runs. Two overlapping passes exhibit every race that
involves one shared row; a third changes nothing that two tasks and the tables do not already hold. Two deliveries
of a job are a crash and its retry. Three executors are the same key twice and another key for the same change.
Two workers with three attempts reach the limit with every mixture of crashes and errors. Two Rahuls and one other are
a name that fits two, one that fits one, and an id; both questions of one request may be open. The states of the pages
are one for each way a clause, a draft, a type, a date or a claim can be wrong, and an edit goes from any to any. Three
days take every kind of evidence past a budget. One lost answer per job shows what a retry finds; one restart, one
repeated callback and one crash are those after which nothing new is shared. Two callers of one run, and a third that
shares only the account, are the ways two calls can meet in the router. The people and things of `Governing` have
every employment and class of the rules, and each a value missing. The theorems remove bounds where they apply.

### Fairness

`Rail!Fairness` is weak fairness of each task's own steps, once begun (an event loop runs what is ready, connectors
answer or time out), and of job deliveries and starts (a worker polls); nobody is obliged to click, and a task in
`Mortal` may die at any step. `JobQueue!FairSpec`: a worker that is up polls and finishes its handler (there is a
timeout), leases run out and delays pass. `MCWork!Fairness`: executors and callers that have begun go on, and a job
that is not done is delivered again; of the database's sessions some step is taken if any can be (the event loop runs,
the pool's and the database's timers fire), which is enough because scripts are finite. `MCMessages!Fairness`: that of
the queue; a worker works, a pass goes on; strong for the two workers of
receipts, which take turns at a lock that Postgres grants in order. `MCServices`: a stream's server goes on, a call goes
on, and strong fairness of taking a session lock, for the same reason.

## 5. Proofs

Each proof module proves an inductive invariant with one lemma per action and derives its theorems from it.

**The rail: authority** (`RailInv`, `RailProofs`). `WritesAreAuthorised` speaks of the writes and of the approvals
table, but a task writes from its own copy of the case, which may have been loaded long ago; so it is not inductive.
`IInv` adds what must be true of every copy: an action is `approved` in it only by a decision on record for its id and
its parameters (`Sound`), it waits or is approved only if policy held it, and its id has a row in the actions table
(`Known`, without which an approval could be recorded for an action that is then planned anew under the same id with
other parameters). `Sound` survives other tasks' steps because `record_approval` never replaces a decision
(`ApprovalsStay`) and rows are never deleted (`RowsStay`). The lemmas about the planner come first: an action
it adds is never `approved`, an action it keeps is kept as it was, and with slots for everything wanted and not held
nothing is listed twice. Theorems, for any request, verdicts, number of
tasks, crashes and tampering:

- `InductiveInvariant`, `TypeCorrect`: `Spec => []IInv`, `Spec => []TypeOK`;
- `WritesAuthorised`: no write reaches a target unless policy allowed it, or held it and its approver approved exactly
  these parameters under exactly this id;
- `RailKeepsPromise`: `Spec` implements `Authority!Spec` under the mapping of `Rail!Promise`.

Assumed: `PlanAssumption` (the desired grants and revokes are finite lists without duplicates, each entitlement has a
verdict, an approver can be missing only where policy holds) and `RailAssumption` (a task is of one kind: one delivery,
one request, one click; none is `NoTask`; the constants are of their types).

**The rail: order** (`RailOrder`, `RailOrderProofs`). The engine has no lock on a run; that the tables of a run tell one
story rests on the order of its passes, and that order on all guards together: the ticket's lock, the run's lock of
`pick_candidate`, the status each door looks at, the job that is done. The argument has two layers, the second
inductive given the first.

1. *Where the tasks can be.* `OrderInv`: what a task holds at each of its steps, and what the status is meanwhile, so
   that at most one task is between opening a run and finalizing the plan it built, and none resumes in that time
   (`OneByOne`). `JobInv` and `FinalInv` add that a run that has written or asked is not planned again as long as no
   delivery of the ticket's job has died (`Unbroken`). Together `ControlInv`, theorem `PlansFollowEachOther`.
2. *What the copies of a plan have in common.* `AgreeInv`: the tasks of a pass, the stored case file and the rows speak
   of the same entitlements, though of different states; `CopiesInPlace`: what any copy calls verified is in place;
   `DraftInv`: a plan in the making is made of what the subject holds; `WriteInv`: what was carried out shows or keeps
   its id; `AskInv`: past the Approve stage all that waits was asked; `BlockInv`, `ResolvedInv`: what blocks the run
   is in every copy that may be executed.

The theorems, for any request, verdicts, holdings, number of tasks of each kind, tampering and crashes:

| Theorem | Shows | If |
|---|---|---|
| `PlansFollowEachOther` | `ControlInv` | `OrderlyPlans` |
| `CopiesHold` | `CopiesInPlace` | |
| `VerifiedHolds` | `VerifiedIsInPlace` | `OrderlyPlans` |
| `BlockedNeverWrites` | `BlockedRunNeverWrites` | the blocker shows in the candidates, or `OrderlyPlans` |
| `WrittenOnce` | `WrittenAtMostOnce`, for ever with `StableIds`, else while `Unbroken` | `OrderlyPlans` |
| `WaitingAsked` | a request was dispatched under the id of all that waits; `WaitingWasAsked` while `Unbroken` | `OrderlyPlans` |
| `OnlyDecisionsOverlap` | two tasks are in a plan or pass of the run at once only if both are decisions or MCP calls | `OrderlyPlans` |

What the hypotheses are, and what fails without them:

- `OrderlyPlans`: no `{run_id}` job and no Slack answer (they begin a pass without the run's lock), and not both a
  ticket's job and POST /runs. It is a condition on who acts on the run, and the code does not give it. Without it:
  `VerifiedIsInPlace` fails with two Slack answers, since the Govern stage of the second names the rows anew while the
  first one stores its states; `BlockedRunNeverWrites` fails with two Slack answers and an unresolved revocation, which
  the second pass's Compile has removed from the case for a moment.
- `Unbroken` says of a state that no delivery of the ticket's job has died yet. It is no hypothesis about behaviours: up
  to such a death the theorem speaks of every state of every behaviour, with any deaths of other tasks, and what still
  holds after it stands beside it. After it the pass that starts again plans anew, and `WrittenAtMostOnce`
  (`rail_retry_github`) and `WaitingWasAsked` (section 4) fail if an id has moved.
- `StableIds`: grants that no holding shows are wanted before all others, so that an id never moves. `rail_retry` is an
  instance of it with a mortal worker.

That tables, receipts and bill tell one story (`RecordsAgree`, `OutcomeIsBooked`), that one pass goes on at a time and
that nothing is taken back are not theorems: two decisions acted upon at once break `OnePassAtATime` and
`FinishedStaysFinished`, and the death of a ticket's worker breaks `EveryWriteIsReported` and `VerdictsStayTerminal`
("Met while modelling"). The code excludes neither, so TLC checks them for one decider, and
`OnlyDecisionsOverlap` says which tasks they depend on.

TLC checked each of these invariants on small instances of its hypotheses before it was proved, with transfers, GitHub
grants, missing approvers and tampering.

**Executors** (`ExecuteProofs`). Between its load and its store, an executor's copy of the target is the target
(`CopiesAreFresh`), because no other executor *of its process* can be there; so a key missing in the copy is missing in
the ledger, and its change has not been made (`AppliedIsRecorded`). Who has made its change does not try again, and what
a call returned the document bears out (`SumInv`): `CallsSumUp` is the contract of `Target!WriteOutcomes`, on which
`Rail` and its theorems rest. `AppliedOnce`, `NothingLost` and `CallsSumUp` hold under
`OneProcessOnly`, which is what the lock of `connectors/state.py` gives and no more: two processes on one state
directory break the first two. Assumed: `ExecuteAssumption`.

**The queue** (`JobQueueProofs`). Every start of a handler costs the row an attempt and no report gives one back
(`StartsArePaid`); a permanent failure uses up what is left (`PermanentIsSpent`). From these `BoundedStarts` and
`DeadIsDead`, for prompt and late reports alike, and `OnlyDoneIsDone`. If reports are prompt, whoever works at a job is
its latest claimer and the lease is held for him (`WorkIsLeased`), hence `PromptMeansAlone`; the run
`jobs_two_workers` shows what happens without that assumption. Assumed: `JobQueueAssumption`.

**The work around a run** (`WorkProofs`). One section for each component of `Work`, each with its invariant and a lemma
for every action.

- *Intake.* A lock goes with its caller, a run with the reference under whose lock it was started, and the row of a
  request says how far its ticket has come, place by place of its caller. `RequestsAreServedOnce` says first, of any
  callers and deliveries, echoed or not, that a run gets at most one ticket, a ticket at most one run begun for it,
  and a retry of an event the run of that event, under a new reference too, unless the caller that began it died
  before it noted the event (`ServedOnce`; its invariant `EventInv` follows the event from the lock to the row); then
  `OneOfEach`, if deliveries of one event refer to one message (`KeysKeepRefs`) and the help desk does not report the
  engine's own tickets back (`~Echo`). `RequestsKeepApart` and `OutcomesStand` (`RequestsStayApart`, `OutcomeStands`)
  need neither of the two. Assumed by all: `CallersAreGiven` (references, events and tickets are named apart).
- *Discovery.* `RightPeople` speaks of the end of a pass; the invariant says what is made out at each of its stages, and
  that of an e-mail nothing but the sender's words has been read, whoever did the reading. Assumed: finitely many
  people, whose ids are nobody else's name; what is read out of a mail stands in it.
- *CaseFile.* From stage to stage a case has every rule once, and what is old or missing is among its blockers, for the
  pages its process has loaded, whatever is edited meanwhile. Assumed: one page under a path, no rule on a reserved
  page, people and messages with ids of their own, and a precedent's days of freshness no more than a policy's (180 and
  365 in `rail/compile.py:206`): without the last, a page too old as a policy could pass as a precedent. `CasesHold`:
  `CasesAreSound`, of both modules.
- *Database.* `ChainIsLinear` speaks of committed rows, but what the next row will name was read earlier, among
  transactions that may yet be rolled back. `ChainInv` says that at most one session is between taking the chain's
  lock and its commit, that rows not committed belong to it, and that the hash it read is that of the last row, its
  own included, until it inserts. `LockInv` says that what a session holds is what its script has by then. In a circle
  of waiting sessions nobody waits for a row, since whoever has it has its run's named lock too, nor for the chain,
  whose holder waits for a row at most; and of the named locks waited for, who holds the one of highest rank waits for
  none: so sessions that take their locks in order never form a circle. `ChainHolds`: the chain is one line if every
  append has the form of `append_audit` (`AppendsUnderLock`). `DatabaseIsKept`: `DatabaseIsSound`, for any scripts
  that lock in transactions (`LocksInTransactions`) and any `Orderly` sessions whose locks have ranks
  (`TakesInOrder`). These speak of the scripts alone, and TLC checks them for the scripts of `Transactions`.

`TypesHold`: `TypesOK` of `Work`.

**Messages** (`MessagesProofs`). An approver is asked once because a worker that is about to record a ticket or a mail
has asked and is alone with its job: the invariant says what a worker knows at each of its places (`Known`), that a job
is held by one worker (`JobsFit`), and that every mail but the one on record, or about to be, was lost (`MailsFit`).
`AskingHolds`: `AskingIsSound`. `ApprovalRemembered`: the safety part of `OutcomeIsTold`, `ApprovalStaysKnown`, with one
worker: what its mirror job read of the row is still there when it writes the row back (`StillSo`); a second worker
could have recorded an approval in between. A receipt is built from rows read one statement after the other, while the
run goes on. `HasSeen` says of each builder what it has read and that, under the lock, this is no older than what is
stored; `StoredIsSo`, that what is stored is no older than any note, and how many notes of it can be unrecorded. From
these `ReceiptsTell`: `ReceiptsAreTrue`. The whole of the final receipt comes from the order of two reads: the run's row
is read before the actions, and written after them. `MessagesAreTyped`: `TypesOK`. Assumed: jobs may be tried at all,
the setups are setups, a final status ends the story of a run.

**Decisions and the services of a run** (`DecisionProofs`).

- *Policy.* About any set of outcomes: where some rule has spoken, more rules speaking never loosen the verdict
  (`MoreRulesNeverLoosen`), and what Policy Studio reports about a rule is due to that rule (`HoldingOutTellsTheTruth`).
  About any subjects, catalogue, roster and rule book: `DecidingIsSafe`. `PolicyHolds`: the whole of `PolicyIsKept`, for
  every rule book with the rules on production data, raw data and contractors (2, 7 and 8 in the order of
  `Governing!Rules`), and if the words for nobody and for an unknown value are no person's id.
- *Budgets.* What is paid and not booked is paid by a caller that holds the locks of the accounts it reserved on, or by
  one that crashed. `BudgetsKept`: `BudgetsHold`, for any chains of tiers that are sequences of tiers.
- *Freshservice.* `RateIsKept`: the bucket and what was let through add up to a full bucket and the time since the
  window began, for every rate, burst and number of callers. `HelpdeskKept`: `HelpdeskIsSound`, for any tasks and tries;
  its invariant counts what is held against the requests that are on their way and those that land late (`strays`).
- *Answers.* `AnswersKept`: `AnswersAreGrounded`. What a read tool read may be older than the row by now, and its status
  is kept no older than what is cited with it; what is cited of another's run is a decision that was on record.

**The phone, the followers of a run, and all types** (`ServicesProofs`, continued from `DecisionProofs`). `PhoneKept`:
every start of a request is paired with a read-back before it, counted over the streams that are still on their way
(`Backed`). `FollowersKept`: `FollowersSeeTheRun`, for any passes that overlap, fail or revive a finished run, if one
process serves the streams: with two, a client that reconnects to the other compares sequence numbers of different
buses, and `SkippedWasSeen` fails. `TypesHold`: `TypesOK` of `Services`.

**What is only model-checked.** Liveness, since fairness and ENABLED are beyond the prover: `RunSettles`, `WorkEnds`,
`AcceptedTicketIsRun`, `OutcomeIsTold` (but `ApprovalStaysKnown`), `JobsEnd`, `ServicesAnswer`. Of the rail:
`RecordsAgree`, `OutcomeIsBooked`, `OnePassAtATime`, `NothingIsTakenBack`, and the properties of the table outside
their hypotheses; the rest of what the passing runs check is stated by a theorem. The properties that runs show
violated are claims of comments or documents, so no theorem is there to state. Nothing in the modules is defined by
RECURSIVE where it is proved about; where a proof needs a least element of a set of numbers (`WellFoundedInduction`),
it takes one, but what a recursive definition computes for every input is not proved anywhere.

## 6. What is abstract everywhere

Texts, names and payloads are model values or members of small sets; hashes, signatures and canonical JSON are taken
as injective and unforgeable; an audit row is part of the action whose transaction appends it; a Postgres transaction
is one action unless it reads and later writes the same row. Prices, days and tokens are small numbers.

## 7. Not modelled

- Hand-over views (`rail/handoff.py`) and the replay of Policy Studio: pure functions of one sealed case, computed and
  checked in one call.
- Retrieval by similarity (`knowledge/rag.py`), precedent statistics (`knowledge/precedent.py`), prices and recorded
  answers of models: data without a lifecycle.
- Billing beyond the usage job of a run (`billing.py`, `connectors/dodo.py`), the MCP tools that only read, inbound
  mail beyond its text, Slack commands, hashes of the audit rows, migrations, seeds and resets.
- The web application with its TypeScript twin of the engine, the ticket sidebar and the MCP server: clients of the
  REST door, or demonstrations that share no state with it.

What could come next: the refinement that takes each transaction of `Rail` to the statements of `Database`; one module
in which `JobQueue` runs the jobs of `Approvals` and `Receipts`, so that an expired lease brings two workers to one
message; `AcceptedTicketIsRun` as an invariant of a clocked model, which would be open to proof.
