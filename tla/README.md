# TLA+ verification of KarsaSec

KarsaSec is a static-analysis and remediation platform. Most of its code (parsers,
graphs, rules, retrieval, reports) is a pure computation over source text. The parts
that can go wrong in ways a test hardly reaches are the ones that keep state and run
concurrently, and the fixpoint analysis whose verdict may silence a finding. This
project models them:

- *remediation tasks*: an API process creates tasks in PostgreSQL and puts their ids
  on a queue; workers lease the task row, run the remediation and commit the result;
  recovery leaders take tasks from workers that went offline; every transition leaves
  an audit row and an outbox event, and publishers deliver the events;
- *disaster recovery* of those tables from checkpoints and the audit ledger;
- *AI requests*: reservations against a shared token budget, provider calls with
  retries, and the circuit breaker that decides whom to call;
- the *remediation lifecycle* that patches files under an approval token;
- the *consensus engine* that grants leases by epoch and fencing token;
- the *path-sensitive taint verdict*: control-flow graph, abstract interpretation and
  sink matrix, compared with what the analysed programs really do.

Paths below are relative to `src/karsasec/` unless they start with `docs/`.

## 1. Inventory

| Part | State | Operations | Hard behaviour |
|---|---|---|---|
| Task repository `persistence/postgres_task_repository.py` | `tasks` row: state, attempts, lease_version, assigned_worker_id; `dead_letter_events` | create_task, update_task, atomic_transition, assign_task, complete_task, record_execution_failure | worker row read without a lock before the task row is locked; stale leases; attempt budget |
| Worker table `persistence/postgres_worker_repository.py` | `workers` row: status, fencing_token, heartbeat_sequence | register_worker, heartbeat, mark_offline / draining / drained / fenced | heartbeats and drains that cross |
| Audit ledger `events/audit_ledger.py` | `task_audit_log`, hash-chained | record_transition, verify_chain_integrity | must be written with the row |
| Outbox `events/outbox.py`, publisher `events/publisher.py` | `outbox_events` row: status, attempt_count, claim; `_processed_event_ids` in memory | stage_event, claim_pending_events, mark_published, mark_failed, poll_and_publish | deduplication, rollback of a poll after the handler ran, overlapping polls |
| Task queues `workers/queue.py`, `workers/redis_queue.py` | main queue, processing list | enqueue, dequeue, acknowledge, requeue | bound; ids left behind by a crash |
| Worker runtime `workers/worker.py` | locals of `process_task` | start, process_task, recover_stale_tasks | a dozen commits in a row, each of which can fail or be the last |
| Remediation service `server/services/remediation_service.py` | none of its own | trigger_remediation, get, list | three commits |
| Cluster recovery `workers/cluster_recovery.py`, lock `persistence/postgres_recovery_lock.py` | recovery lease, fencing token, the snapshot of the tasks to recover | acquire, renew, release, is_valid, recover_orphaned_tasks | lease lost half-way, compensating rollback, two leaders |
| In-memory repository `workers/repository.py`, `workers/task.py` | dict of tasks, transition table | same interface | second implementation of the contract |
| Worker registry, heartbeats, scheduler `workers/{worker_registry,heartbeat,scheduler}.py` | in-process worker records | register, heartbeat, detect timeouts, select by load | clock against heartbeat |
| Drain and shutdown `reliability/{drain_mode,shutdown}.py` | drain loop, once-only flag | wait_for_drain, execute_shutdown | timeout against completion |
| Dead letters, retry budget `reliability/{dead_letter,retry_budget}.py` | none beyond the row | insert, sanitize, compare | - |
| Checkpoint, snapshot, replay `recovery/*.py` | `recovery_checkpoints` row: generation, lease token, task rows, ledger head | save_checkpoint, restore_checkpoint (load_snapshot, replay_events, rebuild_outbox_from_audit) | entries that are flushed and not committed; replay of what was already applied; restore to an earlier time |
| AI requests `ai/{state_machine,request,execution,retry,budget,hedged_execution}.py` | `ai_requests`, `ai_budgets`, `ai_provider_attempts` rows | create, reserve, transition, commit, release, record_attempt, claim a hedged win; execute | reservation leaked or spent twice, two sessions locking budget and request in opposite orders |
| AI routing `ai/{router,circuit_breaker,circuit_repository,failure_classifier,health}.py` | circuit state, failure window, probe slots, `ai_circuit_states` | select_provider, is_open, record_success / failure, save, restore | late results, probe slots, stale rows after a restart |
| Remediation lifecycle `ai/remediation/*.py` | the files of the checkout; per call: lifecycle state, snapshot, token, backup | execute: propose, approve, apply, rescan, test, roll back | check-then-write on shared files, partial writes, failing rollbacks |
| Consensus engine `analysis/distributed/consensus.py` | epoch, fencing token, sequence, leases, processed events | request_authority, apply_event, get_snapshot, reconcile_partition_healing, validate_authority | lost, repeated, reordered events; partitions |
| Path-sensitive verdict `graph/cfg/*.py`, `graph/dataflow/{abstract_state,registry,guard_propagation,sink_matrix,semantic_correlator,security_decision}.py` | basic blocks and edges; environment per block and edge, worklist, step counter | build_cfg, analyze, correlate_and_evaluate, evaluate_verdict | guards, merges, reassignments and loops in any order; worklist and safeguard |

**Interaction.** `trigger_remediation` -> repository (create, queue) -> queue. Worker:
queue -> repository (get, assign) -> remediation -> repository (complete or fail) ->
queue (acknowledge or requeue). Recovery leader: lock -> repository (list RUNNING) ->
repository (compare-and-set) -> lock -> queue, or a second compare-and-set that rolls
the first back. Every repository transaction -> ledger and outbox; outbox ->
publisher -> handler. The `tasks` row is the only thing all of them share, and
`lease_version` is what is meant to keep them apart. Recovery reads ledger and
checkpoints and rewrites `tasks` and `outbox_events`. Inside a remediation the
lifecycle engine shares the checkout with every other call and with developers; the AI
services share one budget row and, per process, one circuit breaker; consensus engines
share nothing and exchange events and snapshots. `evaluate_security_verdict` runs within
one call: source lines -> CFGBuilder -> WorklistFixpointAnalyzer ->
SemanticSinkCorrelator -> SinkCompatibilityMatrix -> SecurityDecisionEngine.

**What makes the parts correct.** A task is granted at most `max_attempts` times and
ends once; a worker that lost its lease cannot change the row; a terminal row stays;
row, ledger and outbox agree; a QUEUED task is always on its way to a worker; an
event is published only if a handler took it or a poll without a handler went through
it, and given up only after its budget of failures. After a restore from a checkpoint
saved in quiet, rows and outbox follow the ledger again. Budget and requests stay in
balance whatever session dies. A half-open circuit is not stampeded, and a healthy
provider whose circuit is open keeps being called unless a probe slot is lost. Only an
approved patch of the approved text reaches a file, and VERIFIED_FIXED after a rescan
means that nothing there is reported VULNERABLE as the finding was. No lease is invented,
taken back or outlived. In the functions that the analysis understands, a sink is SAFE only
if the constraint it is called safe for holds of the value on every path.

The hazards, each at the line where it bites, are in `PROJECT.json`.

## 2. Modules

```
TaskAuthority              what the repository promises (abstract)
   ^ refinement
PostgresTaskRepository     tables and transactions
   ^ EXTENDS
WorkerRuntime              process_task, trigger_remediation   (INSTANCE TaskQueue)
   ^ EXTENDS
ClusterRecovery            recovery leaders and their lock     <- ClusterRecoveryProofs
                                                               (about all three)
EventPublisher             poll_and_publish over the outbox    <- EventPublisherProofs
DisasterRecovery           checkpoints, replay, outbox rebuilding
                                                               <- DisasterRecoveryProofs
AIRequest                  request, budget and attempt rows under row locks
   ^ EXTENDS               (with FailureClassifier)
AIExecution                execute beside stepwise callers     <- AIExecutionProofs
ProviderRouting            router and circuit breaker          <- ProviderRoutingProofs
                           (EXTENDS FailureClassifier)
RemediationLifecycle       execute, applier, verification, rollback
                           on one checkout                     <- RemediationLifecycleProofs
Consensus                  engines on an unreliable network    <- ConsensusProofs
AbstractState              environments, joins, transfer functions
   ^ EXTENDS
SinkCompatibility          the sink matrix and its use
   ^ EXTENDS
PathAnalysis               one execution beside the analysis   <- AbstractStateProofs
                           of its path (with ValueSemantics)
GuardPropagation           worklist analysis and verdict (EXTENDS SinkCompatibility and
                           ControlFlowGraph; ProgramSemantics is the reference)
MC*                        symmetry sets and constant definitions for TLC
```

### TaskAuthority
A task is `absent`, `waiting`, `granted`, `finished` or `exhausted`; `grants` counts
how often it was granted. Granting needs budget, giving back needs budget left,
exhausting needs the budget used up, and the last two phases are final.

### PostgresTaskRepository
Variables are the columns: `state`, `attempts`, `lease`, `owner`, the set `dlq`,
`audit[t]` (sequence of rows), `outbox[t]` (set of deduplication keys), `status`,
`token`, `heartbeat`. `held[w]` is what `assign_task` returned to worker `w`,
`found[t]` what a recovery scan read. A transaction is one action, except that
`assign_task`, `complete_task` and `record_execution_failure` first read the worker
row with a plain SELECT (`assign_task_read`, `mutate_task_read`) and only later lock
the task row: `session[w]` is the transaction between these two points.
`Transition` is what every write commits together: row, audit row, outbox key
(the union with the key is the deduplication: a key that exists adds nothing).
`reject_mutation` is the exception under the task lock followed by the rollback of
`session_scope`; `crash_worker` the death of the process.

Data left out: receipts, error texts, timestamps, hashes. `update_task` is used here
only as `trigger_remediation` uses it (PENDING to QUEUED); the worker's uses are in
WorkerRuntime.

### TaskQueue
Both queues behind the constant `Redis`. The memory queue is FIFO and bounded; the
Redis queue has no bound and `BRPOPLPUSH` takes from the end that `RPUSH` adds to, so
it is LIFO. `acknowledge` removes one occurrence from the memory list and all
occurrences (`LREM 0`) from the Redis list; `requeue` puts the id at the left end and ignores
the bound.

### WorkerRuntime
`pc[w]` is the position of worker `w` in `process_task`; `task[w]` is the local
variable `task` and `seen[w]` the row read inside `update_task` before its
compare-and-set. Both fallbacks are there: when `assign_task` raises, the task is
moved to RUNNING with `update_task` (and the local variable keeps the row read by
`get_task`); when `complete_task` raises, to COMPLETED. `execute` stands for the
remediation itself and returns or raises. `crash(w)` ends the call at any point and
leaves queue and row as they are. `recover_stale_tasks` is absent because it changes
nothing against this repository: `_model_to_domain` sets no `started_at`, so
`is_lease_expired` is false.

### ClusterRecovery
`leader[n]` is the position of leader `n` in `recover_orphaned_tasks` with its fencing
token and the task of the iteration, `plan[n]` the rows it listed. `lock` is the
recovery lease. `Preemptive` chooses the lock class: `DistributedRecoveryLock`
respects a live lease; `PostgresRecoveryLock.acquire` expires it. With the second
one the engine's `release(node, lease_id)` does not match the method's signature and
raises, so the lease stays. `scan_orphans` picks any subset of the RUNNING tasks,
because the assignment of tasks to offline workers is an argument of the caller.
`rollback_orphan` is the compensation, to RUNNING with the *old* lease_version.

### EventPublisher
A poll is one transaction. `draft[p][e]` is what publisher `p` has written to event
`e` and not yet committed; a drafted row is locked. The handler's effect
(`delivered`) and `_processed_event_ids` (`processed`) are outside the transaction:
`rollback` keeps them, `crash` clears the latter. The handler is an argument of the poll
whose default is None: `handler[p]` says whether this poll was given one, and `publish`
without one marks and remembers the event all the same; `unheard` is the history of the
events this has happened to.

### DisasterRecovery
A transaction of the repository is two steps, because the ledger is ordered by
`created_at`, taken at the flush, and read by others only after the commit: `ledger` is
in flush order and `open[t]` names the entry that is not committed yet. `Moves` lists
what the repository's operations write to ledger and outbox (their guards are in
PostgresTaskRepository), the worker's `update_task` `Fallbacks` among them. `disaster` loses
`tasks` and `outbox_events`; ledger and checkpoints survive. `save_checkpoint` reads twice
under READ COMMITTED: `create_snapshot` reads the rows into `draft[n]`, `save_checkpoint` the
head of the ledger, and anything may commit in between. A restore is one transaction:
`MayRestore` collects the checks that raise, `Replayed` the effect of load_snapshot and
replay_events (a task that the snapshot does not have starts over with 0 attempts of 3),
`Missing` that of the outbox rebuilding; `restore_to_sequence` is restore_checkpoint with a
pitr_sequence. `Autoflush` says whether the session flushes before a query: the one of
`DatabaseSessionFactory` does not, those of the recovery tests do. Without it the lookups
do not find the rows added a moment before, and `ReplayIsUnique` is the guard for the
IntegrityError that follows. `exact` and `lost` are history: `exact` ends with a restore to an
earlier sequence, or from a checkpoint whose two reads had a commit between them or an open
transaction beside them (section 6 says what happens then).

### AIRequest, AIExecution
No method of `AIRequestStateService` commits, so sessions are modelled with
READ COMMITTED rules: an UPDATE takes the row lock, waits for another holder, re-reads
and keeps its row private until the commit. A service call is `Begin` (get_request and the
checks), `BudgetStep` (the conditional UPDATE of the budget) and `RowStep` (the
compare-and-set on the request); `seen` is SQLAlchemy's identity map, which is read once
per transaction. `DeadlockAbort` is PostgreSQL's victim. AIRequest has a stepwise caller
that commits after each call, in any order; AIExecution adds `execute`, one transaction from
create to commit with up to `MaxAttempts` provider calls, classified failures, and the
release of the reservation when it gives up. `transition_status` is used for the three working states
only, as `execute` does.

### ProviderRouting
Each breaker method holds the breaker's lock and is one step; what a thread concludes
from it is used later. `filter_next` is one candidate of `_filter_eligible`: `is_open` has the
side effect of taking a probe slot before the policy stages look at the candidate. Time is
two facts per circuit (cooldown elapsed, throttling ahead). `export_data` and `save` are
separate because the data are exported under the lock and written after it. `probing`
is history: the half-open period in which a call was let through.

### RemediationLifecycle
A file is a sequence of lines, a hunk replaces a line. Calls of `execute` are processes
that share only `disk`; `edit` is a developer. Steps are cut where the disk is read or
written: snapshot for review, fresh snapshot against the token (`preflight`), read and match
the hunks, one write per file, one restore per file, rescan, one undo per hunk. Writes,
restores, the rescan and the undo may raise; a failed write leaves the file as it was or
truncated. `issued` holds the token objects in somebody's hands, for `mark_used` returns a new
object and the caller's own stays APPROVED. `Rescanned` are the calls given a
rescan_callback; the others get `lambda: ()`. `Reports` says what a scan reports of a line:
rule, CWE and, with a verdict, sink category and status; `SemanticMatch` is the comparison
with the finding. `capture_fails` is the snapshot after the last write that raises, which
restores like a failed write. `reverting` is the other rollback, after a rescan that raised.
`wrote` and `disturbed` are history.

### Consensus
One engine per node. `events` and `snapshots` hold everything ever sent; any engine may
handle any member at any time, or never, so loss, repetition, delay and reordering need no
actions of their own. Rejections leave the engine as it is and are the negated guards.
`validate_authority` changes nothing and appears in the property about it.

### AbstractState, SinkCompatibility, ControlFlowGraph, GuardPropagation, PathAnalysis
A program is a sequence of statements: assignments (a known conversion with whatever else
the right-hand side is put together of, a copy, any other expression), updates (`.=`, `+=`, an
element assignment, none of which matches a pattern of the analysis), `if`, loops, exits and
the sink. A conversion is found by its name anywhere in the right-hand side, and the code
takes the first variable in it and nothing of the rest: so does `RhsValue`. `preprocess_statements` says what the line
reader of `CFGBuilder` makes of it, its misreadings included; `build_cfg` makes blocks and
edges in the code's order, because the order of predecessors is the order of the joins.
An environment has version counters and values; provenance and a superglobal written in the
sink itself are left out. `AnalyzeBlock` is one turn of `analyze`'s loop: merge
`edge_states`, run the block, refine along each outgoing edge, compare and enqueue.
`EvaluateSink` looks the sink up, takes the environment just before it, and asks the
matrix (SinkCompatibility); where the code picks the first of a set of strings, every
choice is possible. The verdict keeps its evidence per variable: a SOURCE for a TAINTED value, a
GUARD or SANITIZER for each constraint.

PathAnalysis is the part of this that can be proved about. It has no graph and no worklist:
`known` is the environment the analysis carries along a path, `actual` the state of an
execution that takes it. An assignment changes both, a branch is taken by the execution and
refines the environment, and a merge joins in any well-formed environment at all,
whatever the other paths may have brought. Every statement and condition of the language
may be on the path, those that the analysis misreads as well: `followed` is the set of variables
last assigned something it reads for what it is (`Exact`: a conversion alone, a copy,
an input, a literal) from followed variables, and not misread in a condition since. It is
not model-checked, because the merged environment is unbounded.

ValueSemantics and ProgramSemantics are the reference: a concrete value is whether
untrusted input went into it and which constraints hold of it, and execution follows the
structure of the program, not a graph. An expression that puts several values together, or
a conversion and something else, is text that carries the taint of all of its parts
and none of their constraints (it may happen to be a number), though some keep more.

## 3. Runs

| Run | Question | Size |
|---|---|---|
| `task_repository` | Is the ledger a gap-free history, is every transition announced, and does the repository implement TaskAuthority, over every interleaving of two workers, recovery scans, drains, fences and crashes? | 1 task, 2 workers, 2 attempts |
| `worker_runtime` | Through every refusal, fallback and crash: is the id on the queue or with one worker, is a QUEUED task reachable, do terminal rows stay, does every task end? | 1 task, 2 workers, Redis, 1 crash, operators |
| `cluster_recovery` | Does a leader that meets a full queue or loses its lease ever strand a task? | 2 tasks, 1 worker, 1 leader, memory queue of depth 1, 2 leases |
| `cluster_preemption` | What survives two leaders that pre-empt each other, and crashes: does the ledger follow the row, does a lease name its owner, is a rollback only ever of the leader's own move? | 1 task, 2 workers, 2 leaders, Redis, 1 crash, 2 leases |
| `event_publisher` | With and without a handler: is what is PUBLISHED delivered, deduplication per process, failure budget, settled rows | 3 events of 2 tasks, 2 publishers, polls of 2, 2 attempts, 2 faults; 1.1 million states |
| `ai_ledger` | Do budget and requests stay in balance, is an answer charged, do settled requests stay, under every interleaving, deadlock victim and crash? | 2 requests (one hedged), 1 executor, 1 caller, 2 payloads, limit 3, reservation 2, charges 1 and 3, 2 attempts; 1.2 million states |
| `provider_routing` | Is a half-open provider never stampeded, and does a healthy one whose circuit is not closed keep being called unless a slot is lost? | 1 provider, 2 threads, window 2, 1 probe, 2 faults; 160 thousand states |
| `remediation_lifecycle` | Does only the approved patch of the approved text reach the disk, does the applier's rollback bring that text back, is nothing VULNERABLE left after VERIFIED_FIXED, does every call end? | 2 calls (one with a rescan), 2 files, 2 hunks, 1 edit; 380 thousand states |
| `disaster_recovery` | Do rows and outbox follow the ledger after disasters and restores beside running transactions, do rebuilt events never collide, how much budget does a restore give back? | 2 tasks, 2 checkpoints, 1 attempt, 1 generation, no autoflush, 4 entries, 2 saves, 2 restores, 1 disaster; 2.1 million states |
| `guard_propagation` | Is SAFE said only of what holds in every execution, is untrusted input still suspect and in evidence at the sink, does the worklist stop at a fixpoint? | 16,800 functions of up to four top-level statements, 2 variables, 40 steps; 280 thousand states |
| `consensus` | Is no lease invented, taken back, validated when stale, or granted twice by one engine? | 3 engines, 2 resources, majorities, 2 epochs, 3 tokens, 3 grants, 1 snapshot; 420 thousand states |

One more run, `event_lost`, shows that something a document claims does not hold; see
section 6.

**Bounds.** Two workers and one task are what it takes for a lease to be lost and
taken by another; two attempts give a first, a last and a refused one. A second task
matters where tasks compete for room (`cluster_recovery`, depth 1, three attempts so
that a rolled-back task can be recovered again) and where order matters
(`event_publisher`). `MaxToken`, `MaxHeartbeats`, `MaxCrashes`, `MaxLeases` and `MaxFaults`
bound things that would otherwise grow for ever; each is large enough for the event
to happen and for something to happen after it. A second lease lets a leader be
superseded and come back. In `ai_ledger` the limit admits one reservation and not two,
and one of the charges is above the reservation, so refusal and overdraft both happen. In
`provider_routing` one provider is enough: with a policy that excludes it the probe slot
leaks, with one that admits it the threads compete for it. In `remediation_lifecycle` both
calls have the same proposal, the edit puts a second vulnerable line into the first file,
and the second file is the one whose write may fail after the first succeeded. In
`disaster_recovery` four entries let one task finish while another is between flush and
commit, and two restores follow one another. The fence on `snapshot_generation` only takes
behaviours away, so one generation, with which every checkpoint may be restored, is the larger
case; `Autoflush` FALSE is the program's own session, and the proofs cover both. In
`consensus` three grants let a resource move, move again and be announced late; there is one
snapshot, and one membership view, that of all nodes. Larger instances were checked once without
a violation (two grants with two snapshots of two resources, so that there is a best one to
choose, and three grants with two snapshots of one resource, both with smaller views as well); they are not
among the runs because all of it together takes too long, and the proofs hold for any number of
snapshots and any views. In `guard_propagation` every function
reads untrusted input, takes a step, a guard or a loop, and then a branch or loop that may
hold the sink; further families cover every conversion and test against every sink, branches
that treat a value differently and meet, conversions with something beside them, updates, and
the shapes the reader gets wrong. A graph of this size settles in fewer than 40 steps unless a
loop assigns a variable, and for those 40 steps are many turns, so the safeguard (1000 in
the code) is met in every such function. Symmetry is used over workers, leaders or publishers, and
never in a run with a liveness property.

`TerminalIsFinal` and `LeaseIdentifiesOwner` are definitions of PostgresTaskRepository that the
larger systems check (`worker_runtime`, `cluster_preemption`), where the fallbacks and the
rollback could break them; both for the repository alone and for those systems they are proved.
`AttemptsCountGrants`, `DeadLettersAreExhausted`, `LeaseAdvances` and the type invariants are
proved and in no run. `FailureClassifier` has no state and is exercised by
both AI runs.

**Deadlock** is checked in `task_repository`, `ai_ledger` and `provider_routing`; the others
may stop: when every task is settled, every call ended or a bound is reached, nothing is left
to do.

**Fairness.** Each worker loops in `CustomWorkerRuntime.start`, so a worker that is in
`process_task`, or that finds the queue not empty, takes its next step
(`WF(ProcessTask(w))`); so does a client inside `trigger_remediation`
(`WF(SubmitNext(t))`). A leader that has begun a recovery run goes on with it
(`WF(Continue(n))`), but nothing in the repository starts one periodically, so
beginning is not fair. Crashes, operators, lease expiry and the outcome of `execute`
are never fair. No liveness is claimed for the publisher: no code calls
`poll_and_publish` in a loop. In ProviderRouting threads go on with their call and
requests keep coming (`WF(Work(t))`): the executor gives an asynchronous provider call a
timeout; a synchronous one is called without (`ai/execution.py:197`) and has to bring its own. The
clock is fair, restarts and health changes are not. In RemediationLifecycle a call that runs goes on
running (`WF(execute(l))`): reviewer and scan answer, the tests have a limit of 180 s.

`EveryTaskEnds` holds under the condition that nobody drains or fences a worker and
none dies; what happens otherwise is in section 6.

## 4. Proofs

Eight modules prove, for every value of the constants, what the runs check on small
instances: `ClusterRecoveryProofs` (which also covers PostgresTaskRepository and WorkerRuntime),
`DisasterRecoveryProofs`, `EventPublisherProofs`, `AIExecutionProofs`, `ProviderRoutingProofs`,
`RemediationLifecycleProofs`, `ConsensusProofs` and `AbstractStateProofs`. The theorems are about
the specifications the runs check, without their fairness. Assumptions, all named in the module that declares the constant: the
bounds are naturals, `MaxAttempts`, `MaxToken` and `Limit` positive, the null values are no
task, worker, node or session, events are naturals (ordered by `created_at`), membership views
are sets of nodes, the provider registry is a sequence of providers. Publishers, threads and requests are
finite sets, because the theorems count them; tasks, workers, leaders, sessions, calls and nodes may be
any sets.

**Repository** (in `ClusterRecoveryProofs`). The inductive invariant is

    RepositoryInv == TypeOK /\ AbsentIsBlank /\ HeldIsPast /\ LeaseIdentifiesOwner /\ FoundIsPast

`LeaseIdentifiesOwner` is not inductive alone: one has to know that what workers
remember is never *ahead* of the row (`HeldIsPast`; otherwise a transition could catch
up with it), that the lease of an absent row is 0, and that a scan that still has the
current lease also has the current attempts (`FoundIsPast`; that is why the recovery
compare-and-set may decide on attempts it read earlier). The step from actions to
properties goes through one lemma, `StepShape`: every step leaves the tables alone or
moves one row along `TaskMoves` with the next lease_version, one audit row and one event
(`RowStep`). Each theorem is then about `RowStep` only:

- `RepositoryTypeCorrect` (TypeOK), `LeaseFences` (LeaseIdentifiesOwner), `RepositoryTerminalStays` (TerminalIsFinal),
  `LeaseVersionAdvances` (LeaseAdvances), `DeadLetters` (DeadLettersAreExhausted);
- `AuditHistory` (AuditIsHistory): the ledger is a gap-free history;
- `NoEventLost` (EveryTransitionAnnounced): from `KeysArePast`, no key in the outbox has a
  version beyond the row's, so the next key is new;
- `AttemptsAreGrants` (AttemptsCountGrants): attempts are the transitions to RUNNING in the
  ledger, by counting along `Append`;
- `Refinement` (ImplementsTaskAuthority): initial states map to initial states, each
  `RowStep` to the step of TaskAuthority that its `TaskMoves` pair names.

These are theorems about the repository used through its own protocol. The worker's
`update_task` fallbacks and the leader's rollback step outside it. Which of the
properties survive that is the subject of the next two paragraphs, and which do not is in section 6.

**Worker runtime** (in `ClusterRecoveryProofs`). The step lemmas (`QuietStep` to `SubmitStep`)
reduce the actions to what they have in common: a worker changes its own locals, and writes
the row of the task it dequeued or none, as in `Write`. The invariant is

    PipelineInv == Types /\ Delivery /\ (\A w : Working(w)) /\ (\A t : Budgeted(t) /\ Reachable(t))

`Delivery` says that an id is on the queue once or with one worker. It is what makes the rest
inductive: nobody else moves the row of a worker's task, so the row is RUNNING while the worker
executes it (`Working`) and the fallback from `complete_task` to `update_task` cannot hit a
terminal row. `QueuedIsReachable` has one delicate case, `settle`: the worker decides between
`requeue` and nothing by the attempts it *read*. These are at most the row's, and a QUEUED row
has attempts left (`Budgeted`), so a task the worker drops is not QUEUED. Proved: `TypeCorrect`, `DeliveredOnce` (OneDelivery),
`QueuedIsReachable` (QueuedTaskIsReachable) and `TerminalStays` (TerminalIsFinal).

**Cluster recovery.** With leaders the row of a task may move under the worker, versions go
down, and `Delivery` is false. Three things are left, each with an invariant of its own.

- `LeaseOwner` (LeaseIdentifiesOwner). A leader is `Unsettled` between its compare-and-set and
  the end of its iteration: it may still put the old version back. `LeaseInv` says that every
  version a leader could restore is behind the row (`Ahead`); that two such versions of a task are at
  least two apart (`Apart`), so no rollback can undo another leader's; and that a
  remembered lease neither lies between a snapshot and its successor nor would belong to another
  worker after a rollback (`Fenced`). This is for both lock classes and any number of
  leaders: the lock plays no part in it, the compare-and-set on both ends of the rollback does.
- `RollbackUndoesOwn` (RollbackUndoesOwnMove) follows from `LeaseInv`: a row that still has the
  version a leader gave it was moved there by that leader (`Ahead`), and by no other (`Apart`).
- `ClusterAttemptsAreGrants` (AttemptsCountGrants) and `LedgerIsHistory` (LedgerFollowsRow) need only
  `RowsWritten`: whatever the version, a write is one row
  and one ledger entry.
- `RecoveredIsReachable` (RecoveredTaskIsReachable) says who is responsible for a QUEUED row
  (`Tracked`): the queue, a worker that will try it or requeue it (`Carries`), or *the* leader
  whose move gave the row its present version (`Moves`). It is not enough that some leader has a
  snapshot of the task: one whose rollback no longer matches drops it, and is right to, because
  the version shows that somebody else has moved the row since and is responsible. The theorem has
  two hypotheses, which choose between code paths: `~Preemptive`, because
  a leader process that dies between compare-and-set and enqueue strands the task,
  and `~Redis \/ MaxCrashes = 0`, because a worker that dies after `dequeue` leaves the
  id on a processing list that nothing reads (section 6). Lease expiry, full
  queues, refused calls, late results and several leaders are all within it, and nothing bounds
  the workers: that only finitely many of them have a task at a time (`BusyStep`) is what lets
  `Copies` be counted.

**Publisher.** The properties are about committed rows and a commit copies a draft, so
`IInv` states them of drafts and of `_processed_event_ids` as well, and adds
`RowsAreLocked`: a drafted row is PENDING and drafted by one publisher. That is the
only reason a `mark_failed` without a claim check cannot reopen a settled row.
`TypeCorrect`, `PublishedWasPassed` (DeliveredUnlessUnheard), `FailureBudget`
(GivenUpWhenExhausted) and `SettledStays` (SettledIsFinal) follow. The first needs the same of what a
process remembers (`PassedFirst`), because a remembered event is published without being delivered again.
`DeliveredOncePerProcess` (OncePerProcess) counts: an event was delivered at most as often as
there are processes that remember it and processes that died.

**Disaster recovery.** The inductive invariant is

    IInv == TypeOK /\ Shape /\ Budgeted /\ (exact => Faithful)

- `Shape` holds whatever is restored. The entry of an open transaction is the last one of its
  task and continues the row it will overwrite (`OpenFits`), so a commit that comes after a
  save, a disaster or a restore still fits. A task without a committed entry has no row, no event and
  nothing in a checkpoint. Versions 1 and 2 belong to the creation and to the entry that leaves
  PENDING: that is why the deduplication key of `task_created`, which has no version, cannot
  be that of two entries. No version is ahead of the ledger, so a restore without a target,
  which is one to `MaxEntries`, replays everything.
- `Faithful` holds while the restores are exact. The versions of a task rise along the ledger, although the
  ledger is in flush order and has gaps; a task is up to date, or lost with its row *and*
  its events; and a checkpoint whose two reads had no commit between them and nothing in flight beside
  them is the ledger up to its boundary marker, with every transaction that is open now behind
  it (`Settled`, which holds of drafts too). A restore then replays exactly what is missing.
  Without `Settled` the marker may be past an entry that was not committed when the rows
  were read, which are the first two points under "Recovery" in section 6.
- `Budgeted`: what was granted in the ledger and what the row has `Left` is at most `MaxAttempts`
  and, for each restore, the `Larger` of `MaxAttempts` and the 3 of a reconstructed task. It
  depends on neither `exact` nor `Autoflush`.

Proved: `TypeCorrect`, `RowsFollow` (RowFollowsLedger), `EntriesAnnounced` (EveryEntryAnnounced),
`RebuildsUnique` (RebuildNeverCollides, for both values of `Autoflush`), `GrantsAreBounded` (GrantsBounded,
without any condition on the restores) and the action property `HistoryStays` (HistoryKept): nothing takes away or rewrites a committed
entry. `Last` is a CHOOSE; that it is the greatest of a set of positions comes from
the well-foundedness of the subsets of a finite set, not from an induction rule.

**AI requests.** A method checks the row it has loaded, then updates the budget, then the row by a
compare-and-set on the status *alone*; sessions that hold no lock yet see others commit in between. The inductive
invariant of `AIExecutionProofs` has four parts.

- `Sane` and `Since`: status decides which tokens a row holds, and committed rows only move
  on. So a row whose status still is the loaded one has the loaded tokens
  (`SameTokens`), although the UPDATE does not compare them. This is the fact that the code relies on.
- `Booked`: a session's private budget and row, with the UPDATE it is about to make, differ from the
  committed ones by the same amounts. At a commit nothing is pending, so budget and sum of the rows change alike.
- `Covered`: the same for the limit. What a commit adds beyond it is the overrun of that request.
- `AnswerInv`: a session that has marked an attempt COMPLETED has the row locked and the row is not settled.

`BooksAgree` (BudgetIsLedger) and `OverdraftBounded` (OverdraftIsOverrun) are about sums over all
requests. The sums are `SumFunction` of the community module `Functions`, a recursion over
the subsets of its domain; its recursion equation and `SumUpdate` (one row changes, the sum changes by the
difference) are proved by taking a minimal counterexample (`LeastSubset`), which needs no
induction rule. Also proved: `TypeCorrect`, `ReservationsFollow`, `AnswersCharged`, and the action property `SettledStays`.

**Provider routing.** `IInv == Types /\ Calling /\ \A k : Counted(k)`. `Counted` says that in a half-open period
`active_probes` is at least the number of threads let through in it, and that outside one there are
none. No breaker method lowers the counter within a period, also for a result that comes late; each
raises it by at most one (`ProbeStep`), and a new period starts at zero. `ProbesAreBounded` (ProbesBounded)
follows because `is_open` admits only below the limit.

**Remediation.** The invariant says, for each place of `execute`, what the call knows about the disk
as long as nobody else has changed one of its targets (`Alone`): before the first write the files are the snapshot of the
token, during the writes those not in `todo` are patched, during a restore those not
in `todo` are the snapshot that the reviewer was shown (the backup was read after the preflight
and before the first write, so it is that snapshot), and once the patch is reported applied all of them are patched. `HoldsToken` ties token, proposal and
snapshot together from the approval on. Proved: `TypeCorrect`, `WritesApproved` (WritesAreApproved),
`PatchIsApproved` (ApprovedPatch), `RollbackExact` (RollbackIsByteExact), `VerifiedFixed`
(VerifiedMeansFixed), for any files, number of hunks, reports and concurrent calls. `RollbackExact`
is about the applier's own restore. The rollback after a rescan that raised is not exact and
reports SUCCESS (section 6). `VerifiedFixed` compares what `SemanticMatch` lets through with
what the scan calls VULNERABLE.

**Consensus.** The inductive invariant is

    ConsensusInv == TypeOK /\ LeaseWithinEngine /\ LeasesWereGranted
                    /\ EventsWereGranted /\ SnapshotsAreSound

`LeasesWereGranted` needs the same of everything in transit: an event carries exactly a
lease that was granted, and a snapshot lists only granted leases that are within its own
epoch and token. The second half of `SnapshotsAreSound` carries `LeaseWithinEngine` through a
healing, where the engine takes the maximum of two counters and the merge of two tables.
For `apply_event` the point is that its guard makes both `max()` calls return the event's
values, so the lease it writes is the granted one. `StaleGrantsRejected` then follows without induction: what validates is not behind the
engine, and no lease is ahead of it. `GenerationsAdvance` and `OneHolderPerEpoch` are
action properties, one case per action.

**Abstract state.** `Describes(env, st, v)` says that an environment is right about variable
`v` of a concrete state: the facts it has hold, and if the value is tainted it is suspect.
`JoinIsSound`, `AssignIsSound` and `RefineIsSound` show that the three things the analysis does to an
environment keep it right, variable by variable. They need one invariant of environments,
`WellFormed`: a variable that was never assigned is not suspect, because a join forgets it;
`JoinIsWellFormed` is the case of that which is not immediate. The hypotheses are the
limits of section 6: `AssignIsSound` asks that the right-hand side be `Exact` and its operands
described, and says that the other variables stay as they were whatever the
right-hand side is; `RefineIsSound` asks that the first test of a condition decide the
branch (`Decides`). That `Exact` cannot be dropped is proved as well: by
`ComposedConversionHidesTaint`, what a conversion is put together with loses its taint in the
analysis, for every environment that does not suspect the converted variable. `PathIsSound`
puts them together: along every path, of any length, with any merges and any statement of the
language, the environment describes the execution in every `followed` variable; the
statements that the analysis misreads end that for the variable they misread and, through assignments, for what is
computed from it, until it is assigned something `Exact` again. `MatrixIsSound` says that a
constraint the matrix gives as its reason is one it was given; with it, `SafeVerdictIsProven`: a
SAFE for a sink of one followed variable names a constraint that the value really
has. That the worklist arrives with such an environment at the sink is what the run shows.

**Only model-checked.** Liveness (`EveryTaskEnds`, `EveryTaskLeavesQueue`, `OpenIsProbed`,
`EveryCallEnds`): out of the prover's reach. The three properties of `GuardPropagation`:
the graph and the reference semantics are RECURSIVE operators, and blocks and merges are folds over
sequences, about which nothing can be said without induction. For
`StoppedAtFixpoint` one would also have to show that `_envs_equal`, which compares the values and not
the version counters, never takes two environments for equal that a later block tells apart.

## 5. Mutants

Every property of a passing run has a mutant in its module (comment `Mutant: ...`,
placed before the definition it replaces): a plausible slip in that function, such
as an attempt that is not counted, a deduplication key without its version, a
peek instead of a pop or a full queue that is ignored. Substituting it makes TLC
find the property violated under the same configuration.

## 6. Where code and documents disagree

With a run (quote in `PROJECT.json`):

- `event_lost`: after a rollback by a recovery leader the next transition reuses
  lease_version and with it the deduplication key; its event is dropped.

Met while modelling, without a run of their own.

Tasks and events:

- A DRAINED worker can own a RUNNING task, because `assign_task` reads the worker row
  without a lock (`persistence/postgres_task_repository.py:292`); `reliability/drain_mode.py:7-8`
  says that DRAINED is reached with no RUNNING task left.
- A task that *recovery* fails has no dead letter (`workers/cluster_recovery.py:230` against
  `reliability/dead_letter.py:5`).
- A heartbeat or a re-registration puts a DRAINING, DRAINED or FENCED worker back ONLINE
  (`persistence/postgres_worker_repository.py:128` against `reliability/drain_mode.py:4`).
- A worker that dies between `dequeue` and `assign_task` leaves a QUEUED task on the
  processing list, and nothing looks for it (`workers/worker.py:186` against
  `workers/redis_queue.py:3`).
- A worker whose task was reclaimed completes it through the `update_task` fallback
  (`workers/worker.py:136` against `docs/f6c_technical_study_case.md:194`).
- Events of one task can be delivered out of order (`events/publisher.py:89` against
  `events/publisher.py:5`).
- A poll without a handler, which is the default, marks events PUBLISHED that nobody took
  (`events/publisher.py:71` against INV-F8-EVENT-02 in line 4). The id is remembered outside the
  transaction: if that poll is rolled back, a later one of the same process marks the event
  PUBLISHED without calling the handler it was given.
- `attempts` counts the transitions to RUNNING, not executions started
  (`docs/f6c_technical_study_case.md:42` and :365, INV-F6-RETRY-03): a worker that dies
  between the commit and the remediation has used an attempt, and so has a leader's rollback
  to RUNNING. `AttemptsCountGrants` is what is proved.
- `complete_task` and `record_execution_failure` read the worker row without a lock: a
  worker fenced after that read still commits (`docs/f7_distributed_authority_audit.md:39`).
- Recovery and `update_task` leave `assigned_worker_id` on a QUEUED row (same file, :46).
- A draining worker that still holds an id starts it through `update_task`
  (`reliability/drain_mode.py:5`).
- `requeue` ignores `max_queue_depth` (`workers/queue.py`).
- With a pre-empting lock two leaders can enqueue one task twice
  (`workers/cluster_recovery.py:248`); `OneDelivery` is therefore a property of
  WorkerRuntime only. `LREM 0` then drops the processing entry of the other worker.
- The rollback lowers lease_version and counts as an attempt, so `LeaseAdvances`,
  `AuditIsHistory` (its rising versions) and the attempt budget hold in the
  repository or the runtime and not under ClusterRecovery, where `LedgerFollowsRow` and
  `AttemptsCountGrants` are what is left of them.
- Under ClusterRecovery `update_task(COMPLETED)` can rewrite a terminal row: `atomic_transition`
  refuses to leave a terminal state only towards QUEUED and RUNNING.
- `persistence/recovery.py:55` calls a method that no repository has.

Recovery. The first three points, and a restore to an earlier sequence, end `exact`: the
properties of rows and outbox say nothing from then on, and hold for every other history.

- `save_checkpoint` reads the rows and the head of the ledger in two statements
  (`recovery/snapshot.py:49` and :74). What commits between them is behind the head and not in
  the rows, and no restore brings it back.
- A checkpoint saved while a transaction is between its flush and its commit takes a later
  entry as its head; replay then passes over the earlier one (`recovery/replay.py:95-104`).
- A checkpoint of the emptied tables, taken between the loss and the restore, passes the
  fencing check, because the generation is an argument of `save_checkpoint`.
- With the program's own sessions, which do not flush before a query
  (`persistence/db.py:68-73`), `replay_events` adds a task that was created after the checkpoint
  once for each of its entries (`recovery/replay.py:109` and :123), and from two entries on the
  restore dies of the UNIQUE `task_id` (`persistence/models.py:95`). This is `ReplayIsUnique`: no
  property says that a restore succeeds.
- A reconstructed task has `max_attempts` 3 whatever it was created with
  (`recovery/replay.py:118`), and 0 attempts.
- The identity of events is not preserved (INV-F9-RECOVERY-02, `docs/f9_security_baseline.md:22`).
  Rebuilt events get the id `evt_<task>_<version>` and, for PENDING to QUEUED, PENDING to RUNNING and
  a failure recorded by recovery, another deduplication key than the staged event; line 140 of
  `recovery/replay.py` speaks of PRESERVING ORIGINAL EVENT IDENTITY. An event that is still in the table
  under its first key is announced a second time under the other.
- After a restore to an earlier sequence the versions are used again, and the rebuilt ids
  collide: the next restore fails with an IntegrityError.
- `attempts` is not in the ledger: every restore gives the retry budget back.
  `GrantsBounded` says how much of it.

AI requests:

- A probe slot taken by `is_open` for a candidate that a later stage drops is never given
  back, nor is one whose call fails for a reason that is not the provider's (4xx), which
  `record_failure` ignores; with all slots gone the circuit stays HALF_OPEN and nobody calls the provider until a restart
  (`ai/router.py:133` against `docs/f11_implementation_plan.md:73`).
- `commit_tokens` may take `used_tokens` above the limit when an answer used more than was
  reserved (`ai/budget.py:83`); `OverdraftIsOverrun` says that this is the only way.

Remediation:

- A call ends as ROLLED_BACK although the files are not restored:
  `ai/remediation/lifecycle.py:525` compares `rollback_status` with "CRITICAL_FAILURE", the
  applier returns "CRITICAL_RECOVERY_FAILURE" (`applier.py:119`), so a failed rollback is
  reported as a good one; and after a rescan that raised, `application_agent.py:131-138`
  takes its backup from the patched files and reports SUCCESS with the patch in place (against L8,
  `lifecycle.py:16`). `RollbackIsByteExact` is about the applier's own rollback only.
- `verify` counts only reports that are VULNERABLE or have no verdict
  (`ai/remediation/verification.py:133-138`): one that is UNKNOWN or NOT_PROVEN is passed over, and so
  is one without a verdict when the finding had a category, which then differs. VERIFIED_FIXED
  does not mean that the rescan is silent about the line.
- The textual undo after a failed verification looks for the proposed text, and may put the original text
  in place of another line that reads the same.
- Without a rescan_callback the rescan is `lambda: ()` and VERIFIED_FIXED is reported without
  a scan (`ai/remediation/lifecycle.py:482` against L4 in line 12).
- `mark_used` returns a new token; the caller's object stays APPROVED and verifies again as
  long as the files are as they were (L5, "Single-use", line 13), also for a second call
  with the same proposal; `WritesAreApproved` therefore compares proposal and texts, and not calls.
- Between the preflight and the last write nothing holds the files; `ApprovedPatch` is
  therefore stated for undisturbed targets.
- A process that dies between two writes leaves half a patch behind and no backup.

Consensus:

- Votes come with the proposal and are not remembered, so two engines that have not heard
  of each other grant the same resource to two nodes in one epoch (INV-F15-CONS-02,
  `docs/f15_multi_node_partition_consensus_hardening_engine.md:67`); `NoDualGrant` is what holds for each engine alone.
- Healing takes over the best snapshot only, so engines that exchange snapshots need not
  end with the same leases (INV-F15-CONS-12, same file, :77).
- `current_fencing_token` is one counter for all resources: a grant of one resource fences
  the holder of every other.

Path-sensitive verdict. Each of these is in the model; `Understood` and `Precise` in
GuardPropagation name the programs without them, for which the properties are stated.

- The name of a transformation anywhere in the right-hand side decides
  (`guard_propagation.py:120`): `intval($z) . $x` is read as a conversion of `$z`, the taint of `$x`
  is lost, and the sink is called SAFE with `$x` in it. A key such as `$_GET['basename']` is enough.
- `.=`, `+=` and element assignments match no pattern of an assignment
  (`guard_propagation.py:102`): the variable keeps the facts it had, and what was added to it
  taints nothing.
- Paths that constrained a value differently meet in CONSTRAINED with no constraint; the verdict
  then is UNKNOWN without any source, guard or sanitizer to point at, because
  `semantic_correlator.py:91` takes only TAINTED for a source.
- `} else {` on one line balances the brace count, and both parts are read as the true
  branch (`graph/cfg/builder.py:317-323`); a guard is then taken to hold in both.
- The `}` of an inner block is dropped when the outer one is read (`builder.py:349`), so a
  nested `if` or loop takes everything after it as its body.
- A loop below the top level is an ordinary statement (`builder.py:215`): its body is not
  analysed, and a sink in it is judged with the environment of the exit.
- An expression inherits the union of its operands' constraints
  (`guard_propagation.py:164`), and a sink with several variables is judged by the union of
  theirs (`semantic_correlator.py:107`): one checked operand vouches for the other.
- Of a compound condition only the first call counts (`registry.py:183`): `P || q` is taken
  for `P` on the true branch, `!P && q` for `!P` on the false one.
- `$x == 5` in the text of a condition at the top level matches the pattern of an
  assignment (`guard_propagation.py:102`): facts and taint of `$x` are gone.
- A loop that assigns a variable makes a new version in every turn and runs into
  `max_steps`. If neither the sink's block nor the exit was reached by then,
  `cfg.reachable_blocks[-1]` indexes a set and raises (`semantic_correlator.py:248`).
- A sink text that occurs twice is looked up in whichever block comes first in a set of
  strings (`semantic_correlator.py:228`).

## 7. Not modelled, and the plan

Parts left out for good: parsers, rules, other graphs and analyses, retrieval, agents,
reports, benchmarks, CLI and HTTP plumbing (pure computation or I/O), the F5 outbox publisher and the
startup recovery (never run or unable to run), the partition and chaos scenarios around the consensus engine,
hashes, digests, provenance and receipts. These are nine tenths of the repository: the analysis of source text
alone is some sixty thousand lines, and apart from the path-sensitive verdict it matches
patterns in text or builds tables without a meaning of the analysed programs to be compared
with. So the map covers a
small share of the lines, and most of the lines of the stateful parts.

Left for later, in this order:

1. `WorkerLifecycle`: registry, heartbeat timeouts, scheduler, drain loop and shutdown,
   composed with the worker table (hazard at `shutdown.py:77`).
2. `InMemoryTaskRepository`, shown to implement TaskAuthority like the Postgres one.
3. `ProviderRateLimiter`, once something other than the tests constructs it.

Further theorems: refinement of TaskAuthority by the in-memory repository.
