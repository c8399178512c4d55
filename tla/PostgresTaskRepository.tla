----------------------- MODULE PostgresTaskRepository -----------------------
(***************************************************************************)
(* The authoritative task store: the tables tasks, workers,                *)
(* dead_letter_events, task_audit_log and outbox_events, and every method  *)
(* of PostgresTaskRepository and PostgresWorkerRepository that writes one. *)
(*                                                                         *)
(* A worker-side method (assign_task, complete_task,                       *)
(* record_execution_failure) is one transaction with two points that other *)
(* transactions can fall between: it reads the worker row WITHOUT a lock,  *)
(* then takes the task row FOR UPDATE, changes it and commits.  session[w] *)
(* is what the transaction of worker w remembers between the two.          *)
(*                                                                         *)
(* held[w] is client state: the task, lease_version and attempts that the  *)
(* last assign_task returned to the process of worker w.  found[t] is what *)
(* a recovery scan read of t before it calls atomic_transition.            *)
(***************************************************************************)
EXTENDS Naturals, Sequences, FiniteSets

CONSTANTS
    Tasks,
    Workers,
    MaxAttempts,     \* tasks.max_attempts
    MaxToken,        \* bound: how often a worker can be fenced
    MaxHeartbeats    \* bound: heartbeats sent per worker

ASSUME BoundsAreNat ==
    /\ MaxAttempts \in Nat \ {0}
    /\ MaxToken \in Nat \ {0}
    /\ MaxHeartbeats \in Nat

NoWorker == "NoWorker"
NoTask == "NoTask"
ASSUME NullsAreFresh == NoWorker \notin Workers /\ NoTask \notin Tasks

VARIABLES
    state,     \* tasks.state, "NONE" while the row does not exist
    attempts,  \* tasks.attempts
    lease,     \* tasks.lease_version
    owner,     \* tasks.assigned_worker_id
    dlq,       \* the tasks with a row in dead_letter_events
    audit,     \* audit[t]: the rows of task_audit_log, oldest first
    outbox,    \* outbox[t]: the deduplication keys in outbox_events
    status,    \* workers.status, "NONE" while the row does not exist
    token,     \* workers.fencing_token
    heartbeat, \* workers.heartbeat_sequence
    session,   \* the open transaction of each worker
    held,      \* the lease each worker process believes it holds
    found      \* found[t]: lease_version and attempts a recovery scan read

taskVars == <<state, attempts, lease, owner, dlq, audit, outbox>>
workerVars == <<status, token, heartbeat>>
clientVars == <<session, held, found>>
vars == <<taskVars, workerVars, clientVars>>

TaskState == {"PENDING", "QUEUED", "RUNNING", "FAILED_RETRYABLE", "COMPLETED", "FAILED", "CANCELLED"}
Terminal == {"COMPLETED", "FAILED", "CANCELLED"}
WorkerStatus == {"ONLINE", "DRAINING", "DRAINED", "FENCED", "OFFLINE"}
EventKind == {"task_created", "task_transition", "task_assigned", "task_completed", "task_failure"}

AuditRow == [prev : TaskState \cup {"NONE"}, new : TaskState, lease : Nat]
EventKey == [kind : EventKind, lease : Nat]

Idle == [op |-> "idle", task |-> NoTask, lease |-> 0]
NoLease == [task |-> NoTask, lease |-> 0, attempts |-> 0]
NotFound == [lease |-> 0, attempts |-> 0]

Session == {Idle} \cup [op : {"assign", "complete", "fail"}, task : Tasks, lease : Nat]
HeldLease == {NoLease} \cup [task : Tasks, lease : Nat, attempts : Nat]

TypeOK ==
    /\ state \in [Tasks -> TaskState \cup {"NONE"}]
    /\ attempts \in [Tasks -> 0..MaxAttempts]
    /\ lease \in [Tasks -> Nat]
    /\ owner \in [Tasks -> Workers \cup {NoWorker}]
    /\ dlq \in SUBSET Tasks
    /\ audit \in [Tasks -> Seq(AuditRow)]
    /\ outbox \in [Tasks -> SUBSET EventKey]
    /\ status \in [Workers -> WorkerStatus \cup {"NONE"}]
    /\ token \in [Workers -> Nat \ {0}]
    /\ heartbeat \in [Workers -> Nat]
    /\ session \in [Workers -> Session]
    /\ held \in [Workers -> HeldLease]
    /\ found \in [Tasks -> [lease : Nat, attempts : 0..MaxAttempts]]

Init ==
    /\ state = [t \in Tasks |-> "NONE"]
    /\ attempts = [t \in Tasks |-> 0]
    /\ lease = [t \in Tasks |-> 0]
    /\ owner = [t \in Tasks |-> NoWorker]
    /\ dlq = {}
    /\ audit = [t \in Tasks |-> <<>>]
    /\ outbox = [t \in Tasks |-> {}]
    /\ status = [w \in Workers |-> "NONE"]
    /\ token = [w \in Workers |-> 1]
    /\ heartbeat = [w \in Workers |-> 0]
    /\ session = [w \in Workers |-> Idle]
    /\ held = [w \in Workers |-> NoLease]
    /\ found = [t \in Tasks |-> NotFound]

-----------------------------------------------------------------------------
(* What every transition of a task row commits together: the new state and *)
(* lease_version, one audit row, and one outbox event unless an event with *)
(* the same deduplication key is already there.                            *)

(* Mutant: the ledger is given the version read before the change.         *)
record_transition_stale(t, new, version) ==
    audit' = [audit EXCEPT ![t] = Append(@, [prev |-> state[t], new |-> new, lease |-> lease[t]])]

record_transition(t, new, version) ==
    audit' = [audit EXCEPT ![t] = Append(@, [prev |-> state[t], new |-> new, lease |-> version])]

(* Mutant: the deduplication key leaves the version out.                   *)
stage_event_unversioned(t, kind, version) ==
    outbox' = [outbox EXCEPT ![t] = @ \cup {[kind |-> kind, lease |-> 0]}]

stage_event(t, kind, version) ==
    outbox' = [outbox EXCEPT ![t] = @ \cup {[kind |-> kind, lease |-> version]}]

Transition(t, new, version, kind) ==
    /\ state' = [state EXCEPT ![t] = new]
    /\ lease' = [lease EXCEPT ![t] = version]
    /\ record_transition(t, new, version)
    /\ stage_event(t, kind, version)

create_task(t) ==
    /\ state[t] = "NONE"
    /\ Transition(t, "PENDING", 1, "task_created")
    /\ UNCHANGED <<attempts, owner, dlq, workerVars, clientVars>>

(* The conditional UPDATE of atomic_transition, when it changes its row;   *)
(* version is the lease_version keyword, expected + 1 unless it is given.  *)
atomic_transition(t, expected, from, new, version) ==
    /\ lease[t] = expected
    /\ state[t] \in from
    /\ new \in {"QUEUED", "RUNNING"} => from \cap Terminal = {}
    /\ Transition(t, new, version, "task_transition")
    /\ attempts' = [attempts EXCEPT ![t] = IF new = "RUNNING" THEN @ + 1 ELSE @]
    /\ UNCHANGED <<owner, dlq>>

(* trigger_remediation: update_task(state=QUEUED) right after create_task. *)
queue_task(t) ==
    /\ atomic_transition(t, lease[t], {"PENDING"}, "QUEUED", lease[t] + 1)
    /\ UNCHANGED <<workerVars, clientVars>>

(* recover_stale_tasks / recover_orphaned_tasks: read, then compare-and-set. *)
scan_running(t) ==
    /\ state[t] = "RUNNING"
    /\ found' = [found EXCEPT ![t] = [lease |-> lease[t], attempts |-> attempts[t]]]
    /\ UNCHANGED <<taskVars, workerVars, session, held>>

recover_task(t) ==
    /\ found[t] # NotFound
    /\ \/ atomic_transition(t, found[t].lease, {"RUNNING"},
                            IF found[t].attempts < MaxAttempts THEN "QUEUED" ELSE "FAILED",
                            found[t].lease + 1)
       \/ /\ ~ (lease[t] = found[t].lease /\ state[t] = "RUNNING")
          /\ UNCHANGED taskVars
    /\ found' = [found EXCEPT ![t] = NotFound]
    /\ UNCHANGED <<workerVars, session, held>>

-----------------------------------------------------------------------------
(* Worker-side transactions.                                               *)

assign_task_read(w, t) ==
    /\ session[w] = Idle
    /\ held[w] = NoLease
    /\ status[w] \notin {"DRAINING", "DRAINED", "FENCED", "OFFLINE"}
    /\ session' = [session EXCEPT ![w] = [op |-> "assign", task |-> t, lease |-> 0]]
    /\ UNCHANGED <<taskVars, workerVars, held, found>>

CanAssign(t) ==
    /\ state[t] \in {"QUEUED", "PENDING"}
    /\ attempts[t] < MaxAttempts

(* Mutant: assign_task does not write assigned_worker_id.                  *)
assign_task_anonymous(w) ==
    LET t == session[w].task IN
    /\ session[w].op = "assign"
    /\ CanAssign(t)
    /\ Transition(t, "RUNNING", lease[t] + 1, "task_assigned")
    /\ attempts' = [attempts EXCEPT ![t] = @ + 1]
    /\ held' = [held EXCEPT ![w] = [task |-> t, lease |-> lease[t] + 1, attempts |-> attempts[t] + 1]]
    /\ session' = [session EXCEPT ![w] = Idle]
    /\ UNCHANGED <<owner, dlq, workerVars, found>>

assign_task(w) ==
    LET t == session[w].task IN
    /\ session[w].op = "assign"
    /\ CanAssign(t)
    /\ Transition(t, "RUNNING", lease[t] + 1, "task_assigned")
    /\ attempts' = [attempts EXCEPT ![t] = @ + 1]
    /\ owner' = [owner EXCEPT ![t] = w]
    /\ held' = [held EXCEPT ![w] = [task |-> t, lease |-> lease[t] + 1, attempts |-> attempts[t] + 1]]
    /\ session' = [session EXCEPT ![w] = Idle]
    /\ UNCHANGED <<dlq, workerVars, found>>

(* complete_task and record_execution_failure check the worker row first.  *)
WorkerMayMutate(w, fencing_token) ==
    status[w] = "NONE" \/ (status[w] \notin {"FENCED", "OFFLINE"} /\ token[w] <= fencing_token)

mutate_task_read(w, op, fencing_token) ==
    /\ session[w] = Idle
    /\ held[w] # NoLease
    /\ WorkerMayMutate(w, fencing_token)
    /\ session' = [session EXCEPT ![w] = [op |-> op, task |-> held[w].task, lease |-> held[w].lease]]
    /\ UNCHANGED <<taskVars, workerVars, held, found>>

LeaseIsLive(w, t, version) ==
    /\ owner[t] \in {w, NoWorker}
    /\ lease[t] = version
    /\ state[t] = "RUNNING"

complete_task(w) ==
    LET t == session[w].task  v == session[w].lease IN
    /\ session[w].op = "complete"
    /\ LeaseIsLive(w, t, v)
    /\ Transition(t, "COMPLETED", v + 1, "task_completed")
    /\ session' = [session EXCEPT ![w] = Idle]
    /\ held' = [held EXCEPT ![w] = NoLease]
    /\ UNCHANGED <<attempts, owner, dlq, workerVars, found>>

(* Mutant: the last attempt is given back to the queue as well.            *)
record_execution_failure_lenient(w) ==
    LET t == session[w].task  v == session[w].lease IN
    /\ session[w].op = "fail"
    /\ LeaseIsLive(w, t, v)
    /\ Transition(t, IF attempts[t] > MaxAttempts THEN "FAILED" ELSE "QUEUED", v + 1, "task_failure")
    /\ session' = [session EXCEPT ![w] = Idle]
    /\ held' = [held EXCEPT ![w] = NoLease]
    /\ UNCHANGED <<attempts, owner, dlq, workerVars, found>>

record_execution_failure(w) ==
    LET t == session[w].task  v == session[w].lease IN
    /\ session[w].op = "fail"
    /\ LeaseIsLive(w, t, v)
    /\ \/ /\ attempts[t] >= MaxAttempts
          /\ t \notin dlq                    \* UNIQUE(task_id)
          /\ Transition(t, "FAILED", v + 1, "task_failure")
          /\ dlq' = dlq \cup {t}
          /\ UNCHANGED owner
       \/ /\ attempts[t] < MaxAttempts
          /\ Transition(t, "QUEUED", v + 1, "task_transition")
          /\ owner' = [owner EXCEPT ![t] = NoWorker]
          /\ UNCHANGED dlq
    /\ session' = [session EXCEPT ![w] = Idle]
    /\ held' = [held EXCEPT ![w] = NoLease]
    /\ UNCHANGED <<attempts, workerVars, found>>

(* A check under the task lock fails: the method raises, session_scope     *)
(* rolls the transaction back and the worker drops its lease.              *)
reject_mutation(w) ==
    LET t == session[w].task IN
    /\ session[w] # Idle
    /\ IF session[w].op = "assign" THEN ~CanAssign(t)
                                   ELSE ~LeaseIsLive(w, t, session[w].lease)
    /\ session' = [session EXCEPT ![w] = Idle]
    /\ held' = [held EXCEPT ![w] = NoLease]
    /\ UNCHANGED <<taskVars, workerVars, found>>

(* The worker process dies, or gives up because the worker row no longer   *)
(* lets it write: an open transaction is rolled back and the lease it held *)
(* in memory is forgotten.                                                 *)
crash_worker(w) ==
    /\ session[w] # Idle \/ held[w] # NoLease
    /\ session' = [session EXCEPT ![w] = Idle]
    /\ held' = [held EXCEPT ![w] = NoLease]
    /\ UNCHANGED <<taskVars, workerVars, found>>

-----------------------------------------------------------------------------
(* PostgresWorkerRepository.                                               *)

SetStatus(w, new) ==
    /\ status' = [status EXCEPT ![w] = new]
    /\ UNCHANGED <<taskVars, clientVars>>

register_worker(w) ==
    /\ SetStatus(w, "ONLINE")
    /\ UNCHANGED <<token, heartbeat>>

send_heartbeat(w) ==
    /\ status[w] # "NONE"
    /\ heartbeat[w] < MaxHeartbeats
    /\ SetStatus(w, "ONLINE")
    /\ heartbeat' = [heartbeat EXCEPT ![w] = @ + 1]
    /\ UNCHANGED token

mark_offline(w) ==
    /\ status[w] # "NONE"
    /\ SetStatus(w, "OFFLINE")
    /\ UNCHANGED <<token, heartbeat>>

mark_draining(w) ==
    /\ status[w] = "ONLINE"
    /\ SetStatus(w, "DRAINING")
    /\ UNCHANGED <<token, heartbeat>>

mark_drained(w) ==
    /\ status[w] = "DRAINING"
    /\ \A t \in Tasks : ~ (owner[t] = w /\ state[t] = "RUNNING")
    /\ SetStatus(w, "DRAINED")
    /\ UNCHANGED <<token, heartbeat>>

mark_fenced(w) ==
    /\ status[w] \in {"DRAINING", "ONLINE"}
    /\ token[w] < MaxToken
    /\ SetStatus(w, "FENCED")
    /\ token' = [token EXCEPT ![w] = @ + 1]
    /\ UNCHANGED heartbeat

-----------------------------------------------------------------------------
TaskNext(t) ==
    create_task(t) \/ queue_task(t) \/ scan_running(t) \/ recover_task(t)

WorkerNext(w) ==
    \/ \E t \in Tasks : assign_task_read(w, t)
    \/ \E op \in {"complete", "fail"}, k \in 1..token[w] : mutate_task_read(w, op, k)
    \/ assign_task(w) \/ complete_task(w) \/ record_execution_failure(w)
    \/ reject_mutation(w) \/ crash_worker(w)
    \/ register_worker(w) \/ send_heartbeat(w) \/ mark_offline(w)
    \/ mark_draining(w) \/ mark_drained(w) \/ mark_fenced(w)

Next == (\E t \in Tasks : TaskNext(t)) \/ (\E w \in Workers : WorkerNext(w))

Spec == Init /\ [][Next]_vars

-----------------------------------------------------------------------------
(* Properties.                                                             *)

(* The audit ledger is the history of its task: it starts at creation,     *)
(* every row continues from the state the row before it left, with a       *)
(* larger lease_version, and the last row is what the tasks table holds    *)
(* (record_transition inside each method's transaction).                   *)
AuditIsHistory ==
    \A t \in Tasks :
        LET rows == audit[t] IN
        /\ rows = <<>> <=> state[t] = "NONE"
        /\ rows # <<>> => /\ rows[1].prev = "NONE"
                          /\ rows[Len(rows)].new = state[t]
                          /\ rows[Len(rows)].lease = lease[t]
        /\ \A i \in 1..(Len(rows) - 1) : /\ rows[i].new = rows[i + 1].prev
                                         /\ rows[i].lease < rows[i + 1].lease

(* Every committed transition has its own outbox event: no two transitions *)
(* of a task ever share a deduplication key, so stage_event never drops    *)
(* one as a duplicate.                                                     *)
EveryTransitionAnnounced ==
    \A t \in Tasks : Cardinality(outbox[t]) = Len(audit[t])

(* lease_version alone fences stale workers: a worker whose remembered     *)
(* lease is the current one of a RUNNING task is the worker the row names, *)
(* so the lease comparison of complete_task and record_execution_failure   *)
(* can never accept two workers for one execution.                         *)
LeaseIdentifiesOwner ==
    \A w \in Workers, t \in Tasks :
        held[w].task = t /\ held[w].lease = lease[t] /\ state[t] = "RUNNING" => owner[t] = w

(* attempts counts the transitions to RUNNING that are in the ledger, no   *)
(* more and no fewer (INV-F6-RETRY-03).  These are the grants of a task to *)
(* a worker, not executions: see section 6 of the README.                  *)
AttemptsCountGrants ==
    \A t \in Tasks :
        attempts[t] = Cardinality({i \in DOMAIN audit[t] : audit[t][i].new = "RUNNING"})

(* A dead letter is only ever about a task that really ran out of attempts *)
(* and stays FAILED, so the UNIQUE(task_id) insert never conflicts.        *)
DeadLettersAreExhausted ==
    \A t \in dlq : state[t] = "FAILED" /\ attempts[t] = MaxAttempts

(* COMPLETED, FAILED and CANCELLED rows are never written again            *)
(* (INV-F7-TERM-01), whatever stale worker or scan still remembers them.   *)
TerminalIsFinal ==
    [][\A t \in Tasks : state[t] \in Terminal =>
           UNCHANGED <<state[t], attempts[t], lease[t], owner[t], audit[t]>>]_vars

(* A task row is never rewritten under an unchanged lease_version          *)
(* (INV-F7-LEASE-01): whoever read the old version loses its next CAS.     *)
LeaseAdvances ==
    [][\A t \in Tasks : <<state[t], attempts[t], owner[t]>>' # <<state[t], attempts[t], owner[t]>>
           => lease'[t] = lease[t] + 1]_vars

(* The repository implements the abstract task authority.                  *)
PhaseOf(s) ==
    CASE s = "NONE" -> "absent"
      [] s \in {"PENDING", "QUEUED"} -> "waiting"
      [] s = "RUNNING" -> "granted"
      [] s = "COMPLETED" -> "finished"
      [] OTHER -> "exhausted"

Authority == INSTANCE TaskAuthority WITH
    phase <- [t \in Tasks |-> PhaseOf(state[t])],
    grants <- attempts

(* Every behaviour of the tables is a behaviour of TaskAuthority: a task   *)
(* is granted at most MaxAttempts times and each grant ends once.          *)
ImplementsTaskAuthority == Authority!AuthoritySpec
=============================================================================
