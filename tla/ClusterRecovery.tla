--------------------------- MODULE ClusterRecovery ---------------------------
(***************************************************************************)
(* ClusterRecoveryEngine.recover_orphaned_tasks: leader nodes that take a  *)
(* recovery lock, list the RUNNING tasks of offline workers, move each one *)
(* to QUEUED or FAILED with atomic_transition and put it on the task       *)
(* queue, checking the lock before and after, and rolling the row back     *)
(* when the lock was lost or the queue is full.  The leaders run beside    *)
(* the workers of WorkerRuntime.                                           *)
(*                                                                         *)
(* The engine runs with either lock class.  Preemptive = FALSE is          *)
(* DistributedRecoveryLock: leaders are threads of one process, a live     *)
(* lease of another node is respected and release() works.  Preemptive =   *)
(* TRUE is PostgresRecoveryLock: acquire() expires every lease there is,   *)
(* and the engine's two-argument release() raises TypeError, so the lease  *)
(* stays until the next acquire().                                         *)
(***************************************************************************)
EXTENDS WorkerRuntime

CONSTANTS
    Nodes,           \* recovery_node_id of each leader
    Preemptive,      \* which lock class the engine was given
    MaxLeases        \* bound: how many recovery leases are ever issued

ASSUME ClusterAssumption == Preemptive \in BOOLEAN /\ MaxLeases \in Nat

NoNode == "NoNode"
ASSUME NodeIsFresh == NoNode \notin Nodes

VARIABLES
    lock,      \* the current recovery lease: owner, fencing_token, unexpired
    issued,    \* _fencing_counter / recovery_fencing_token_seq
    leader,    \* leader[n]: where node n is in recover_orphaned_tasks
    plan       \* plan[n]: the tasks of its list it has not reached yet

recoveryVars == <<lock, issued, leader, plan>>
allVars == <<pipelineVars, recoveryVars>>

Snapshot == [task : Tasks, lease : Nat, attempts : Nat]
NoSnapshot == [task |-> NoTask, lease |-> 0, attempts |-> 0]
LeaderPC == {"idle", "scan", "next", "transition", "recheck", "enqueue", "rollback", "release"}
NoLock == [owner |-> NoNode, token |-> 0, live |-> FALSE]

ClusterTypeOK ==
    /\ RuntimeTypeOK
    /\ lock \in [owner : Nodes \cup {NoNode}, token : 0..MaxLeases, live : BOOLEAN]
    /\ issued \in 0..MaxLeases
    /\ leader \in [Nodes -> [pc : LeaderPC, token : 0..MaxLeases, cur : Snapshot \cup {NoSnapshot}]]
    /\ plan \in [Nodes -> SUBSET Snapshot]
    /\ \A n \in Nodes : leader[n].pc \in {"transition", "recheck", "enqueue", "rollback"}
                           => leader[n].cur # NoSnapshot

ClusterInit ==
    /\ RuntimeInit
    /\ lock = NoLock
    /\ issued = 0
    /\ leader = [n \in Nodes |-> [pc |-> "idle", token |-> 0, cur |-> NoSnapshot]]
    /\ plan = [n \in Nodes |-> {}]

-----------------------------------------------------------------------------
(* The recovery lock.                                                      *)

(* The lease that leader n was given has not been superseded.              *)
is_current(n) == lock.owner = n /\ lock.token = leader[n].token

is_valid(n) == lock.live /\ is_current(n)

NewLease(n) ==
    /\ leader[n].pc = "idle"
    /\ issued < MaxLeases
    /\ issued' = issued + 1
    /\ lock' = [owner |-> n, token |-> issued + 1, live |-> TRUE]
    /\ leader' = [leader EXCEPT ![n] = [@ EXCEPT !.pc = "scan", !.token = issued + 1]]
    /\ UNCHANGED <<pipelineVars, plan>>

(* DistributedRecoveryLock.acquire, when nobody holds a live lease.  The   *)
(* renewal for the same owner does not arise: a leader acquires once per   *)
(* run, and release() has dropped its lease before the next one.           *)
acquire(n) == ~Preemptive /\ ~lock.live /\ NewLease(n)

(* PostgresRecoveryLock.acquire expires the lease of whoever holds it.     *)
preempt(n) == Preemptive /\ NewLease(n)

expire_lease ==
    /\ lock.live
    /\ lock' = [lock EXCEPT !.live = FALSE]
    /\ UNCHANGED <<pipelineVars, issued, leader, plan>>

release(n) ==
    /\ leader[n].pc = "release"
    /\ lock' = IF ~Preemptive /\ is_current(n) THEN NoLock ELSE lock
    /\ leader' = [leader EXCEPT ![n] = [@ EXCEPT !.pc = "idle", !.cur = NoSnapshot]]
    /\ plan' = [plan EXCEPT ![n] = {}]
    /\ UNCHANGED <<pipelineVars, issued>>

-----------------------------------------------------------------------------
(* recover_orphaned_tasks, one action per point where another actor can    *)
(* run.                                                                    *)

Go(n, label) == leader' = [leader EXCEPT ![n].pc = label]

(* The caller says which worker a task belongs to (worker_assignments) and *)
(* the registry which workers are OFFLINE, so any of the RUNNING tasks can *)
(* be on the list.                                                         *)
scan_orphans(n) ==
    /\ leader[n].pc = "scan"
    /\ \E orphans \in SUBSET {t \in Tasks : state[t] = "RUNNING"} :
          plan' = [plan EXCEPT ![n] =
                     {[task |-> t, lease |-> lease[t], attempts |-> attempts[t]] : t \in orphans}]
    /\ Go(n, "next")
    /\ UNCHANGED <<pipelineVars, lock, issued>>

(* Take the next task of the list; a leader that is fenced raises instead. *)
next_task(n) ==
    /\ leader[n].pc = "next"
    /\ \/ /\ plan[n] = {}
          /\ Go(n, "release")
          /\ UNCHANGED plan
       \/ /\ plan[n] # {} /\ ~is_valid(n)
          /\ Go(n, "release")
          /\ UNCHANGED plan
       \/ \E s \in plan[n] :
             /\ is_valid(n)
             /\ leader' = [leader EXCEPT ![n] = [@ EXCEPT !.pc = "transition", !.cur = s]]
             /\ plan' = [plan EXCEPT ![n] = @ \ {s}]
    /\ UNCHANGED <<pipelineVars, lock, issued>>

target(s) == IF s.attempts < MaxAttempts THEN "QUEUED" ELSE "FAILED"

(* Mutant: a plain UPDATE of the row, without the compare-and-set.         *)
transition_orphan_unchecked(n) ==
    LET s == leader[n].cur IN
    /\ leader[n].pc = "transition"
    /\ Transition(s.task, target(s), s.lease + 1, "task_transition")
    /\ Go(n, "recheck")
    /\ UNCHANGED <<attempts, owner, dlq, workerVars, clientVars, queueVars, runtimeVars, lock, issued, plan>>

transition_orphan(n) ==
    LET s == leader[n].cur IN
    /\ leader[n].pc = "transition"
    /\ \/ /\ atomic_transition(s.task, s.lease, {"RUNNING"}, target(s), s.lease + 1)
          /\ Go(n, "recheck")
       \/ /\ ~ (lease[s.task] = s.lease /\ state[s.task] = "RUNNING")
          /\ Go(n, "next")
          /\ UNCHANGED taskVars
    /\ UNCHANGED <<workerVars, clientVars, queueVars, runtimeVars, lock, issued, plan>>

recheck_lock(n) ==
    /\ leader[n].pc = "recheck"
    /\ Go(n, IF ~is_valid(n) THEN "rollback"
             ELSE IF target(leader[n].cur) = "QUEUED" THEN "enqueue" ELSE "next")
    /\ UNCHANGED <<pipelineVars, lock, issued, plan>>

(* Mutant: a full queue is ignored.                                        *)
enqueue_orphan_lossy(n) ==
    /\ leader[n].pc = "enqueue"
    /\ enqueue(leader[n].cur.task) \/ (~HasRoom /\ UNCHANGED queueVars)
    /\ Go(n, "next")
    /\ UNCHANGED <<vars, runtimeVars, lock, issued, plan>>

enqueue_orphan(n) ==
    /\ leader[n].pc = "enqueue"
    /\ \/ enqueue(leader[n].cur.task) /\ Go(n, "next")
       \/ ~HasRoom /\ Go(n, "rollback") /\ UNCHANGED queueVars
    /\ UNCHANGED <<vars, runtimeVars, lock, issued, plan>>

(* Mutant: the rollback is a plain UPDATE that leaves no audit row.        *)
rollback_orphan_silent(n) ==
    LET s == leader[n].cur IN
    /\ leader[n].pc = "rollback"
    /\ lease[s.task] = s.lease + 1 /\ state[s.task] = "QUEUED"
    /\ state' = [state EXCEPT ![s.task] = "RUNNING"]
    /\ lease' = [lease EXCEPT ![s.task] = s.lease]
    /\ Go(n, "release")
    /\ UNCHANGED <<attempts, owner, dlq, audit, outbox, workerVars, clientVars, queueVars, runtimeVars, lock, issued, plan>>

(* COMPENSATING ROLLBACK: back to RUNNING with the old lease_version.      *)
rollback_orphan(n) ==
    LET s == leader[n].cur IN
    /\ leader[n].pc = "rollback"
    /\ \/ atomic_transition(s.task, s.lease + 1, {target(s)}, "RUNNING", s.lease)
       \/ /\ ~ (lease[s.task] = s.lease + 1 /\ state[s.task] = target(s) /\ target(s) = "QUEUED")
          /\ UNCHANGED taskVars
    /\ Go(n, "release")
    /\ UNCHANGED <<workerVars, clientVars, queueVars, runtimeVars, lock, issued, plan>>

(* The process of a leader dies; its lease stays in the database.          *)
crash_leader(n) ==
    /\ Preemptive
    /\ leader[n].pc # "idle"
    /\ leader' = [leader EXCEPT ![n] = [@ EXCEPT !.pc = "idle", !.cur = NoSnapshot]]
    /\ plan' = [plan EXCEPT ![n] = {}]
    /\ UNCHANGED <<pipelineVars, lock, issued>>

LeaderNext(n) ==
    \/ acquire(n) \/ preempt(n) \/ scan_orphans(n) \/ next_task(n) \/ transition_orphan(n) \/ recheck_lock(n)
    \/ enqueue_orphan(n) \/ rollback_orphan(n) \/ release(n) \/ crash_leader(n)

ClusterNext ==
    \/ \E n \in Nodes : LeaderNext(n)
    \/ expire_lease
    \/ PipelineNext /\ UNCHANGED recoveryVars

ClusterSpec == ClusterInit /\ [][ClusterNext]_allVars

(* A leader that has begun a recovery run goes on with it, and the threads *)
(* of WorkerRuntime run; nobody has to begin a recovery.                   *)
Continue(n) == leader[n].pc # "idle" /\ LeaderNext(n)

FairClusterSpec ==
    /\ ClusterSpec
    /\ \A n \in Nodes : WF_allVars(Continue(n))
    /\ \A t \in Tasks : WF_allVars(SubmitNext(t) /\ UNCHANGED recoveryVars)
    /\ \A w \in Workers : WF_allVars(ProcessTask(w) /\ UNCHANGED recoveryVars)

-----------------------------------------------------------------------------
(* Properties.                                                             *)

(* cluster_recovery.py:271: queue and table do not come apart.  A QUEUED   *)
(* task is on the queue or in the hands of a worker that dequeued it, or   *)
(* of the leader that is about to put it there or to roll it back.         *)
RecoveredTaskIsReachable ==
    \A t \in Tasks : state[t] = "QUEUED" /\ submit[t] = "done" =>
        \/ Copies(t) > 0
        \/ \E n \in Nodes : leader[n].pc \in {"recheck", "enqueue", "rollback"} /\ leader[n].cur.task = t

(* A leader that has moved a row and may still roll it back (:248-284).    *)
Unsettled(n) == leader[n].pc \in {"recheck", "enqueue", "rollback"}
CanRollBack(n, t) == Unsettled(n) /\ leader[n].cur.task = t /\ lease[t] = leader[n].cur.lease + 1

(* A compensating rollback undoes the leader's own move and nobody else's: *)
(* while its compare-and-set would match a row, no other leader could roll *)
(* that row back, and no worker has been given the task since              *)
(* (cluster_recovery.py:248-284, two leaders with snapshots of the same    *)
(* rows).  Versions are used again after a rollback, so that the version   *)
(* matches says little by itself.                                          *)
RollbackUndoesOwnMove ==
    \A n \in Nodes, t \in Tasks : CanRollBack(n, t) =>
        /\ \A m \in Nodes \ {n} : ~CanRollBack(m, t)
        /\ state[t] # "RUNNING"

(* The states the audit ledger records follow on from each other, rollbacks *)
(* and late results included, and end in the state of the row              *)
(* (record_transition in every transaction that writes the row).           *)
LedgerFollowsRow ==
    \A t \in Tasks :
        /\ audit[t] # <<>> => audit[t][Len(audit[t])].new = state[t]
        /\ \A i \in 1..(Len(audit[t]) - 1) : audit[t][i].new = audit[t][i + 1].prev
=============================================================================
