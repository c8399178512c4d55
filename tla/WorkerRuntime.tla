---------------------------- MODULE WorkerRuntime ----------------------------
(***************************************************************************)
(* CustomWorkerRuntime.process_task against PostgresTaskRepository and a   *)
(* TaskQueue, with trigger_remediation as the client that fills the queue. *)
(*                                                                         *)
(* process_task is a sequence of repository transactions and queue calls,  *)
(* and every other actor can run between two of them.  pc[w] says where    *)
(* worker w is; task[w] is its local variable `task`, the row as it last   *)
(* read it, and seen[w] the row that update_task read before its           *)
(* compare-and-set.  The methods assign_task, complete_task and            *)
(* record_execution_failure are the transactions of PostgresTaskRepository. *)
(*                                                                         *)
(* process_task falls back on update_task whenever assign_task or          *)
(* complete_task raises; update_task reads the row and moves it from       *)
(* whatever state it found.                                                *)
(*                                                                         *)
(* recover_stale_tasks is absent: PostgresTaskRepository rebuilds a task   *)
(* without started_at, so is_lease_expired is always false and the method  *)
(* changes nothing.                                                        *)
(***************************************************************************)
EXTENDS PostgresTaskRepository

CONSTANTS
    Redis,
    QueueDepth,
    Administered, \* TRUE: operators register, drain and fence workers meanwhile
    MaxCrashes    \* bound: how many worker processes die

ASSUME RuntimeAssumption ==
    /\ Redis \in BOOLEAN
    /\ Administered \in BOOLEAN
    /\ QueueDepth \in Nat
    /\ MaxCrashes \in Nat

VARIABLES
    queue,
    processing,
    submit,      \* submit[t]: how far trigger_remediation is with t
    pc,
    id,          \* id[w]: the task_id it dequeued
    task,
    seen,
    crashes

INSTANCE TaskQueue

queueVars == <<queue, processing>>
runtimeVars == <<submit, pc, id, task, seen, crashes>>
pipelineVars == <<vars, queueVars, runtimeVars>>

PC == {"idle", "get_task", "assign_task", "assigning", "execute", "complete_task", "completing",
       "record_failure", "recording", "settle", "acknowledge",
       "update_running", "write_running", "update_completed", "write_completed"}
Submit == {"new", "created", "queued", "done", "refused"}
NoRow == [state |-> "NONE", lease |-> 0, attempts |-> 0]
Row(t) == [state |-> state[t], lease |-> lease[t], attempts |-> attempts[t]]
RowType == [state : TaskState \cup {"NONE"}, lease : Nat, attempts : Nat]

RuntimeTypeOK ==
    /\ QueueTypeOK
    /\ submit \in [Tasks -> Submit]
    /\ pc \in [Workers -> PC]
    /\ id \in [Workers -> Tasks \cup {NoTask}]
    /\ task \in [Workers -> RowType]
    /\ seen \in [Workers -> RowType]
    /\ crashes \in 0..MaxCrashes
    /\ \A w \in Workers : /\ pc[w] = "idle" <=> id[w] = NoTask
                          /\ pc[w] \in {"assigning", "completing", "recording"} <=> session[w] # Idle

RuntimeInit ==
    /\ Init
    /\ QueueInit
    /\ submit = [t \in Tasks |-> "new"]
    /\ pc = [w \in Workers |-> "idle"]
    /\ id = [w \in Workers |-> NoTask]
    /\ task = [w \in Workers |-> NoRow]
    /\ seen = [w \in Workers |-> NoRow]
    /\ crashes = 0

-----------------------------------------------------------------------------
(* trigger_remediation: three commits.  A full queue makes the last one    *)
(* raise; the row stays QUEUED, and a repeated request is answered with it. *)

submit_create(t) ==
    /\ submit[t] = "new"
    /\ create_task(t)
    /\ submit' = [submit EXCEPT ![t] = "created"]
    /\ UNCHANGED <<queueVars, pc, id, task, seen, crashes>>

submit_queue(t) ==
    /\ submit[t] = "created"
    /\ queue_task(t)
    /\ submit' = [submit EXCEPT ![t] = "queued"]
    /\ UNCHANGED <<queueVars, pc, id, task, seen, crashes>>

submit_enqueue(t) ==
    /\ submit[t] = "queued"
    /\ \/ /\ enqueue(t)
          /\ submit' = [submit EXCEPT ![t] = "done"]
       \/ /\ ~HasRoom
          /\ submit' = [submit EXCEPT ![t] = "refused"]
          /\ UNCHANGED queueVars
    /\ UNCHANGED <<vars, pc, id, task, seen, crashes>>

-----------------------------------------------------------------------------
(* process_task.                                                           *)

Goto(w, label) == pc' = [pc EXCEPT ![w] = label]

Step(w, from, to) == pc[w] = from /\ Goto(w, to)

dequeue_task(w) ==
    /\ Step(w, "idle", "get_task")
    /\ dequeue
    /\ id' = [id EXCEPT ![w] = NextId]
    /\ UNCHANGED <<vars, submit, task, seen, crashes>>

get_task(w) ==
    /\ pc[w] = "get_task"
    /\ task' = [task EXCEPT ![w] = Row(id[w])]
    /\ Goto(w, IF state[id[w]] \in {"QUEUED", "FAILED_RETRYABLE"} THEN "assign_task" ELSE "acknowledge")
    /\ UNCHANGED <<vars, queueVars, submit, id, seen, crashes>>

begin_assign(w) ==
    /\ pc[w] = "assign_task"
    /\ \/ assign_task_read(w, id[w]) /\ Goto(w, "assigning")
       \/ /\ status[w] \in {"DRAINING", "DRAINED", "FENCED", "OFFLINE"}
          /\ Goto(w, "update_running")
          /\ UNCHANGED vars
    /\ UNCHANGED <<queueVars, submit, id, task, seen, crashes>>

end_assign(w) ==
    /\ pc[w] = "assigning"
    /\ \/ /\ assign_task(w)
          /\ task' = [task EXCEPT ![w] = [state |-> "RUNNING", lease |-> held'[w].lease, attempts |-> held'[w].attempts]]
          /\ Goto(w, "execute")
       \/ reject_mutation(w) /\ Goto(w, "update_running") /\ UNCHANGED task
    /\ UNCHANGED <<queueVars, submit, id, seen, crashes>>

(* engine.execute, the RTP and its validation return or raise.             *)
execute(w) ==
    /\ pc[w] = "execute"
    /\ \E outcome \in {"complete_task", "record_failure"} : Goto(w, outcome)
    /\ UNCHANGED <<vars, queueVars, submit, id, task, seen, crashes>>

(* The runtime passes its own fencing_token, which stays 1.                *)
begin_mutation(w) ==
    LET op == IF pc[w] = "complete_task" THEN "complete" ELSE "fail" IN
    /\ pc[w] \in {"complete_task", "record_failure"}
    /\ \/ /\ WorkerMayMutate(w, 1)
          /\ session' = [session EXCEPT ![w] = [op |-> op, task |-> id[w], lease |-> task[w].lease]]
          /\ Goto(w, IF op = "complete" THEN "completing" ELSE "recording")
       \/ /\ ~WorkerMayMutate(w, 1)
          /\ Goto(w, IF op = "complete" THEN "update_completed" ELSE "settle")
          /\ UNCHANGED session
    /\ UNCHANGED <<taskVars, workerVars, held, found, queueVars, submit, id, task, seen, crashes>>

(* Mutant: update_task(COMPLETED) is called also when complete_task worked. *)
end_complete_twice(w) ==
    /\ pc[w] = "completing"
    /\ complete_task(w) \/ reject_mutation(w)
    /\ Goto(w, "update_completed")
    /\ UNCHANGED <<queueVars, submit, id, task, seen, crashes>>

end_complete(w) ==
    /\ pc[w] = "completing"
    /\ \/ complete_task(w) /\ Goto(w, "acknowledge")
       \/ reject_mutation(w) /\ Goto(w, "update_completed")
    /\ UNCHANGED <<queueVars, submit, id, task, seen, crashes>>

(* The exception of record_execution_failure is swallowed.                 *)
end_failure(w) ==
    /\ Step(w, "recording", "settle")
    /\ record_execution_failure(w) \/ reject_mutation(w)
    /\ UNCHANGED <<queueVars, submit, id, task, seen, crashes>>

update_task_read(w) ==
    /\ \/ Step(w, "update_running", "write_running")
       \/ Step(w, "update_completed", "write_completed")
    /\ seen' = [seen EXCEPT ![w] = Row(id[w])]
    /\ UNCHANGED <<vars, queueVars, submit, id, task, crashes>>

CanUpdate(w, new) ==
    /\ lease[id[w]] = seen[w].lease /\ state[id[w]] = seen[w].state
    /\ new = "RUNNING" => seen[w].state \notin Terminal

update_task_write(w) ==
    LET new == IF pc[w] = "write_running" THEN "RUNNING" ELSE "COMPLETED" IN
    /\ pc[w] \in {"write_running", "write_completed"}
    /\ \/ /\ atomic_transition(id[w], seen[w].lease, {seen[w].state}, new, seen[w].lease + 1)
          /\ Goto(w, IF new = "RUNNING" THEN "execute" ELSE "acknowledge")
       \/ /\ ~CanUpdate(w, new)
          /\ Goto(w, "record_failure")
          /\ UNCHANGED taskVars
    /\ seen' = [seen EXCEPT ![w] = NoRow]
    /\ UNCHANGED <<workerVars, clientVars, queueVars, submit, id, task, crashes>>

Finish(w) ==
    /\ Goto(w, "idle")
    /\ id' = [id EXCEPT ![w] = NoTask]
    /\ task' = [task EXCEPT ![w] = NoRow]
    /\ seen' = [seen EXCEPT ![w] = NoRow]
    /\ session' = [session EXCEPT ![w] = Idle]
    /\ held' = [held EXCEPT ![w] = NoLease]
    /\ UNCHANGED <<taskVars, workerVars, found, submit>>

(* Mutant: a failed task is acknowledged, never requeued.                  *)
settle_drop(w) ==
    /\ pc[w] = "settle"
    /\ acknowledge(id[w])
    /\ Finish(w)
    /\ UNCHANGED crashes

(* The end of the except branch, on the attempts of the local variable.    *)
settle(w) ==
    /\ pc[w] = "settle"
    /\ IF task[w].attempts < MaxAttempts THEN requeue(id[w]) ELSE acknowledge(id[w])
    /\ Finish(w)
    /\ UNCHANGED crashes

acknowledge_task(w) ==
    /\ pc[w] = "acknowledge"
    /\ acknowledge(id[w])
    /\ Finish(w)
    /\ UNCHANGED crashes

(* A worker process dies and is started again; the queue lives in Redis.   *)
crash(w) ==
    /\ Redis
    /\ pc[w] # "idle"
    /\ crashes < MaxCrashes
    /\ crashes' = crashes + 1
    /\ Finish(w)
    /\ UNCHANGED queueVars

(* An operator registers, drains and fences workers meanwhile.             *)
administer(w) ==
    /\ Administered
    /\ register_worker(w) \/ mark_draining(w) \/ mark_drained(w) \/ mark_fenced(w)
    /\ UNCHANGED <<queueVars, runtimeVars>>

SubmitNext(t) == submit_create(t) \/ submit_queue(t) \/ submit_enqueue(t)

ProcessTask(w) ==
    \/ dequeue_task(w) \/ get_task(w) \/ begin_assign(w) \/ end_assign(w) \/ execute(w)
    \/ begin_mutation(w) \/ end_complete(w) \/ end_failure(w)
    \/ update_task_read(w) \/ update_task_write(w) \/ settle(w) \/ acknowledge_task(w)

PipelineNext ==
    \/ \E t \in Tasks : SubmitNext(t)
    \/ \E w \in Workers : ProcessTask(w) \/ crash(w) \/ administer(w)

PipelineSpec == RuntimeInit /\ [][PipelineNext]_pipelineVars

(* The worker threads run: each continues the call it is in, and polls a   *)
(* queue that is not empty; so does a client that called                   *)
(* trigger_remediation.  Failures and operators owe nothing.               *)
RunningThreads ==
    /\ \A t \in Tasks : WF_pipelineVars(SubmitNext(t))
    /\ \A w \in Workers : WF_pipelineVars(ProcessTask(w))

FairPipelineSpec == PipelineSpec /\ RunningThreads

-----------------------------------------------------------------------------
(* Properties.                                                             *)

Holders(t) == {w \in Workers : id[w] = t}
Copies(t) == Cardinality({i \in DOMAIN queue : queue[i] = t}) + Cardinality(Holders(t))

(* A task id is in one place: once on the queue, or with one worker, never *)
(* both and never twice, whatever fails and however assign_task and        *)
(* complete_task are refused; so no two workers execute a task at once     *)
(* (process_task, dequeue, requeue).                                       *)
OneDelivery ==
    \A t \in Tasks : Copies(t) <= 1

(* BRPOPLPUSH and the order of the commits in process_task: a QUEUED task  *)
(* is on the queue, with a worker, or at least on the processing list that *)
(* a crash leaves behind.                                                  *)
QueuedTaskIsReachable ==
    \A t \in Tasks : state[t] = "QUEUED" /\ submit[t] = "done" => Copies(t) > 0 \/ processing[t] > 0

(* Every task that reached the queue is COMPLETED or FAILED in the end,    *)
(* provided that nobody drains or fences a worker and none dies.           *)
EveryTaskEnds ==
    [](crashes = 0 /\ \A w \in Workers : status[w] \in {"NONE", "ONLINE"})
        => \A t \in Tasks : submit[t] = "done" ~> state[t] \in Terminal

(* redis_queue.py:3: no task is lost.  A task that is QUEUED is taken from *)
(* the queue and tried; under WorkerRuntime alone this fails when a worker *)
(* dies between dequeue and assign_task.                                   *)
EveryTaskLeavesQueue ==
    \A t \in Tasks : (state[t] = "QUEUED" /\ submit[t] = "done") ~> state[t] # "QUEUED"

=============================================================================
