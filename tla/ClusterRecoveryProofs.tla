----------------------- MODULE ClusterRecoveryProofs -----------------------
(***************************************************************************)
(* Proofs about the task repository (Spec), the task pipeline on top of it *)
(* (PipelineSpec of WorkerRuntime) and the pipeline with recovery leaders  *)
(* (ClusterSpec), for every set of tasks, workers and leaders, either      *)
(* queue, either lock class and every bound.                               *)
(*                                                                         *)
(* The repository alone: every step that touches a task row is a RowStep,  *)
(* and RepositoryInv says what a client may remember of a row.             *)
(*                                                                         *)
(* What the rest rests on is one fact about the code: whoever writes a     *)
(* task row writes it as in Write, one row with one ledger entry.  On it   *)
(* stand three invariants:                                                 *)
(*   - PipelineInv: where the ids are and what a worker may rely on while  *)
(*     it has one, for the pipeline alone;                                 *)
(*   - LeaseInv: which old versions a rollback can bring back, and why no  *)
(*     stale worker profits from it;                                       *)
(*   - Tracked: who puts a QUEUED task back on the queue when leaders and  *)
(*     workers move its row under each other.                              *)
(***************************************************************************)
EXTENDS ClusterRecovery, FiniteSetTheorems, TLAPS

-----------------------------------------------------------------------------
(* The task repository.                                                    *)

(* What Transition writes to the tasks, audit and outbox tables has the    *)
(* type of those tables.                                                   *)
LEMMA TransitionTypes ==
  ASSUME TypeOK, NEW t \in Tasks, NEW new \in TaskState, NEW v \in Nat, NEW kind \in EventKind,
         Transition(t, new, v, kind)
  PROVE  /\ state' \in [Tasks -> TaskState \cup {"NONE"}]
         /\ lease' \in [Tasks -> Nat]
         /\ audit' \in [Tasks -> Seq(AuditRow)]
         /\ outbox' \in [Tasks -> SUBSET EventKey]
<1>1. state' \in [Tasks -> TaskState \cup {"NONE"}] /\ lease' \in [Tasks -> Nat]
  BY DEF TypeOK, Transition
<1>2. audit' \in [Tasks -> Seq(AuditRow)]
  <2>1. [prev |-> state[t], new |-> new, lease |-> v] \in AuditRow
    BY DEF TypeOK, AuditRow
  <2>2. Append(audit[t], [prev |-> state[t], new |-> new, lease |-> v]) \in Seq(AuditRow)
    BY <2>1 DEF TypeOK
  <2> QED
    BY <2>2 DEF TypeOK, Transition, record_transition
<1>3. outbox' \in [Tasks -> SUBSET EventKey]
  <2>1. [kind |-> kind, lease |-> v] \in EventKey
    BY DEF EventKey
  <2> QED
    BY <2>1 DEF TypeOK, Transition, stage_event
<1> QED
  BY <1>1, <1>2, <1>3

(* Tables and client memory keep their types in every step.                *)
LEMMA RepositoryTypeStep == TypeOK /\ [Next]_vars => TypeOK'
<1> SUFFICES ASSUME TypeOK, [Next]_vars PROVE TypeOK'
  OBVIOUS
<1> USE BoundsAreNat
<1>t. /\ {"PENDING", "QUEUED", "RUNNING", "COMPLETED", "FAILED"} \subseteq TaskState
      /\ {"task_created", "task_transition", "task_assigned", "task_completed", "task_failure"} \subseteq EventKind
  BY DEF TaskState, EventKind
<1>1. ASSUME NEW t \in Tasks, create_task(t) PROVE TypeOK'
  BY <1>1, <1>t, TransitionTypes, 1 \in Nat DEF create_task, TypeOK, workerVars, clientVars
<1>2. ASSUME NEW t \in Tasks, queue_task(t) PROVE TypeOK'
  <2>1. Transition(t, "QUEUED", lease[t] + 1, "task_transition") /\ lease[t] + 1 \in Nat
    BY <1>2 DEF queue_task, atomic_transition, TypeOK
  <2> QED
    BY <1>2, <1>t, <2>1, TransitionTypes DEF queue_task, atomic_transition, TypeOK, workerVars, clientVars
<1>3. ASSUME NEW t \in Tasks, scan_running(t) PROVE TypeOK'
  BY <1>3 DEF scan_running, TypeOK, taskVars, workerVars
<1>4. ASSUME NEW t \in Tasks, recover_task(t) PROVE TypeOK'
  <2>1. found' \in [Tasks -> [lease : Nat, attempts : 0..MaxAttempts]] /\ UNCHANGED <<workerVars, session, held>>
    BY <1>4 DEF recover_task, TypeOK, NotFound
  <2>2. CASE UNCHANGED taskVars
    BY <2>1, <2>2 DEF TypeOK, taskVars, workerVars
  <2>3. ASSUME NEW new \in {"QUEUED", "FAILED"}, atomic_transition(t, found[t].lease, {"RUNNING"}, new, found[t].lease + 1)
        PROVE TypeOK'
    <3>1. Transition(t, new, lease[t] + 1, "task_transition") /\ lease[t] + 1 \in Nat /\ new \in TaskState
      BY <1>t, <2>3 DEF atomic_transition, TypeOK
    <3>2. UNCHANGED <<attempts, owner, dlq>>
      BY <2>3 DEF atomic_transition, TypeOK
    <3> QED
      BY <2>1, <3>1, <3>2, <1>t, TransitionTypes DEF TypeOK, workerVars
  <2> QED
    BY <1>4, <2>2, <2>3 DEF recover_task
<1>5. ASSUME NEW w \in Workers, NEW t \in Tasks, assign_task_read(w, t) PROVE TypeOK'
  BY <1>5 DEF assign_task_read, TypeOK, Session, taskVars, workerVars
<1>6. ASSUME NEW w \in Workers, NEW op \in {"complete", "fail"}, NEW k \in 1..token[w], mutate_task_read(w, op, k)
      PROVE TypeOK'
  BY <1>6 DEF mutate_task_read, TypeOK, Session, HeldLease, taskVars, workerVars
<1>s. ASSUME NEW w \in Workers
      PROVE  [session EXCEPT ![w] = Idle] \in [Workers -> Session] /\ [held EXCEPT ![w] = NoLease] \in [Workers -> HeldLease]
  BY DEF TypeOK, Session, HeldLease
<1>7. ASSUME NEW w \in Workers, assign_task(w) PROVE TypeOK'
  <2> DEFINE t == session[w].task
  <2>1. t \in Tasks
    BY <1>7 DEF assign_task, TypeOK, Session, Idle
  <2>2. Transition(t, "RUNNING", lease[t] + 1, "task_assigned") /\ lease[t] + 1 \in Nat
    BY <1>7, <2>1 DEF assign_task, TypeOK
  <2>3. attempts' \in [Tasks -> 0..MaxAttempts]
    BY <1>7, <2>1 DEF assign_task, CanAssign, TypeOK
  <2>4. held' \in [Workers -> HeldLease]
    <3> DEFINE h == [task |-> t, lease |-> lease[t] + 1, attempts |-> attempts[t] + 1]
    <3>1. attempts[t] + 1 \in Nat
      BY <2>1, BoundsAreNat DEF TypeOK
    <3>2. h \in HeldLease
      BY <2>1, <2>2, <3>1 DEF HeldLease
    <3>3. held' = [held EXCEPT ![w] = h] /\ held \in [Workers -> HeldLease]
      BY <1>7 DEF assign_task, TypeOK
    <3> HIDE DEF h
    <3> QED
      BY <3>2, <3>3
  <2> HIDE DEF t
  <2>5. state' \in [Tasks -> TaskState \cup {"NONE"}] /\ lease' \in [Tasks -> Nat]
        /\ audit' \in [Tasks -> Seq(AuditRow)] /\ outbox' \in [Tasks -> SUBSET EventKey]
    BY <1>t, <2>1, <2>2, TransitionTypes
  <2> QED
    BY <1>7, <1>s, <2>1, <2>3, <2>4, <2>5 DEF assign_task, TypeOK, workerVars, t
<1>8. ASSUME NEW w \in Workers, complete_task(w) \/ record_execution_failure(w) PROVE TypeOK'
  <2> DEFINE t == session[w].task
             v == session[w].lease
  <2>1. t \in Tasks /\ v \in Nat /\ v + 1 \in Nat
    BY <1>8 DEF complete_task, record_execution_failure, TypeOK, Session, Idle
  <2>2. \E new \in TaskState, kind \in EventKind : Transition(t, new, v + 1, kind)
    BY <1>8, <1>t DEF complete_task, record_execution_failure
  <2>3. owner' \in [Tasks -> Workers \cup {NoWorker}] /\ dlq' \in SUBSET Tasks
    BY <1>8, <2>1 DEF complete_task, record_execution_failure, TypeOK
  <2>4. /\ UNCHANGED <<attempts, workerVars, found>>
        /\ session' = [session EXCEPT ![w] = Idle]
        /\ held' = [held EXCEPT ![w] = NoLease]
    BY <1>8 DEF complete_task, record_execution_failure
  <2> HIDE DEF t, v
  <2>5. state' \in [Tasks -> TaskState \cup {"NONE"}] /\ lease' \in [Tasks -> Nat]
        /\ audit' \in [Tasks -> Seq(AuditRow)] /\ outbox' \in [Tasks -> SUBSET EventKey]
    BY <2>1, <2>2, TransitionTypes
  <2> QED
    BY <1>s, <2>3, <2>4, <2>5 DEF TypeOK, workerVars
<1>10. ASSUME NEW w \in Workers, reject_mutation(w) \/ crash_worker(w) PROVE TypeOK'
  BY <1>10, <1>s DEF reject_mutation, crash_worker, TypeOK, taskVars, workerVars
<1>11. ASSUME NEW w \in Workers,
              register_worker(w) \/ send_heartbeat(w) \/ mark_offline(w) \/ mark_draining(w)
              \/ mark_drained(w) \/ mark_fenced(w)
       PROVE TypeOK'
  <2>1. UNCHANGED <<taskVars, clientVars>>
    BY <1>11 DEF register_worker, send_heartbeat, mark_offline, mark_draining, mark_drained, mark_fenced, SetStatus
  <2>2. status' \in [Workers -> WorkerStatus \cup {"NONE"}]
    BY <1>11 DEF register_worker, send_heartbeat, mark_offline, mark_draining, mark_drained, mark_fenced,
       SetStatus, TypeOK, WorkerStatus
  <2>3. token' \in [Workers -> Nat \ {0}] /\ heartbeat' \in [Workers -> Nat]
    BY <1>11 DEF register_worker, send_heartbeat, mark_offline, mark_draining, mark_drained, mark_fenced, TypeOK
  <2> QED
    BY <2>1, <2>2, <2>3 DEF TypeOK, taskVars, clientVars
<1>12. CASE UNCHANGED vars
  BY <1>12 DEF vars, taskVars, workerVars, clientVars, TypeOK
<1> QED
  BY <1>1, <1>2, <1>3, <1>4, <1>5, <1>6, <1>7, <1>8, <1>10, <1>11, <1>12
  DEF Next, TaskNext, WorkerNext

(* The repository's tables are always well typed, and attempts stays       *)
(* within max_attempts (the guard of assign_task).                         *)
THEOREM RepositoryTypeCorrect == Spec => []TypeOK
<1>1. Init => TypeOK
  BY BoundsAreNat DEF Init, TypeOK, Idle, NoLease, NotFound, Session, HeldLease
<1> QED
  BY <1>1, RepositoryTypeStep, PTL DEF Spec

-----------------------------------------------------------------------------
(* The inductive invariant: what a row that does not exist holds, and how  *)
(* far behind the table the memory of workers and recovery scans can be.   *)

AbsentIsBlank ==
    \A t \in Tasks : /\ state[t] = "NONE" <=> lease[t] = 0
                     /\ lease[t] = 0 => attempts[t] = 0

HeldIsPast ==
    \A w \in Workers : held[w] # NoLease => held[w].lease <= lease[held[w].task]

FoundIsPast ==
    \A t \in Tasks : /\ found[t].lease <= lease[t]
                     /\ found[t].lease = lease[t] => found[t].attempts = attempts[t]

RepositoryInv == TypeOK /\ AbsentIsBlank /\ HeldIsPast /\ LeaseIdentifiesOwner /\ FoundIsPast

(* The transitions a task row can make.                                    *)
TaskMoves == {<<"NONE", "PENDING">>, <<"PENDING", "QUEUED">>, <<"PENDING", "RUNNING">>, <<"QUEUED", "RUNNING">>,
              <<"RUNNING", "COMPLETED">>, <<"RUNNING", "QUEUED">>, <<"RUNNING", "FAILED">>}

RowStep(t, new, kind) ==
    /\ Transition(t, new, lease[t] + 1, kind)
    /\ <<state[t], new>> \in TaskMoves
    /\ attempts' = [attempts EXCEPT ![t] = IF new = "RUNNING" THEN @ + 1 ELSE @]
    /\ new = "RUNNING" => attempts[t] < MaxAttempts
    /\ new = "QUEUED" /\ state[t] = "RUNNING" => attempts[t] < MaxAttempts
    /\ new = "FAILED" => attempts[t] = MaxAttempts
    /\ \E o \in Workers \cup {NoWorker} : owner' = [owner EXCEPT ![t] = o]
    /\ dlq' = dlq \/ (dlq' = dlq \cup {t} /\ new = "FAILED")

(* Every step either leaves the task tables alone or moves one row along   *)
(* TaskMoves, with the next lease_version, one audit row and one event.    *)
LEMMA StepShape ==
  ASSUME TypeOK, AbsentIsBlank, FoundIsPast, [Next]_vars
  PROVE  \/ UNCHANGED taskVars
         \/ \E t \in Tasks, new \in TaskState, kind \in EventKind : RowStep(t, new, kind)
<1> USE BoundsAreNat
<1>t. /\ {"PENDING", "QUEUED", "RUNNING", "COMPLETED", "FAILED"} \subseteq TaskState
      /\ {"task_created", "task_transition", "task_assigned", "task_completed", "task_failure"} \subseteq EventKind
  BY DEF TaskState, EventKind
<1>o. ASSUME NEW t \in Tasks PROVE owner = [owner EXCEPT ![t] = owner[t]] /\ owner[t] \in Workers \cup {NoWorker}
  BY DEF TypeOK
<1>1. ASSUME NEW t \in Tasks, create_task(t) PROVE RowStep(t, "PENDING", "task_created")
  <2>1. lease[t] + 1 = 1
    BY <1>1 DEF create_task, AbsentIsBlank
  <2>2. attempts' = [attempts EXCEPT ![t] = @]
    BY <1>1 DEF create_task, TypeOK
  <2> QED
    BY <1>1, <1>o, <2>1, <2>2 DEF create_task, RowStep, TaskMoves
<1>2. ASSUME NEW t \in Tasks, queue_task(t) PROVE RowStep(t, "QUEUED", "task_transition")
  BY <1>2, <1>o DEF queue_task, atomic_transition, RowStep, TaskMoves
<1>4. ASSUME NEW t \in Tasks, recover_task(t)
      PROVE  UNCHANGED taskVars \/ RowStep(t, "QUEUED", "task_transition") \/ RowStep(t, "FAILED", "task_transition")
  <2>1. ASSUME atomic_transition(t, found[t].lease, {"RUNNING"}, "QUEUED", found[t].lease + 1), found[t].attempts < MaxAttempts
        PROVE  RowStep(t, "QUEUED", "task_transition")
    BY <2>1, <1>o DEF atomic_transition, RowStep, TaskMoves, FoundIsPast
  <2>2. ASSUME atomic_transition(t, found[t].lease, {"RUNNING"}, "FAILED", found[t].lease + 1), ~(found[t].attempts < MaxAttempts)
        PROVE  RowStep(t, "FAILED", "task_transition")
    <3>1. attempts[t] = MaxAttempts
      BY <2>2 DEF atomic_transition, FoundIsPast, TypeOK
    <3> QED
      BY <2>2, <1>o, <3>1 DEF atomic_transition, RowStep, TaskMoves
  <2> QED
    BY <1>4, <2>1, <2>2 DEF recover_task
<1>7. ASSUME NEW w \in Workers, assign_task(w) PROVE RowStep(session[w].task, "RUNNING", "task_assigned") /\ session[w].task \in Tasks
  <2>1. session[w].task \in Tasks
    BY <1>7 DEF assign_task, TypeOK, Session, Idle
  <2>2. \E o \in Workers \cup {NoWorker} : owner' = [owner EXCEPT ![session[w].task] = o]
    BY <1>7 DEF assign_task
  <2> QED
    BY <1>7, <2>1, <2>2 DEF assign_task, CanAssign, RowStep, TaskMoves
<1>8. ASSUME NEW w \in Workers, complete_task(w) PROVE RowStep(session[w].task, "COMPLETED", "task_completed") /\ session[w].task \in Tasks
  <2>1. session[w].task \in Tasks
    BY <1>8 DEF complete_task, TypeOK, Session, Idle
  <2>2. attempts' = [attempts EXCEPT ![session[w].task] = @]
    BY <1>8, <2>1 DEF complete_task, TypeOK
  <2> QED
    BY <1>8, <1>o, <2>1, <2>2 DEF complete_task, LeaseIsLive, RowStep, TaskMoves
<1>9. ASSUME NEW w \in Workers, record_execution_failure(w)
      PROVE  /\ session[w].task \in Tasks
             /\ \/ RowStep(session[w].task, "FAILED", "task_failure")
                \/ RowStep(session[w].task, "QUEUED", "task_transition")
  <2>1. session[w].task \in Tasks
    BY <1>9 DEF record_execution_failure, TypeOK, Session, Idle
  <2>2. attempts' = [attempts EXCEPT ![session[w].task] = @] /\ attempts[session[w].task] \in 0..MaxAttempts
    BY <1>9, <2>1 DEF record_execution_failure, TypeOK
  <2>3. \E o \in Workers \cup {NoWorker} : owner' = [owner EXCEPT ![session[w].task] = o]
    BY <1>9, <1>o, <2>1 DEF record_execution_failure
  <2>4. ASSUME attempts[session[w].task] >= MaxAttempts PROVE RowStep(session[w].task, "FAILED", "task_failure")
    <3>1. attempts[session[w].task] = MaxAttempts
      BY <2>2, <2>4
    <3>2. /\ Transition(session[w].task, "FAILED", lease[session[w].task] + 1, "task_failure")
          /\ state[session[w].task] = "RUNNING"
          /\ dlq' = dlq \cup {session[w].task}
      BY <1>9, <3>1 DEF record_execution_failure, LeaseIsLive
    <3> QED
      BY <2>2, <2>3, <3>1, <3>2 DEF RowStep, TaskMoves
  <2>5. ASSUME attempts[session[w].task] < MaxAttempts PROVE RowStep(session[w].task, "QUEUED", "task_transition")
    <3>1. /\ Transition(session[w].task, "QUEUED", lease[session[w].task] + 1, "task_transition")
          /\ state[session[w].task] = "RUNNING"
          /\ dlq' = dlq
      BY <1>9, <2>2, <2>5 DEF record_execution_failure, LeaseIsLive
    <3> QED
      BY <2>2, <2>3, <2>5, <3>1 DEF RowStep, TaskMoves
  <2> QED
    BY <2>1, <2>2, <2>4, <2>5
<1>10. ASSUME \/ \E t \in Tasks : scan_running(t)
              \/ \E w \in Workers, t \in Tasks : assign_task_read(w, t)
              \/ \E w \in Workers : \E op \in {"complete", "fail"}, k \in 1..token[w] : mutate_task_read(w, op, k)
              \/ \E w \in Workers : reject_mutation(w) \/ crash_worker(w)
              \/ \E w \in Workers : register_worker(w) \/ send_heartbeat(w) \/ mark_offline(w)
                                     \/ mark_draining(w) \/ mark_drained(w) \/ mark_fenced(w)
              \/ UNCHANGED vars
       PROVE  UNCHANGED taskVars
  BY <1>10 DEF scan_running, assign_task_read, mutate_task_read, reject_mutation, crash_worker, register_worker,
     send_heartbeat, mark_offline, mark_draining, mark_drained, mark_fenced, SetStatus, vars
<1> HIDE DEF RowStep
<1> QED
  BY <1>1, <1>2, <1>4, <1>7, <1>8, <1>9, <1>10, <1>t DEF Next, TaskNext, WorkerNext

(* A row step raises one lease_version by one and leaves other rows alone. *)
LEMMA RowStepEffect ==
  ASSUME TypeOK, NEW t \in Tasks, NEW new \in TaskState, NEW kind \in EventKind, RowStep(t, new, kind)
  PROVE  /\ state'[t] = new /\ new # "NONE"
         /\ lease'[t] = lease[t] + 1
         /\ attempts'[t] = (IF new = "RUNNING" THEN attempts[t] + 1 ELSE attempts[t])
         /\ \A u \in Tasks \ {t} : /\ state'[u] = state[u]
                                   /\ lease'[u] = lease[u]
                                   /\ attempts'[u] = attempts[u]
                                   /\ owner'[u] = owner[u]
                                   /\ audit'[u] = audit[u]
                                   /\ outbox'[u] = outbox[u]
<1>1. /\ state'[t] = new /\ new # "NONE"
      /\ lease'[t] = lease[t] + 1
      /\ attempts'[t] = (IF new = "RUNNING" THEN attempts[t] + 1 ELSE attempts[t])
  BY DEF TypeOK, RowStep, Transition, TaskState
<1>2. ASSUME NEW u \in Tasks \ {t}
      PROVE  state'[u] = state[u] /\ lease'[u] = lease[u] /\ attempts'[u] = attempts[u] /\ owner'[u] = owner[u]
  BY DEF TypeOK, RowStep, Transition
<1>3. ASSUME NEW u \in Tasks \ {t} PROVE audit'[u] = audit[u] /\ outbox'[u] = outbox[u]
  BY DEF TypeOK, RowStep, Transition, record_transition, stage_event
<1> QED
  BY <1>1, <1>2, <1>3

(* What a step does to the memory of workers and scans: it keeps it,       *)
(* forgets it, or refreshes it from the row.                               *)
LEMMA MemoryShape ==
  ASSUME TypeOK, [Next]_vars
  PROVE  /\ \A w \in Workers : \/ held'[w] \in {held[w], NoLease}
                               \/ \E t \in Tasks : /\ held'[w].task = t /\ held'[w].lease = lease'[t]
                                                   /\ owner'[t] = w
         /\ \A t \in Tasks : \/ found'[t] \in {found[t], NotFound}
                             \/ /\ found'[t] = [lease |-> lease[t], attempts |-> attempts[t]]
                                /\ UNCHANGED taskVars
<1>1. ASSUME NEW t \in Tasks, create_task(t) \/ queue_task(t) PROVE UNCHANGED <<held, found>>
  BY <1>1 DEF create_task, queue_task, clientVars
<1>2. ASSUME NEW t \in Tasks, scan_running(t)
      PROVE  /\ UNCHANGED <<held, taskVars>>
             /\ found' = [found EXCEPT ![t] = [lease |-> lease[t], attempts |-> attempts[t]]]
  BY <1>2 DEF scan_running
<1>3. ASSUME NEW t \in Tasks, recover_task(t) PROVE UNCHANGED held /\ found' = [found EXCEPT ![t] = NotFound]
  BY <1>3 DEF recover_task
<1>4. ASSUME NEW w \in Workers, assign_task(w)
      PROVE  UNCHANGED found /\ \E t \in Tasks : /\ held' = [held EXCEPT ![w] = [task |-> t, lease |-> lease'[t], attempts |-> attempts'[t]]]
                                                 /\ owner'[t] = w
  <2>1. session[w].task \in Tasks
    BY <1>4 DEF assign_task, TypeOK, Session, Idle
  <2>2. /\ lease'[session[w].task] = lease[session[w].task] + 1
        /\ attempts'[session[w].task] = attempts[session[w].task] + 1
        /\ owner'[session[w].task] = w
    BY <1>4, <2>1 DEF assign_task, Transition, TypeOK
  <2> QED
    BY <1>4, <2>1, <2>2 DEF assign_task
<1>5. ASSUME NEW w \in Workers, complete_task(w) \/ record_execution_failure(w) \/ reject_mutation(w) \/ crash_worker(w)
      PROVE  UNCHANGED found /\ held' = [held EXCEPT ![w] = NoLease]
  BY <1>5 DEF complete_task, record_execution_failure, reject_mutation, crash_worker
<1>6. ASSUME \/ \E w \in Workers, t \in Tasks : assign_task_read(w, t)
             \/ \E w \in Workers : \E op \in {"complete", "fail"}, k \in 1..token[w] : mutate_task_read(w, op, k)
             \/ \E w \in Workers : register_worker(w) \/ send_heartbeat(w) \/ mark_offline(w)
                                    \/ mark_draining(w) \/ mark_drained(w) \/ mark_fenced(w)
             \/ UNCHANGED vars
      PROVE  UNCHANGED <<held, found>>
  BY <1>6 DEF assign_task_read, mutate_task_read, register_worker, send_heartbeat, mark_offline, mark_draining,
     mark_drained, mark_fenced, SetStatus, vars, clientVars
<1>7. \/ UNCHANGED <<held, found>>
      \/ /\ UNCHANGED <<held, taskVars>>
         /\ \E t \in Tasks : found' = [found EXCEPT ![t] = [lease |-> lease[t], attempts |-> attempts[t]]]
      \/ UNCHANGED held /\ \E t \in Tasks : found' = [found EXCEPT ![t] = NotFound]
      \/ UNCHANGED found /\ \E w \in Workers : held' = [held EXCEPT ![w] = NoLease]
      \/ /\ UNCHANGED found
         /\ \E w \in Workers, t \in Tasks : /\ held' = [held EXCEPT ![w] = [task |-> t, lease |-> lease'[t], attempts |-> attempts'[t]]]
                                            /\ owner'[t] = w
  BY <1>1, <1>2, <1>3, <1>4, <1>5, <1>6 DEF Next, TaskNext, WorkerNext
<1>8. \A w \in Workers : \/ held'[w] \in {held[w], NoLease}
                         \/ \E t \in Tasks : /\ held'[w].task = t /\ held'[w].lease = lease'[t]
                                             /\ owner'[t] = w
  BY <1>7 DEF TypeOK
<1>9. \A t \in Tasks : \/ found'[t] \in {found[t], NotFound}
                       \/ /\ found'[t] = [lease |-> lease[t], attempts |-> attempts[t]]
                          /\ UNCHANGED taskVars
  BY <1>7 DEF TypeOK
<1> QED
  BY <1>8, <1>9

(* The inductive invariant is preserved.                                   *)
LEMMA RepositoryInvStep == RepositoryInv /\ [Next]_vars => RepositoryInv'
<1> SUFFICES ASSUME RepositoryInv, [Next]_vars PROVE RepositoryInv'
  OBVIOUS
<1> USE DEF RepositoryInv
<1>1. TypeOK'
  BY RepositoryTypeStep
<1> DEFINE Kept(t) == state'[t] = state[t] /\ lease'[t] = lease[t] /\ attempts'[t] = attempts[t] /\ owner'[t] = owner[t]
           Moved(t) == lease'[t] = lease[t] + 1 /\ state'[t] # "NONE"
<1>2. \A t \in Tasks : Kept(t) \/ Moved(t)
  <2>1. CASE UNCHANGED taskVars
    BY <2>1 DEF taskVars
  <2>2. ASSUME NEW t \in Tasks, NEW new \in TaskState, NEW kind \in EventKind, RowStep(t, new, kind),
               NEW u \in Tasks
        PROVE  Kept(u) \/ Moved(u)
    BY <2>2, RowStepEffect
  <2> QED
    BY <2>1, <2>2, StepShape
<1>4. ASSUME NEW t \in Tasks PROVE lease[t] <= lease'[t] /\ lease[t] \in Nat /\ lease'[t] \in Nat
  <2>1. lease[t] \in Nat /\ lease'[t] \in Nat
    BY <1>1 DEF TypeOK
  <2> QED
    BY <2>1, <1>2
<1>3. AbsentIsBlank'
  <2> SUFFICES ASSUME NEW t \in Tasks
               PROVE  /\ state'[t] = "NONE" <=> lease'[t] = 0
                      /\ lease'[t] = 0 => attempts'[t] = 0
    BY DEF AbsentIsBlank
  <2> QED
    BY <1>2, <1>4 DEF AbsentIsBlank
<1>5. HeldIsPast'
  <2> SUFFICES ASSUME NEW w \in Workers, held'[w] # NoLease PROVE held'[w].lease <= lease'[held'[w].task]
    BY DEF HeldIsPast
  <2>1. CASE held'[w] = held[w]
    BY <2>1, <1>4 DEF HeldIsPast, TypeOK, HeldLease
  <2>2. ASSUME NEW t \in Tasks, held'[w].task = t, held'[w].lease = lease'[t] PROVE held'[w].lease <= lease'[held'[w].task]
    BY <2>2, <1>4
  <2> QED
    BY <2>1, <2>2, MemoryShape
<1>6. LeaseIdentifiesOwner'
  <2> SUFFICES ASSUME NEW w \in Workers, NEW t \in Tasks,
                      held'[w].task = t, held'[w].lease = lease'[t], state'[t] = "RUNNING"
               PROVE  owner'[t] = w
    BY DEF LeaseIdentifiesOwner
  <2>1. held'[w].task = t /\ held'[w] # NoLease
    BY NullsAreFresh DEF NoLease
  <2>2. CASE held'[w] = held[w]
    <3>1. lease'[t] # lease[t] + 1
      BY <2>1, <2>2, <1>2, <1>4 DEF HeldIsPast
    <3> QED
      BY <2>2, <3>1, <1>2 DEF LeaseIdentifiesOwner
  <2>3. CASE \E u \in Tasks : held'[w].task = u /\ owner'[u] = w
    BY <2>1, <2>3
  <2> QED
    BY <2>1, <2>2, <2>3, MemoryShape
<1>7. FoundIsPast'
  <2> SUFFICES ASSUME NEW t \in Tasks
               PROVE  /\ found'[t].lease <= lease'[t]
                      /\ found'[t].lease = lease'[t] => found'[t].attempts = attempts'[t]
    BY DEF FoundIsPast
  <2>1. CASE found'[t] = found[t]
    BY <2>1, <1>2, <1>4 DEF FoundIsPast, TypeOK
  <2>2. CASE found'[t] = NotFound
    BY <2>2, <1>3, <1>4 DEF NotFound, AbsentIsBlank
  <2>3. CASE found'[t] = [lease |-> lease[t], attempts |-> attempts[t]] /\ UNCHANGED taskVars
    BY <2>3, <1>4 DEF taskVars
  <2> QED
    BY <2>1, <2>2, <2>3, MemoryShape
<1> QED
  BY <1>1, <1>3, <1>5, <1>6, <1>7

(* RepositoryInv holds in every reachable state.                           *)
LEMMA RepositoryInvHolds == Spec => []RepositoryInv
<1>1. Init => RepositoryInv
  <2>1. Init => TypeOK
    BY BoundsAreNat DEF Init, TypeOK, Idle, NoLease, NotFound, Session, HeldLease
  <2> QED
    BY <2>1 DEF Init, RepositoryInv, AbsentIsBlank, HeldIsPast, LeaseIdentifiesOwner, FoundIsPast, NotFound
<1> QED
  BY <1>1, RepositoryInvStep, PTL DEF Spec

(* lease_version fences: a worker that remembers the current lease of a    *)
(* RUNNING task is the worker the row names.                               *)
THEOREM LeaseFences == Spec => []LeaseIdentifiesOwner
<1>1. RepositoryInv => LeaseIdentifiesOwner
  BY DEF RepositoryInv
<1> QED
  BY <1>1, RepositoryInvHolds, PTL

-----------------------------------------------------------------------------
(* Action properties.                                                      *)

(* Terminal rows are never written again, by any stale worker or scan.     *)
THEOREM RepositoryTerminalStays == Spec => TerminalIsFinal
<1>1. ASSUME RepositoryInv, [Next]_vars, NEW t \in Tasks, state[t] \in Terminal
      PROVE  UNCHANGED <<state[t], attempts[t], lease[t], owner[t], audit[t]>>
  <2>1. CASE UNCHANGED taskVars
    BY <2>1 DEF taskVars
  <2>2. ASSUME NEW u \in Tasks, NEW new \in TaskState, NEW kind \in EventKind, RowStep(u, new, kind)
        PROVE  UNCHANGED <<state[t], attempts[t], lease[t], owner[t], audit[t]>>
    <3>1. u # t
      BY <1>1, <2>2 DEF RowStep, TaskMoves, Terminal
    <3> QED
      BY <1>1, <2>2, <3>1, RowStepEffect DEF RepositoryInv
  <2> QED
    BY <1>1, <2>1, <2>2, StepShape DEF RepositoryInv
<1>2. RepositoryInv /\ [Next]_vars =>
        [\A t \in Tasks : state[t] \in Terminal =>
            UNCHANGED <<state[t], attempts[t], lease[t], owner[t], audit[t]>>]_vars
  BY <1>1
<1> QED
  BY <1>2, RepositoryInvHolds, PTL DEF Spec, TerminalIsFinal

(* Whoever changes a row moves its lease_version on by one.                *)
THEOREM LeaseVersionAdvances == Spec => LeaseAdvances
<1>1. ASSUME RepositoryInv, [Next]_vars, NEW t \in Tasks,
             <<state[t], attempts[t], owner[t]>>' # <<state[t], attempts[t], owner[t]>>
      PROVE  lease'[t] = lease[t] + 1
  <2>1. CASE UNCHANGED taskVars
    BY <1>1, <2>1 DEF taskVars
  <2>2. ASSUME NEW u \in Tasks, NEW new \in TaskState, NEW kind \in EventKind, RowStep(u, new, kind)
        PROVE  lease'[t] = lease[t] + 1
    BY <1>1, <2>2, RowStepEffect DEF RepositoryInv
  <2> QED
    BY <1>1, <2>1, <2>2, StepShape DEF RepositoryInv
<1>2. RepositoryInv /\ [Next]_vars =>
        [\A t \in Tasks : <<state[t], attempts[t], owner[t]>>' # <<state[t], attempts[t], owner[t]>>
             => lease'[t] = lease[t] + 1]_vars
  BY <1>1
<1> QED
  BY <1>2, RepositoryInvHolds, PTL DEF Spec, LeaseAdvances

-----------------------------------------------------------------------------
(* Invariants that follow from StepShape.                                  *)

(* Dead letters belong to FAILED tasks that used up their attempts.        *)
THEOREM DeadLetters == Spec => []DeadLettersAreExhausted
<1>1. ASSUME RepositoryInv, [Next]_vars, DeadLettersAreExhausted PROVE DeadLettersAreExhausted'
  <2>1. CASE UNCHANGED taskVars
    BY <1>1, <2>1 DEF taskVars, DeadLettersAreExhausted
  <2>2. ASSUME NEW u \in Tasks, NEW new \in TaskState, NEW kind \in EventKind, RowStep(u, new, kind)
        PROVE  DeadLettersAreExhausted'
    <3> SUFFICES ASSUME NEW t \in dlq' PROVE state'[t] = "FAILED" /\ attempts'[t] = MaxAttempts
      BY DEF DeadLettersAreExhausted
    <3>1. t \in Tasks /\ (t \in dlq \/ (t = u /\ new = "FAILED"))
      BY <1>1, <2>2 DEF RowStep, RepositoryInv, TypeOK
    <3>2. CASE t # u
      BY <1>1, <2>2, <3>1, <3>2, RowStepEffect DEF RepositoryInv, DeadLettersAreExhausted
    <3>3. CASE t = u
      <4>1. t \notin dlq
        BY <1>1, <2>2, <3>3 DEF RowStep, TaskMoves, DeadLettersAreExhausted
      <4>2. new = "FAILED" /\ attempts[t] = MaxAttempts
        BY <2>2, <3>1, <3>3, <4>1 DEF RowStep
      <4> QED
        BY <1>1, <2>2, <3>3, <4>2, RowStepEffect DEF RepositoryInv
    <3> QED
      BY <3>2, <3>3
  <2> QED
    BY <1>1, <2>1, <2>2, StepShape DEF RepositoryInv
<1>2. Init => DeadLettersAreExhausted
  BY DEF Init, DeadLettersAreExhausted
<1> QED
  BY <1>1, <1>2, RepositoryInvHolds, PTL DEF Spec

(* The row that RowStep appends to the ledger of its task.                 *)
LEMMA RowStepAudit ==
  ASSUME TypeOK, NEW t \in Tasks, NEW new \in TaskState, NEW kind \in EventKind, RowStep(t, new, kind)
  PROVE  /\ audit[t] \in Seq(AuditRow)
         /\ [prev |-> state[t], new |-> new, lease |-> lease[t] + 1] \in AuditRow
         /\ audit'[t] = Append(audit[t], [prev |-> state[t], new |-> new, lease |-> lease[t] + 1])
         /\ Len(audit'[t]) = Len(audit[t]) + 1 /\ audit'[t] # <<>>
         /\ \A i \in 1..Len(audit[t]) : audit'[t][i] = audit[t][i]
         /\ audit'[t][Len(audit[t]) + 1] = [prev |-> state[t], new |-> new, lease |-> lease[t] + 1]
<1>1. audit[t] \in Seq(AuditRow) /\ [prev |-> state[t], new |-> new, lease |-> lease[t] + 1] \in AuditRow
  <2>1. audit[t] \in Seq(AuditRow) /\ state[t] \in TaskState \cup {"NONE"} /\ lease[t] + 1 \in Nat
    BY DEF TypeOK
  <2> QED
    BY <2>1 DEF AuditRow
<1>2. audit'[t] = Append(audit[t], [prev |-> state[t], new |-> new, lease |-> lease[t] + 1])
  <2>1. audit' = [audit EXCEPT ![t] = Append(audit[t], [prev |-> state[t], new |-> new, lease |-> lease[t] + 1])]
    BY DEF RowStep, Transition, record_transition
  <2>2. DOMAIN audit = Tasks
    BY DEF TypeOK
  <2> QED
    BY <2>1, <2>2
<1> DEFINE row == [prev |-> state[t], new |-> new, lease |-> lease[t] + 1]
<1> HIDE DEF row
<1>3. ASSUME NEW rows \in Seq(AuditRow), row \in AuditRow
      PROVE  /\ Len(Append(rows, row)) = Len(rows) + 1
             /\ \A i \in 1..Len(rows) : Append(rows, row)[i] = rows[i]
             /\ Append(rows, row)[Len(rows) + 1] = row
             /\ Append(rows, row) # <<>>
  BY <1>3
<1> QED
  BY <1>1, <1>2, <1>3 DEF row

(* The ledger is the history of the row, through every interleaving.       *)
THEOREM AuditHistory == Spec => []AuditIsHistory
<1>1. ASSUME RepositoryInv, [Next]_vars, AuditIsHistory PROVE AuditIsHistory'
  <2>1. CASE UNCHANGED taskVars
    BY <1>1, <2>1 DEF taskVars, AuditIsHistory
  <2>2. ASSUME NEW u \in Tasks, NEW new \in TaskState, NEW kind \in EventKind, RowStep(u, new, kind)
        PROVE  AuditIsHistory'
    <3> DEFINE Chained(rows, s, v) ==
                 /\ rows = <<>> <=> s = "NONE"
                 /\ rows # <<>> => /\ rows[1].prev = "NONE"
                                   /\ rows[Len(rows)].new = s
                                   /\ rows[Len(rows)].lease = v
                 /\ \A i \in 1..(Len(rows) - 1) : /\ rows[i].new = rows[i + 1].prev
                                                  /\ rows[i].lease < rows[i + 1].lease
    <3> SUFFICES ASSUME NEW t \in Tasks PROVE Chained(audit'[t], state'[t], lease'[t])
      BY DEF AuditIsHistory
    <3>1. Chained(audit[t], state[t], lease[t])
      BY <1>1 DEF AuditIsHistory
    <3>2. CASE t # u
      <4>1. audit'[t] = audit[t] /\ state'[t] = state[t] /\ lease'[t] = lease[t]
        BY <1>1, <2>2, <3>2, RowStepEffect DEF RepositoryInv
      <4> QED
        BY <3>1, <4>1
    <3>3. CASE t = u
      <4> DEFINE row == [prev |-> state[t], new |-> new, lease |-> lease[t] + 1]
                 rows == audit[t]
      <4>1. /\ rows \in Seq(AuditRow) /\ Len(rows) \in Nat
            /\ Len(audit'[t]) = Len(rows) + 1 /\ audit'[t] # <<>>
            /\ \A i \in 1..Len(rows) : audit'[t][i] = rows[i]
            /\ audit'[t][Len(rows) + 1] = row
            /\ state'[t] = new /\ new # "NONE" /\ lease'[t] = lease[t] + 1 /\ lease[t] \in Nat
        <5>1. rows \in Seq(AuditRow) /\ audit'[t] # <<>> /\ lease[t] \in Nat
          BY <1>1, <2>2, <3>3, RowStepAudit DEF RepositoryInv, TypeOK
        <5>2. Len(rows) \in Nat
          BY <5>1
        <5> QED
          BY <1>1, <2>2, <3>3, <5>1, <5>2, RowStepAudit, RowStepEffect DEF RepositoryInv
      <4>2. row.prev = state[t] /\ row.new = new /\ row.lease = lease[t] + 1
        OBVIOUS
      <4>3. rows = <<>> => audit'[t][1].prev = "NONE"
        BY <3>1, <4>1, <4>2
      <4>4. ASSUME rows # <<>> PROVE audit'[t][1].prev = "NONE"
        <5>1. 1 \in 1..Len(rows)
          BY <4>1, <4>4
        <5> QED
          BY <3>1, <4>1, <4>4, <5>1
      <4>5. audit'[t][Len(audit'[t])].new = state'[t] /\ audit'[t][Len(audit'[t])].lease = lease'[t]
        BY <4>1, <4>2
      <4>6. ASSUME NEW i \in 1..(Len(audit'[t]) - 1)
            PROVE  audit'[t][i].new = audit'[t][i + 1].prev /\ audit'[t][i].lease < audit'[t][i + 1].lease
        <5>1. CASE i < Len(rows)
          <6>1. i \in 1..(Len(rows) - 1) /\ i \in 1..Len(rows) /\ i + 1 \in 1..Len(rows)
            BY <4>1, <5>1
          <6> QED
            BY <3>1, <4>1, <6>1
        <5>2. CASE i = Len(rows)
          <6>1. rows # <<>> /\ i \in 1..Len(rows)
            BY <4>1, <5>2
          <6>2. rows[i].new = state[t] /\ rows[i].lease = lease[t]
            BY <3>1, <5>2, <6>1
          <6>3. audit'[t][i] = rows[i] /\ audit'[t][i + 1] = row
            BY <4>1, <5>2, <6>1
          <6> QED
            BY <4>1, <4>2, <6>2, <6>3
        <5> QED
          BY <4>1, <5>1, <5>2
      <4> QED
        BY <4>1, <4>3, <4>4, <4>5, <4>6
    <3> QED
      BY <3>2, <3>3
  <2> QED
    BY <1>1, <2>1, <2>2, StepShape DEF RepositoryInv
<1>2. Init => AuditIsHistory
  BY DEF Init, AuditIsHistory
<1> QED
  BY <1>1, <1>2, RepositoryInvHolds, PTL DEF Spec

(* Keys in the outbox never carry a lease_version beyond the row's, so the *)
(* key of the next transition is always new.                               *)
KeysArePast ==
    \A t \in Tasks : /\ IsFiniteSet(outbox[t])
                     /\ \A key \in outbox[t] : key.lease <= lease[t]

(* One event per committed transition: deduplication never swallows one.   *)
THEOREM NoEventLost == Spec => []EveryTransitionAnnounced
<1>1. ASSUME RepositoryInv, [Next]_vars, KeysArePast, EveryTransitionAnnounced PROVE (KeysArePast /\ EveryTransitionAnnounced)'
  <2>1. CASE UNCHANGED taskVars
    BY <1>1, <2>1 DEF taskVars, KeysArePast, EveryTransitionAnnounced
  <2>2. ASSUME NEW u \in Tasks, NEW new \in TaskState, NEW kind \in EventKind, RowStep(u, new, kind)
        PROVE  (KeysArePast /\ EveryTransitionAnnounced)'
    <3> DEFINE Announced(keys, rows, v) == /\ IsFiniteSet(keys) /\ Cardinality(keys) = Len(rows)
                                           /\ \A key \in keys : key.lease <= v
    <3> SUFFICES ASSUME NEW t \in Tasks PROVE Announced(outbox'[t], audit'[t], lease'[t])
      BY DEF KeysArePast, EveryTransitionAnnounced
    <3>1. Announced(outbox[t], audit[t], lease[t])
      BY <1>1 DEF KeysArePast, EveryTransitionAnnounced
    <3>2. CASE t # u
      <4>1. outbox'[t] = outbox[t] /\ audit'[t] = audit[t] /\ lease'[t] = lease[t]
        BY <1>1, <2>2, <3>2, RowStepEffect DEF RepositoryInv
      <4> QED
        BY <3>1, <4>1
    <3>3. CASE t = u
      <4> DEFINE key0 == [kind |-> kind, lease |-> lease[t] + 1]
      <4>1. outbox'[t] = outbox[t] \cup {key0}
        BY <1>1, <2>2, <3>3 DEF RowStep, Transition, stage_event, RepositoryInv, TypeOK
      <4>2. lease[t] \in Nat /\ lease'[t] = lease[t] + 1 /\ Len(audit'[t]) = Len(audit[t]) + 1
        BY <1>1, <2>2, <3>3, RowStepEffect, RowStepAudit DEF RepositoryInv, TypeOK
      <4>3. outbox[t] \subseteq EventKey
        BY <1>1 DEF RepositoryInv, TypeOK
      <4>4. key0 \notin outbox[t]
        <5>1. key0.lease = lease[t] + 1
          OBVIOUS
        <5> QED
          BY <3>1, <4>2, <5>1
      <4>5. IsFiniteSet(outbox'[t]) /\ Cardinality(outbox'[t]) = Cardinality(outbox[t]) + 1
        <5>1. IsFiniteSet(outbox[t])
          BY <3>1
        <5> HIDE DEF key0, Announced
        <5> QED
          BY <4>1, <4>4, <5>1, FS_AddElement
      <4>6. ASSUME NEW key \in outbox'[t] PROVE key.lease <= lease'[t]
        BY <3>1, <4>1, <4>2, <4>3 DEF EventKey
      <4> QED
        BY <3>1, <4>2, <4>5, <4>6
    <3> QED
      BY <3>2, <3>3
  <2> QED
    BY <1>1, <2>1, <2>2, StepShape DEF RepositoryInv
<1>2. Init => KeysArePast /\ EveryTransitionAnnounced
  BY FS_EmptySet DEF Init, KeysArePast, EveryTransitionAnnounced
<1> QED
  BY <1>1, <1>2, RepositoryInvHolds, PTL DEF Spec

(* The rows of a ledger that grant the task; finite, because a ledger is a *)
(* sequence.                                                               *)
Grants(rows) == {i \in DOMAIN rows : rows[i].new = "RUNNING"}

(* An entry adds a grant if it leads to RUNNING.                           *)
LEMMA GrantsAppend ==
  ASSUME NEW rows \in Seq(AuditRow), NEW row \in AuditRow
  PROVE  /\ IsFiniteSet(Grants(rows))
         /\ Cardinality(Grants(rows)) \in Nat
         /\ row.new = "RUNNING" => Cardinality(Grants(Append(rows, row))) = Cardinality(Grants(rows)) + 1
         /\ row.new # "RUNNING" => Grants(Append(rows, row)) = Grants(rows)
<1>1. DOMAIN rows = 1..Len(rows) /\ Len(rows) \in Nat
  OBVIOUS
<1>2. DOMAIN Append(rows, row) = 1..(Len(rows) + 1)
  OBVIOUS
<1>3. (\A i \in 1..Len(rows) : Append(rows, row)[i] = rows[i]) /\ Append(rows, row)[Len(rows) + 1] = row
  OBVIOUS
<1>4. IsFiniteSet(Grants(rows)) /\ Cardinality(Grants(rows)) \in Nat
  <2>1. IsFiniteSet(1..Len(rows))
    BY <1>1, FS_Interval
  <2>2. Grants(rows) \subseteq 1..Len(rows)
    BY <1>1 DEF Grants
  <2> QED
    BY <2>1, <2>2, FS_Subset, FS_CardinalityType
<1>5. Len(rows) + 1 \notin Grants(rows)
  BY <1>1 DEF Grants
<1>6. ASSUME row.new = "RUNNING"
      PROVE  Grants(Append(rows, row)) = Grants(rows) \cup {Len(rows) + 1}
  BY <1>1, <1>2, <1>3, <1>6 DEF Grants
<1>7. ASSUME row.new # "RUNNING"
      PROVE  Grants(Append(rows, row)) = Grants(rows)
  BY <1>1, <1>2, <1>3, <1>7 DEF Grants
<1>8. ASSUME row.new = "RUNNING"
      PROVE  Cardinality(Grants(Append(rows, row))) = Cardinality(Grants(rows)) + 1
  BY <1>4, <1>5, <1>6, <1>8, FS_AddElement
<1> QED
  BY <1>4, <1>7, <1>8

(* attempts is the number of grants the ledger shows, so no mixture of     *)
(* failures and recoveries loses or double-counts one.                     *)
THEOREM AttemptsAreGrants == Spec => []AttemptsCountGrants
<1>1. ASSUME RepositoryInv, [Next]_vars, AttemptsCountGrants PROVE AttemptsCountGrants'
  <2>1. CASE UNCHANGED taskVars
    BY <1>1, <2>1 DEF taskVars, AttemptsCountGrants
  <2>2. ASSUME NEW u \in Tasks, NEW new \in TaskState, NEW kind \in EventKind, RowStep(u, new, kind)
        PROVE  AttemptsCountGrants'
    <3> SUFFICES ASSUME NEW t \in Tasks PROVE attempts'[t] = Cardinality(Grants(audit'[t]))
      BY DEF AttemptsCountGrants, Grants
    <3>1. attempts[t] = Cardinality(Grants(audit[t]))
      BY <1>1 DEF AttemptsCountGrants, Grants
    <3>2. CASE t # u
      BY <1>1, <2>2, <3>1, <3>2, RowStepEffect DEF RepositoryInv
    <3>3. CASE t = u
      <4> DEFINE row == [prev |-> state[t], new |-> new, lease |-> lease[t] + 1]
      <4>1. audit[t] \in Seq(AuditRow) /\ row \in AuditRow /\ audit'[t] = Append(audit[t], row)
        BY <1>1, <2>2, <3>3, RowStepAudit DEF RepositoryInv
      <4>2. row.new = new
        OBVIOUS
      <4>3. attempts'[t] = (IF new = "RUNNING" THEN attempts[t] + 1 ELSE attempts[t])
        BY <1>1, <2>2, <3>3, RowStepEffect DEF RepositoryInv
      <4> HIDE DEF row
      <4> QED
        BY <3>1, <4>1, <4>2, <4>3, GrantsAppend
    <3> QED
      BY <3>2, <3>3
  <2> QED
    BY <1>1, <2>1, <2>2, StepShape DEF RepositoryInv
<1>2. Init => AttemptsCountGrants
  <2> SUFFICES ASSUME Init, NEW t \in Tasks
               PROVE  attempts[t] = Cardinality({i \in DOMAIN audit[t] : audit[t][i].new = "RUNNING"})
    BY DEF AttemptsCountGrants
  <2>1. attempts[t] = 0 /\ DOMAIN audit[t] = {}
    BY DEF Init
  <2>2. {i \in DOMAIN audit[t] : audit[t][i].new = "RUNNING"} = {}
    BY <2>1
  <2> QED
    BY <2>1, <2>2, FS_EmptySet
<1> QED
  BY <1>1, <1>2, RepositoryInvHolds, PTL DEF Spec

-----------------------------------------------------------------------------
(* Refinement.                                                             *)

(* Every step of the tables is a step of TaskAuthority or leaves it alone, *)
(* so the repository grants each task at most MaxAttempts times and ends   *)
(* every grant once.                                                       *)
THEOREM Refinement == Spec => ImplementsTaskAuthority
<1>1. Init => Authority!AuthorityInit
  BY DEF Init, Authority!AuthorityInit, PhaseOf
<1>2. ASSUME RepositoryInv, [Next]_vars PROVE [Authority!AuthorityNext]_Authority!authorityVars
  <2>1. CASE UNCHANGED taskVars
    BY <2>1 DEF taskVars, Authority!authorityVars
  <2>2. ASSUME NEW t \in Tasks, NEW new \in TaskState, NEW kind \in EventKind, RowStep(t, new, kind)
        PROVE  [Authority!AuthorityNext]_Authority!authorityVars
    <3> DEFINE phase == [u \in Tasks |-> PhaseOf(state[u])]
               phaseP == [u \in Tasks |-> PhaseOf(state'[u])]
    <3>1. state' = [state EXCEPT ![t] = new] /\ DOMAIN state = Tasks /\ DOMAIN attempts = Tasks /\ attempts \in [Tasks -> 0..MaxAttempts]
      BY <1>2, <2>2 DEF RowStep, Transition, RepositoryInv, TypeOK
    <3>2. phaseP = [phase EXCEPT ![t] = PhaseOf(new)]
      BY <3>1
    <3>3. new # "RUNNING" => attempts' = attempts
      BY <2>2, <3>1 DEF RowStep
    <3>4. CASE <<state[t], new>> \in {<<"PENDING", "QUEUED">>}
      <4>1. phaseP = phase
        BY <3>2, <3>4 DEF PhaseOf
      <4> QED
        BY <3>3, <3>4, <4>1 DEF Authority!authorityVars
    <3>5. CASE <<state[t], new>> = <<"NONE", "PENDING">>
      BY <3>2, <3>3, <3>5 DEF Authority!AuthorityNext, Authority!Submit, Authority!Move, PhaseOf
    <3>6. CASE <<state[t], new>> \in {<<"PENDING", "RUNNING">>, <<"QUEUED", "RUNNING">>}
      BY <2>2, <3>1, <3>2, <3>6 DEF RowStep, Authority!AuthorityNext, Authority!Grant, Authority!Move, PhaseOf
    <3>7. CASE <<state[t], new>> = <<"RUNNING", "COMPLETED">>
      BY <3>2, <3>3, <3>7 DEF Authority!AuthorityNext, Authority!Finish, Authority!Move, PhaseOf
    <3>8. CASE <<state[t], new>> = <<"RUNNING", "QUEUED">>
      BY <2>2, <3>2, <3>3, <3>8 DEF RowStep, Authority!AuthorityNext, Authority!GiveBack, Authority!Move, PhaseOf
    <3>9. CASE <<state[t], new>> = <<"RUNNING", "FAILED">>
      BY <2>2, <3>2, <3>3, <3>9 DEF RowStep, Authority!AuthorityNext, Authority!Exhaust, Authority!Move, PhaseOf
    <3> QED
      BY <2>2, <3>4, <3>5, <3>6, <3>7, <3>8, <3>9 DEF RowStep, TaskMoves
  <2> QED
    BY <1>2, <2>1, <2>2, StepShape DEF RepositoryInv
<1> QED
  BY <1>1, <1>2, RepositoryInvHolds, PTL DEF Spec, ImplementsTaskAuthority, Authority!AuthoritySpec



-----------------------------------------------------------------------------
(* The queue.                                                              *)

(* The ids on a queue.                                                     *)
Waiting(q) == {q[i] : i \in DOMAIN q}
(* No id is on the queue twice.                                            *)
Distinct(q) == \A i, j \in DOMAIN q : q[i] = q[j] => i = j

(* A new id at the right end: enqueue.                                     *)
LEMMA AppendLine ==
  ASSUME NEW q \in Seq(Tasks), Distinct(q), NEW t \in Tasks \ Waiting(q)
  PROVE  Distinct(Append(q, t)) /\ Waiting(Append(q, t)) = Waiting(q) \cup {t} /\ Append(q, t) \in Seq(Tasks)
<1>1. Len(q) \in Nat /\ DOMAIN q = 1..Len(q) /\ DOMAIN Append(q, t) = 1..(Len(q) + 1)
  OBVIOUS
<1>2. \A i \in 1..(Len(q) + 1) : Append(q, t)[i] = IF i \in 1..Len(q) THEN q[i] ELSE t
  BY <1>1
<1>3. Append(q, t) \in Seq(Tasks)
  OBVIOUS
<1>4. Distinct(Append(q, t))
  BY <1>1, <1>2 DEF Distinct, Waiting
<1>5. Waiting(Append(q, t)) = Waiting(q) \cup {t}
  BY <1>1, <1>2, Len(q) + 1 \in 1..(Len(q) + 1) DEF Waiting
<1> QED
  BY <1>3, <1>4, <1>5

(* A new id at the left end: requeue.                                      *)
LEMMA PushLine ==
  ASSUME NEW q \in Seq(Tasks), Distinct(q), NEW t \in Tasks \ Waiting(q)
  PROVE  Distinct(<<t>> \o q) /\ Waiting(<<t>> \o q) = Waiting(q) \cup {t} /\ <<t>> \o q \in Seq(Tasks)
<1>1. Len(q) \in Nat /\ DOMAIN q = 1..Len(q) /\ DOMAIN (<<t>> \o q) = 1..(Len(q) + 1)
  OBVIOUS
<1>2. \A i \in 1..(Len(q) + 1) : (<<t>> \o q)[i] = IF i = 1 THEN t ELSE q[i - 1]
  BY <1>1
<1>3. <<t>> \o q \in Seq(Tasks)
  OBVIOUS
<1> DEFINE r == <<t>> \o q
<1> HIDE DEF r
<1>4. Distinct(r)
  BY <1>1, <1>2 DEF Distinct, Waiting, r
<1>5. Waiting(r) = Waiting(q) \cup {t}
  <2>1. Waiting(r) \subseteq Waiting(q) \cup {t}
    BY <1>1, <1>2 DEF Waiting, r
  <2>2. t \in Waiting(r)
    BY <1>1, <1>2 DEF Waiting, r
  <2>3. ASSUME NEW i \in DOMAIN q PROVE q[i] \in Waiting(r)
    <3>1. i + 1 \in DOMAIN r /\ r[i + 1] = q[i]
      BY <1>1, <1>2 DEF r
    <3> QED
      BY <3>1 DEF Waiting
  <2> QED
    BY <2>1, <2>2, <2>3 DEF Waiting
<1> QED
  BY <1>3, <1>4, <1>5 DEF r

(* The id that dequeue takes, from either end, is gone afterwards.         *)
LEMMA PopLine ==
  ASSUME NEW q \in Seq(Tasks), Distinct(q), q # <<>>,
         NEW r, r = (IF Redis THEN Front(q) ELSE Tail(q)),
         NEW x, x = (IF Redis THEN Last(q) ELSE Head(q))
  PROVE  x \in Waiting(q) /\ Distinct(r) /\ Waiting(r) = Waiting(q) \ {x} /\ r \in Seq(Tasks)
<1>1. Len(q) \in Nat /\ Len(q) > 0 /\ DOMAIN q = 1..Len(q)
  OBVIOUS
<1>2. CASE Redis
  <2>1. x = q[Len(q)] /\ r = SubSeq(q, 1, Len(q) - 1)
    BY <1>2 DEF Last, Front
  <2>2. DOMAIN r = 1..(Len(q) - 1) /\ r \in Seq(Tasks) /\ \A i \in 1..(Len(q) - 1) : r[i] = q[i]
    BY <1>1, <2>1
  <2>3. Len(q) \in 1..Len(q)
    BY <1>1
  <2>4. Distinct(r)
    BY <1>1, <2>2 DEF Distinct
  <2>5. ASSUME NEW i \in DOMAIN q, q[i] # x PROVE q[i] \in Waiting(r)
    <3>1. i \in DOMAIN r /\ r[i] = q[i]
      BY <1>1, <2>1, <2>2, <2>5
    <3> QED
      BY <3>1 DEF Waiting
  <2>6. ASSUME NEW i \in DOMAIN r PROVE r[i] \in Waiting(q) /\ r[i] # x
    <3>1. i \in DOMAIN q /\ r[i] = q[i] /\ i # Len(q)
      BY <1>1, <2>2
    <3> QED
      BY <1>1, <2>1, <2>3, <3>1 DEF Waiting, Distinct
  <2>7. x \in Waiting(q)
    BY <1>1, <2>1, <2>3 DEF Waiting
  <2>8. Waiting(q) \ {x} \subseteq Waiting(r)
    BY <2>5 DEF Waiting
  <2>9. Waiting(r) \subseteq Waiting(q) \ {x}
    <3> SUFFICES ASSUME NEW y \in Waiting(r) PROVE y \in Waiting(q) /\ y # x
      OBVIOUS
    <3>1. PICK i \in DOMAIN r : y = r[i]
      BY DEF Waiting
    <3> QED
      BY <2>6, <3>1
  <2> QED
    BY <2>2, <2>4, <2>7, <2>8, <2>9
<1>3. CASE ~Redis
  <2>1. x = q[1] /\ r = Tail(q)
    BY <1>3
  <2>2. DOMAIN r = 1..(Len(q) - 1) /\ r \in Seq(Tasks) /\ \A i \in 1..(Len(q) - 1) : r[i] = q[i + 1]
    BY <1>1, <2>1
  <2>3. Distinct(r)
    <3> SUFFICES ASSUME NEW i \in DOMAIN r, NEW j \in DOMAIN r, r[i] = r[j] PROVE i = j
      BY DEF Distinct
    <3>0. i \in 1..(Len(q) - 1) /\ j \in 1..(Len(q) - 1)
      BY <2>2
    <3>1. i \in Nat /\ j \in Nat /\ i + 1 \in 1..Len(q) /\ j + 1 \in 1..Len(q)
      BY <1>1, <3>0
    <3>2. i + 1 = j + 1
      BY <1>1, <2>2, <3>0, <3>1 DEF Distinct
    <3> QED
      BY <3>1, <3>2
  <2>4. ASSUME NEW i \in DOMAIN q, q[i] # x PROVE q[i] \in Waiting(r)
    <3>1. i # 1 /\ i \in 1..Len(q)
      BY <1>1, <2>1, <2>4
    <3>2. i - 1 \in 1..(Len(q) - 1)
      BY <1>1, <3>1
    <3>3. r[i - 1] = q[(i - 1) + 1] /\ (i - 1) + 1 = i
      BY <2>2, <3>1, <3>2
    <3> QED
      BY <2>2, <3>2, <3>3 DEF Waiting
  <2>5. ASSUME NEW i \in DOMAIN r PROVE r[i] \in Waiting(q) /\ r[i] # x
    <3>1. i + 1 \in DOMAIN q /\ 1 \in DOMAIN q /\ r[i] = q[i + 1] /\ i + 1 # 1
      BY <1>1, <2>2
    <3> QED
      BY <3>1, <2>1 DEF Waiting, Distinct
  <2>6. x \in Waiting(q)
    BY <1>1, <2>1, 1 \in 1..Len(q) DEF Waiting
  <2>8. Waiting(q) \ {x} \subseteq Waiting(r)
    BY <2>4 DEF Waiting
  <2>9. Waiting(r) \subseteq Waiting(q) \ {x}
    <3> SUFFICES ASSUME NEW y \in Waiting(r) PROVE y \in Waiting(q) /\ y # x
      OBVIOUS
    <3>1. PICK i \in DOMAIN r : y = r[i]
      BY DEF Waiting
    <3> QED
      BY <2>5, <3>1
  <2> QED
    BY <2>2, <2>3, <2>6, <2>8, <2>9
<1> QED
  BY <1>2, <1>3

-----------------------------------------------------------------------------
(* Types, and how the program counter of a worker, the id it dequeued and  *)
(* its open transaction go together.                                       *)

RowTypes ==
    /\ state \in [Tasks -> TaskState \cup {"NONE"}]
    /\ attempts \in [Tasks -> Nat]
    /\ lease \in [Tasks -> Nat]
    /\ owner \in [Tasks -> Workers \cup {NoWorker}]
    /\ audit \in [Tasks -> Seq(AuditRow)]
    /\ \A t \in Tasks : state[t] = "NONE" => lease[t] = 0

ClientTypes ==
    /\ session \in [Workers -> Session]
    /\ held \in [Workers -> HeldLease]
    /\ pc \in [Workers -> PC]
    /\ id \in [Workers -> Tasks \cup {NoTask}]
    /\ task \in [Workers -> RowType]
    /\ seen \in [Workers -> RowType]

Linked(w) ==
    /\ pc[w] = "idle" <=> id[w] = NoTask
    /\ pc[w] \in {"assigning", "completing", "recording"} <=> session[w] # Idle
    /\ session[w] # Idle => session[w].task = id[w]
    /\ pc[w] = "idle" => task[w] = NoRow

Types ==
    /\ RowTypes
    /\ ClientTypes
    /\ QueueTypeOK
    /\ submit \in [Tasks -> Submit]
    /\ crashes \in 0..MaxCrashes
    /\ \A w \in Workers : Linked(w)

rowVars == <<state, attempts, lease, owner, audit>>

(* What every transaction that writes a task row does to it.               *)
Write(t, new, version) ==
    /\ state' = [state EXCEPT ![t] = new]
    /\ lease' = [lease EXCEPT ![t] = version]
    /\ audit' = [audit EXCEPT ![t] = Append(@, [prev |-> state[t], new |-> new, lease |-> version])]
    /\ attempts' = [attempts EXCEPT ![t] = IF new = "RUNNING" THEN @ + 1 ELSE @]
    /\ \E o \in Workers \cup {NoWorker} : owner' = [owner EXCEPT ![t] = o]

(* Write changes one row, by one ledger entry.                             *)
LEMMA WriteEffect ==
  ASSUME RowTypes, NEW t \in Tasks, NEW new \in TaskState, NEW version \in Nat, Write(t, new, version)
  PROVE  /\ RowTypes'
         /\ state'[t] = new /\ lease'[t] = version
         /\ attempts'[t] = IF new = "RUNNING" THEN attempts[t] + 1 ELSE attempts[t]
         /\ audit'[t] = Append(audit[t], [prev |-> state[t], new |-> new, lease |-> version])
         /\ [prev |-> state[t], new |-> new, lease |-> version] \in AuditRow
         /\ \A u \in Tasks \ {t} : /\ state'[u] = state[u] /\ lease'[u] = lease[u] /\ owner'[u] = owner[u]
                                   /\ attempts'[u] = attempts[u] /\ audit'[u] = audit[u]
<1> DEFINE row == [prev |-> state[t], new |-> new, lease |-> version]
<1>1. row \in AuditRow
  BY DEF RowTypes, AuditRow
<1>2. audit' = [audit EXCEPT ![t] = Append(audit[t], row)] /\ audit \in [Tasks -> Seq(AuditRow)]
  BY DEF Write, RowTypes
<1> HIDE DEF row
<1>3. Append(audit[t], row) \in Seq(AuditRow)
  BY <1>1, <1>2
<1>4. /\ audit' \in [Tasks -> Seq(AuditRow)] /\ audit'[t] = Append(audit[t], row)
      /\ \A u \in Tasks \ {t} : audit'[u] = audit[u]
  BY <1>2, <1>3
<1>5. new # "NONE"
  BY DEF TaskState
<1>6. /\ state' \in [Tasks -> TaskState \cup {"NONE"}] /\ state'[t] = new
      /\ lease' \in [Tasks -> Nat] /\ lease'[t] = version
      /\ \A u \in Tasks \ {t} : state'[u] = state[u] /\ lease'[u] = lease[u]
  BY DEF Write, RowTypes
<1>7. /\ owner' \in [Tasks -> Workers \cup {NoWorker}]
      /\ \A u \in Tasks \ {t} : owner'[u] = owner[u]
  BY DEF Write, RowTypes
<1>8. /\ attempts' \in [Tasks -> Nat] /\ \A u \in Tasks \ {t} : attempts'[u] = attempts[u]
      /\ attempts'[t] = IF new = "RUNNING" THEN attempts[t] + 1 ELSE attempts[t]
  BY DEF Write, RowTypes
<1>9. \A u \in Tasks : state'[u] = "NONE" => lease'[u] = 0
  BY <1>5, <1>6 DEF RowTypes
<1> QED
  BY <1>1, <1>4, <1>6, <1>7, <1>8, <1>9 DEF RowTypes, row

(* Transition, with the columns its caller sets, is a Write.               *)
LEMMA TransitionWrites ==
  ASSUME RowTypes, NEW t \in Tasks, NEW new, NEW version, NEW kind, Transition(t, new, version, kind),
         attempts' = [attempts EXCEPT ![t] = IF new = "RUNNING" THEN @ + 1 ELSE @],
         NEW o \in Workers \cup {NoWorker}, owner' = [owner EXCEPT ![t] = o]
  PROVE  Write(t, new, version)
BY DEF Transition, record_transition, Write

(* A column that is left alone is one that is set to what it was.          *)
LEMMA KeepFunctions ==
  ASSUME RowTypes, NEW t \in Tasks
  PROVE  /\ owner = [owner EXCEPT ![t] = owner[t]] /\ owner[t] \in Workers \cup {NoWorker}
         /\ attempts = [attempts EXCEPT ![t] = attempts[t]]
BY DEF RowTypes

(* The transactions of the repository are Writes: create_task,             *)
LEMMA CreateWrites ==
  ASSUME RowTypes, NEW t \in Tasks, create_task(t)
  PROVE  Write(t, "PENDING", lease[t] + 1) /\ state[t] = "NONE" /\ owner' = owner
<1>1. lease[t] + 1 = 1 /\ Transition(t, "PENDING", 1, "task_created") /\ attempts' = attempts /\ owner' = owner /\ state[t] = "NONE"
  BY DEF create_task, RowTypes
<1>2. attempts' = [attempts EXCEPT ![t] = IF "PENDING" = "RUNNING" THEN @ + 1 ELSE @]
  BY <1>1, KeepFunctions
<1> QED
  BY <1>1, <1>2, KeepFunctions, TransitionWrites

(* atomic_transition,                                                      *)
LEMMA CasWrites ==
  ASSUME RowTypes, NEW t \in Tasks, NEW expected, NEW from, NEW new, NEW version,
         atomic_transition(t, expected, from, new, version)
  PROVE  Write(t, new, version) /\ lease[t] = expected /\ state[t] \in from /\ owner' = owner
BY KeepFunctions, TransitionWrites DEF atomic_transition

(* assign_task,                                                            *)
LEMMA AssignWrites ==
  ASSUME RowTypes, NEW w \in Workers, session[w].task \in Tasks, assign_task(w)
  PROVE  LET t == session[w].task IN
         /\ Write(t, "RUNNING", lease[t] + 1)
         /\ owner'[t] = w
         /\ CanAssign(t)
         /\ held' = [held EXCEPT ![w] = [task |-> t, lease |-> lease[t] + 1, attempts |-> attempts[t] + 1]]
         /\ session' = [session EXCEPT ![w] = Idle]
BY TransitionWrites DEF assign_task, RowTypes

(* complete_task,                                                          *)
LEMMA CompleteWrites ==
  ASSUME RowTypes, NEW w \in Workers, session[w].task \in Tasks, complete_task(w)
  PROVE  LET t == session[w].task IN
         /\ Write(t, "COMPLETED", lease[t] + 1)
         /\ state[t] = "RUNNING"
         /\ owner' = owner
         /\ held' = [held EXCEPT ![w] = NoLease]
         /\ session' = [session EXCEPT ![w] = Idle]
<1> DEFINE t == session[w].task
<1>1. /\ Transition(t, "COMPLETED", lease[t] + 1, "task_completed") /\ attempts' = attempts /\ owner' = owner
      /\ state[t] = "RUNNING"
      /\ held' = [held EXCEPT ![w] = NoLease] /\ session' = [session EXCEPT ![w] = Idle]
  BY DEF complete_task, LeaseIsLive
<1>2. attempts' = [attempts EXCEPT ![t] = IF "COMPLETED" = "RUNNING" THEN @ + 1 ELSE @]
  BY <1>1, KeepFunctions
<1> HIDE DEF t
<1>3. t \in Tasks
  BY DEF t
<1>4. Write(t, "COMPLETED", lease[t] + 1)
  BY <1>1, <1>2, <1>3, KeepFunctions, TransitionWrites
<1> QED
  BY <1>1, <1>4 DEF t

(* and record_execution_failure.                                           *)
LEMMA FailureWrites ==
  ASSUME RowTypes, NEW w \in Workers, session[w].task \in Tasks, record_execution_failure(w)
  PROVE  LET t == session[w].task IN
         /\ \/ Write(t, "FAILED", lease[t] + 1)
            \/ Write(t, "QUEUED", lease[t] + 1) /\ attempts[t] < MaxAttempts
         /\ state[t] = "RUNNING"
         /\ held' = [held EXCEPT ![w] = NoLease]
         /\ session' = [session EXCEPT ![w] = Idle]
<1> DEFINE t == session[w].task
<1>1. /\ attempts' = attempts /\ state[t] = "RUNNING"
      /\ held' = [held EXCEPT ![w] = NoLease] /\ session' = [session EXCEPT ![w] = Idle]
      /\ \/ Transition(t, "FAILED", lease[t] + 1, "task_failure") /\ owner' = owner
         \/ /\ Transition(t, "QUEUED", lease[t] + 1, "task_transition") /\ attempts[t] < MaxAttempts
            /\ owner' = [owner EXCEPT ![t] = NoWorker]
  BY DEF record_execution_failure, LeaseIsLive
<1> HIDE DEF t
<1>2. t \in Tasks
  BY DEF t
<1>3. /\ attempts' = [attempts EXCEPT ![t] = IF "FAILED" = "RUNNING" THEN @ + 1 ELSE @]
      /\ attempts' = [attempts EXCEPT ![t] = IF "QUEUED" = "RUNNING" THEN @ + 1 ELSE @]
  BY <1>1, <1>2, KeepFunctions
<1>4. Transition(t, "FAILED", lease[t] + 1, "task_failure") /\ owner' = owner => Write(t, "FAILED", lease[t] + 1)
  BY <1>2, <1>3, KeepFunctions, TransitionWrites
<1>5. Transition(t, "QUEUED", lease[t] + 1, "task_transition") /\ owner' = [owner EXCEPT ![t] = NoWorker]
        => Write(t, "QUEUED", lease[t] + 1)
  BY <1>2, <1>3, TransitionWrites
<1> QED
  BY <1>1, <1>4, <1>5 DEF t

-----------------------------------------------------------------------------
(* One step of a worker: it changes its own locals only, the row it writes *)
(* is that of the task it dequeued, and a lease it is given names it.      *)

(* The other workers keep their locals.                                    *)
Others(w) ==
    \A v \in Workers \ {w} : /\ pc'[v] = pc[v] /\ id'[v] = id[v] /\ task'[v] = task[v] /\ seen'[v] = seen[v]
                             /\ session'[v] = session[v] /\ held'[v] = held[v]

OwnStep(w) == ClientTypes' /\ Others(w) /\ Linked(w)'

KeepsRows(w) == UNCHANGED rowVars /\ held'[w] \in {held[w], NoLease}

WritesRow(w, new) ==
    /\ id[w] \in Tasks
    /\ Write(id[w], new, lease[id[w]] + 1)
    /\ \/ held'[w] \in {held[w], NoLease}
       \/ /\ new = "RUNNING"
          /\ held'[w].task = id[w] /\ held'[w].lease = lease[id[w]] + 1
          /\ owner'[id[w]] = w

(* What get_task returns is a row.                                         *)
LEMMA RowIsTyped ==
  ASSUME RowTypes, NEW t \in Tasks
  PROVE  Row(t) \in RowType
BY DEF RowTypes, RowType, Row

(* The steps of process_task that write nothing,                           *)
LEMMA QuietStep ==
  ASSUME Types, NEW w \in Workers,
         get_task(w) \/ begin_assign(w) \/ execute(w) \/ begin_mutation(w) \/ update_task_read(w)
  PROVE  OwnStep(w) /\ KeepsRows(w) /\ UNCHANGED <<queueVars, submit, crashes>>
<1>0. ClientTypes /\ RowTypes /\ Linked(w) /\ pc[w] \in PC /\ (pc[w] # "idle" => id[w] \in Tasks)
  BY DEF Types, ClientTypes, Linked
<1>1. CASE get_task(w)
  <2>1. Row(id[w]) \in RowType /\ pc[w] # "idle"
    BY <1>0, <1>1, RowIsTyped DEF get_task
  <2>2. PICK p \in {"assign_task", "acknowledge"} : pc' = [pc EXCEPT ![w] = p]
    BY <1>1 DEF get_task, Goto
  <2>3. task' = [task EXCEPT ![w] = Row(id[w])] /\ UNCHANGED <<vars, queueVars, submit, id, seen, crashes>> /\ pc[w] = "get_task"
    BY <1>1 DEF get_task
  <2> QED
    BY <1>0, <2>1, <2>2, <2>3 DEF OwnStep, KeepsRows, Others, ClientTypes, Linked, PC, vars, taskVars, clientVars, rowVars
<1>2. CASE begin_assign(w)
  <2>1. pc[w] = "assign_task" /\ UNCHANGED <<taskVars, held, queueVars, submit, id, task, seen, crashes>>
    BY <1>2 DEF begin_assign, assign_task_read, vars, clientVars
  <2>2. CASE assign_task_read(w, id[w]) /\ Goto(w, "assigning")
    <3>1. id[w] \in Tasks /\ [op |-> "assign", task |-> id[w], lease |-> 0] \in Session
      BY <1>0, <2>1 DEF Session
    <3>2. session' = [session EXCEPT ![w] = [op |-> "assign", task |-> id[w], lease |-> 0]] /\ pc' = [pc EXCEPT ![w] = "assigning"]
      BY <2>2 DEF assign_task_read, Goto
    <3> QED
      BY <1>0, <2>1, <3>1, <3>2 DEF OwnStep, KeepsRows, Others, ClientTypes, Linked, PC, taskVars, rowVars, Idle
  <2>3. CASE UNCHANGED vars /\ Goto(w, "update_running")
    BY <1>0, <2>1, <2>3 DEF Goto, OwnStep, KeepsRows, Others, ClientTypes, Linked, PC, vars, clientVars, taskVars, rowVars
  <2> QED
    BY <1>2, <2>2, <2>3 DEF begin_assign
<1>3. CASE execute(w)
  BY <1>0, <1>3 DEF execute, Goto, OwnStep, KeepsRows, Others, ClientTypes, Linked, PC, vars, clientVars, taskVars, rowVars
<1>4. CASE begin_mutation(w)
  <2>1. /\ pc[w] \in {"complete_task", "record_failure"}
        /\ UNCHANGED <<taskVars, held, queueVars, submit, id, task, seen, crashes>>
    BY <1>4 DEF begin_mutation
  <2>2. ASSUME NEW op \in {"complete", "fail"}, NEW p \in {"completing", "recording"},
               session' = [session EXCEPT ![w] = [op |-> op, task |-> id[w], lease |-> task[w].lease]],
               pc' = [pc EXCEPT ![w] = p]
        PROVE  OwnStep(w) /\ KeepsRows(w)
    <3>1. id[w] \in Tasks /\ task[w].lease \in Nat
      BY <1>0, <2>1 DEF ClientTypes, RowType
    <3>2. [op |-> op, task |-> id[w], lease |-> task[w].lease] \in Session
      BY <3>1 DEF Session
    <3> QED
      BY <1>0, <2>1, <2>2, <3>1, <3>2 DEF OwnStep, KeepsRows, Others, ClientTypes, Linked, PC, taskVars, rowVars, Idle
  <2>3. ASSUME NEW p \in {"update_completed", "settle"}, UNCHANGED session, pc' = [pc EXCEPT ![w] = p]
        PROVE  OwnStep(w) /\ KeepsRows(w)
    BY <1>0, <2>1, <2>3 DEF OwnStep, KeepsRows, Others, ClientTypes, Linked, PC, taskVars, rowVars
  <2> QED
    BY <1>4, <2>1, <2>2, <2>3 DEF begin_mutation, Goto
<1>5. CASE update_task_read(w)
  <2>1. PICK p \in {"write_running", "write_completed"} : pc' = [pc EXCEPT ![w] = p]
    BY <1>5 DEF update_task_read, Step, Goto
  <2>2. /\ pc[w] \in {"update_running", "update_completed"} /\ seen' = [seen EXCEPT ![w] = Row(id[w])]
        /\ UNCHANGED <<vars, queueVars, submit, id, task, crashes>>
    BY <1>5 DEF update_task_read, Step
  <2>3. Row(id[w]) \in RowType
    BY <1>0, <2>2, RowIsTyped
  <2> QED
    BY <1>0, <2>1, <2>2, <2>3 DEF OwnStep, KeepsRows, Others, ClientTypes, Linked, PC, vars, taskVars, clientVars, rowVars
<1> QED
  BY <1>1, <1>2, <1>3, <1>4, <1>5

(* the one that takes an id,                                               *)
LEMMA DequeueStep ==
  ASSUME Types, NEW w \in Workers, dequeue_task(w)
  PROVE  /\ OwnStep(w) /\ KeepsRows(w) /\ QueueTypeOK' /\ UNCHANGED <<submit, crashes>>
         /\ NextId \in Tasks /\ id'[w] = NextId /\ pc[w] = "idle" /\ pc'[w] = "get_task" /\ task' = task
         /\ processing'[NextId] > 0
         /\ \A t \in Tasks : processing'[t] >= processing[t]
<1>0. ClientTypes /\ Linked(w) /\ queue \in Seq(Tasks) /\ processing \in [Tasks -> Nat]
  BY DEF Types, QueueTypeOK
<1>1. /\ pc[w] = "idle" /\ pc' = [pc EXCEPT ![w] = "get_task"] /\ id' = [id EXCEPT ![w] = NextId]
      /\ queue # <<>> /\ queue' = (IF Redis THEN Front(queue) ELSE Tail(queue))
      /\ processing' = [processing EXCEPT ![NextId] = @ + 1]
      /\ UNCHANGED <<vars, submit, task, seen, crashes>>
  BY DEF dequeue_task, dequeue, Step, Goto
<1>2. NextId \in Tasks /\ queue' \in Seq(Tasks)
  <2>1. Len(queue) \in Nat /\ Len(queue) > 0
    BY <1>0, <1>1
  <2>2. Last(queue) \in Tasks /\ Head(queue) \in Tasks /\ Front(queue) \in Seq(Tasks) /\ Tail(queue) \in Seq(Tasks)
    BY <1>0, <2>1 DEF Last, Front
  <2> QED
    BY <1>1, <2>2 DEF NextId
<1>3. QueueTypeOK' /\ processing'[NextId] > 0 /\ \A t \in Tasks : processing'[t] >= processing[t]
  BY <1>0, <1>1, <1>2 DEF QueueTypeOK
<1> HIDE DEF NextId
<1>4. OwnStep(w) /\ KeepsRows(w) /\ id'[w] = NextId /\ pc'[w] = "get_task"
  <2>1. NextId # NoTask
    BY <1>2, NullsAreFresh
  <2> QED
    BY <1>0, <1>1, <1>2, <2>1 DEF OwnStep, KeepsRows, Others, ClientTypes, Linked, PC, vars, taskVars, clientVars, rowVars
<1> QED
  BY <1>1, <1>2, <1>3, <1>4

(* the rollback of a refused call,                                         *)
LEMMA RejectFacts ==
  ASSUME NEW w, reject_mutation(w)
  PROVE  /\ UNCHANGED <<taskVars, workerVars, found>>
         /\ session' = [session EXCEPT ![w] = Idle] /\ held' = [held EXCEPT ![w] = NoLease]
BY DEF reject_mutation

(* the end of assign_task, committed or refused,                           *)
LEMMA EndAssignStep ==
  ASSUME Types, NEW w \in Workers, end_assign(w)
  PROVE  /\ OwnStep(w) /\ UNCHANGED <<queueVars, submit, crashes>> /\ id' = id /\ pc[w] = "assigning"
         /\ \/ /\ WritesRow(w, "RUNNING") /\ CanAssign(id[w]) /\ pc'[w] = "execute"
               /\ task'[w].attempts = attempts[id[w]] + 1
            \/ KeepsRows(w) /\ pc'[w] = "update_running" /\ task' = task
<1>0. /\ ClientTypes /\ RowTypes /\ pc[w] = "assigning" /\ session[w].task = id[w] /\ id[w] \in Tasks
      /\ UNCHANGED <<queueVars, submit, id, seen, crashes>>
  BY DEF Types, ClientTypes, Linked, end_assign
<1>s. Idle \in Session /\ NoLease \in HeldLease
  BY DEF Session, HeldLease
<1>1. CASE reject_mutation(w) /\ Goto(w, "update_running") /\ UNCHANGED task
  BY <1>0, <1>s, <1>1, RejectFacts, NullsAreFresh DEF Goto, OwnStep, KeepsRows, Others, ClientTypes, Linked, PC, taskVars, rowVars
<1>2. ASSUME assign_task(w), Goto(w, "execute"),
             task' = [task EXCEPT ![w] = [state |-> "RUNNING", lease |-> held'[w].lease, attempts |-> held'[w].attempts]]
      PROVE  OwnStep(w) /\ WritesRow(w, "RUNNING") /\ CanAssign(id[w]) /\ pc'[w] = "execute" /\ task'[w].attempts = attempts[id[w]] + 1
  <2> DEFINE h == [task |-> id[w], lease |-> lease[id[w]] + 1, attempts |-> attempts[id[w]] + 1]
             r == [state |-> "RUNNING", lease |-> h.lease, attempts |-> h.attempts]
  <2>1. /\ Write(id[w], "RUNNING", lease[id[w]] + 1) /\ owner'[id[w]] = w /\ CanAssign(id[w])
        /\ held' = [held EXCEPT ![w] = h] /\ session' = [session EXCEPT ![w] = Idle]
    BY <1>0, <1>2, AssignWrites
  <2>2. h.task = id[w] /\ h.lease = lease[id[w]] + 1 /\ h.attempts = attempts[id[w]] + 1
    OBVIOUS
  <2>3. h \in HeldLease /\ h.lease \in Nat /\ h.attempts \in Nat
    BY <1>0 DEF HeldLease, RowTypes
  <2> HIDE DEF h
  <2>4. r \in RowType /\ r.attempts = h.attempts
    BY <2>3 DEF RowType, TaskState
  <2>5. held' \in [Workers -> HeldLease] /\ held'[w] = h /\ \A v \in Workers \ {w} : held'[v] = held[v]
    BY <1>0, <2>1, <2>3 DEF ClientTypes
  <2>6. task' = [task EXCEPT ![w] = r]
    BY <1>2, <2>5
  <2> HIDE DEF r
  <2>7. task' \in [Workers -> RowType] /\ task'[w] = r /\ \A v \in Workers \ {w} : task'[v] = task[v]
    BY <1>0, <2>4, <2>6 DEF ClientTypes
  <2>8. OwnStep(w) /\ pc'[w] = "execute"
    BY <1>0, <1>s, <1>2, <2>1, <2>5, <2>7, NullsAreFresh DEF Goto, OwnStep, Others, ClientTypes, Linked, PC
  <2>9. WritesRow(w, "RUNNING")
    BY <1>0, <2>1, <2>2, <2>5 DEF WritesRow
  <2> QED
    BY <2>1, <2>2, <2>4, <2>7, <2>8, <2>9
<1> QED
  BY <1>0, <1>1, <1>2 DEF end_assign

(* the end of complete_task or record_execution_failure,                   *)
LEMMA EndMutationStep ==
  ASSUME Types, NEW w \in Workers, end_complete(w) \/ end_failure(w)
  PROVE  /\ OwnStep(w) /\ UNCHANGED <<queueVars, submit, id, task, crashes>> /\ pc[w] \in {"completing", "recording"}
         /\ \/ WritesRow(w, "COMPLETED") /\ pc'[w] = "acknowledge" /\ state[id[w]] = "RUNNING"
            \/ WritesRow(w, "FAILED") /\ pc'[w] = "settle" /\ state[id[w]] = "RUNNING"
            \/ WritesRow(w, "QUEUED") /\ pc'[w] = "settle" /\ state[id[w]] = "RUNNING" /\ attempts[id[w]] < MaxAttempts
            \/ KeepsRows(w) /\ (pc'[w] = "settle" \/ (pc'[w] = "update_completed" /\ pc[w] = "completing"))
<1>0. /\ ClientTypes /\ RowTypes /\ pc[w] \in {"completing", "recording"} /\ session[w].task = id[w] /\ id[w] \in Tasks
      /\ UNCHANGED <<queueVars, submit, id, task, seen, crashes>>
  BY DEF Types, ClientTypes, Linked, end_complete, end_failure, Step
<1>1. /\ session' = [session EXCEPT ![w] = Idle] /\ held' = [held EXCEPT ![w] = NoLease]
      /\ \/ complete_task(w) /\ Goto(w, "acknowledge")
         \/ record_execution_failure(w) /\ Goto(w, "settle")
         \/ reject_mutation(w) /\ (Goto(w, "settle") \/ (Goto(w, "update_completed") /\ pc[w] = "completing"))
  BY <1>0, RejectFacts, CompleteWrites, FailureWrites DEF end_complete, end_failure, Step
<1>2. PICK p \in {"acknowledge", "settle", "update_completed"} : Goto(w, p)
  BY <1>1
<1>3. OwnStep(w) /\ held'[w] = NoLease /\ pc'[w] = p
  BY <1>0, <1>1, <1>2, NullsAreFresh DEF Goto, OwnStep, Others, ClientTypes, Linked, PC, Session, HeldLease
<1>4. CASE complete_task(w) /\ Goto(w, "acknowledge")
  BY <1>0, <1>3, <1>4, CompleteWrites DEF WritesRow, Goto, ClientTypes
<1>5. CASE record_execution_failure(w) /\ Goto(w, "settle")
  <2>1. pc'[w] = "settle" /\ state[id[w]] = "RUNNING"
    BY <1>0, <1>5, FailureWrites DEF Goto, ClientTypes
  <2>2. Write(id[w], "FAILED", lease[id[w]] + 1) \/ (Write(id[w], "QUEUED", lease[id[w]] + 1) /\ attempts[id[w]] < MaxAttempts)
    BY <1>0, <1>5, FailureWrites
  <2> QED
    BY <1>0, <1>3, <2>1, <2>2 DEF WritesRow
<1>6. CASE reject_mutation(w) /\ (Goto(w, "settle") \/ (Goto(w, "update_completed") /\ pc[w] = "completing"))
  <2>1. pc'[w] = "settle" \/ (pc'[w] = "update_completed" /\ pc[w] = "completing")
    BY <1>0, <1>6 DEF Goto, ClientTypes
  <2> QED
    BY <1>0, <1>3, <1>6, <2>1, RejectFacts DEF KeepsRows, taskVars, rowVars
<1> QED
  BY <1>0, <1>1, <1>3, <1>4, <1>5, <1>6

(* the end of update_task,                                                 *)
LEMMA UpdateStep ==
  ASSUME Types, NEW w \in Workers, update_task_write(w)
  PROVE  /\ OwnStep(w) /\ UNCHANGED <<queueVars, submit, id, task, crashes>>
         /\ pc[w] \in {"write_running", "write_completed"}
         /\ \/ WritesRow(w, "RUNNING") /\ pc'[w] = "execute" /\ state[id[w]] \notin Terminal
            \/ WritesRow(w, "COMPLETED") /\ pc'[w] = "acknowledge" /\ pc[w] = "write_completed"
            \/ KeepsRows(w) /\ pc'[w] = "record_failure" /\ (pc[w] = "write_running" => ~CanUpdate(w, "RUNNING"))
<1>0. /\ ClientTypes /\ RowTypes /\ pc[w] \in {"write_running", "write_completed"} /\ id[w] \in Tasks /\ Linked(w)
      /\ seen' = [seen EXCEPT ![w] = NoRow]
      /\ UNCHANGED <<session, held, queueVars, submit, id, task, crashes>>
  BY DEF Types, ClientTypes, Linked, update_task_write, clientVars
<1>n. NoRow \in RowType
  BY DEF NoRow, RowType
<1>1. ASSUME NEW p \in {"execute", "acknowledge", "record_failure"}, Goto(w, p)
      PROVE  OwnStep(w) /\ pc'[w] = p /\ held'[w] = held[w]
  BY <1>0, <1>n, <1>1 DEF Goto, OwnStep, Others, ClientTypes, Linked, PC
<1>2. ASSUME pc[w] = "write_running", atomic_transition(id[w], seen[w].lease, {seen[w].state}, "RUNNING", seen[w].lease + 1)
      PROVE  WritesRow(w, "RUNNING") /\ state[id[w]] \notin Terminal
  <2>1. Write(id[w], "RUNNING", lease[id[w]] + 1)
    BY <1>0, <1>2, CasWrites
  <2>2. state[id[w]] \notin Terminal
    BY <1>2 DEF atomic_transition
  <2> QED
    BY <1>0, <2>1, <2>2 DEF WritesRow
<1>3. ASSUME atomic_transition(id[w], seen[w].lease, {seen[w].state}, "COMPLETED", seen[w].lease + 1)
      PROVE  WritesRow(w, "COMPLETED")
  BY <1>0, <1>3, CasWrites DEF WritesRow
<1>4. \/ /\ pc[w] = "write_running" /\ Goto(w, "execute")
         /\ atomic_transition(id[w], seen[w].lease, {seen[w].state}, "RUNNING", seen[w].lease + 1)
      \/ /\ pc[w] = "write_completed" /\ Goto(w, "acknowledge")
         /\ atomic_transition(id[w], seen[w].lease, {seen[w].state}, "COMPLETED", seen[w].lease + 1)
      \/ Goto(w, "record_failure") /\ UNCHANGED taskVars /\ (pc[w] = "write_running" => ~CanUpdate(w, "RUNNING"))
  BY <1>0 DEF update_task_write
<1>5. UNCHANGED taskVars => KeepsRows(w)
  BY <1>0 DEF taskVars, KeepsRows, rowVars
<1> QED
  BY <1>0, <1>1, <1>2, <1>3, <1>4, <1>5

(* and the end of process_task, orderly or not.                            *)
LEMMA FinishStep ==
  ASSUME Types, NEW w \in Workers, settle(w) \/ acknowledge_task(w) \/ crash(w)
  PROVE  /\ OwnStep(w) /\ KeepsRows(w) /\ UNCHANGED submit /\ crashes' \in 0..MaxCrashes /\ QueueTypeOK'
         /\ pc'[w] = "idle" /\ id'[w] = NoTask /\ id[w] \in Tasks
         /\ \A t \in Tasks \ {id[w]} : processing'[t] = processing[t]
         /\ \/ crash(w) /\ UNCHANGED queueVars
            \/ queue' = <<id[w]>> \o queue
            \/ queue' = queue /\ pc[w] = "acknowledge"
            \/ queue' = queue /\ pc[w] = "settle" /\ ~(task[w].attempts < MaxAttempts)
<1>0. /\ ClientTypes /\ RowTypes /\ pc[w] # "idle" /\ id[w] \in Tasks
      /\ queue \in Seq(Tasks) /\ processing \in [Tasks -> Nat] /\ crashes \in 0..MaxCrashes
  BY DEF Types, ClientTypes, Linked, QueueTypeOK, settle, acknowledge_task, crash
<1>1. /\ Finish(w)
      /\ UNCHANGED <<taskVars, submit>>
  BY DEF settle, acknowledge_task, crash, Finish
<1>2. OwnStep(w) /\ KeepsRows(w) /\ pc'[w] = "idle" /\ id'[w] = NoTask
  BY <1>0, <1>1 DEF Finish, Goto, OwnStep, KeepsRows, Others, ClientTypes, Linked, PC, taskVars, rowVars,
     Session, HeldLease, RowType, NoRow
<1>3. crashes' \in 0..MaxCrashes
  BY <1>0, RuntimeAssumption DEF settle, acknowledge_task, crash
<1>4. ASSUME processing' = Removed(id[w])
      PROVE  processing' \in [Tasks -> Nat] /\ \A t \in Tasks \ {id[w]} : processing'[t] = processing[t]
  BY <1>0, <1>4 DEF Removed
<1>5. <<id[w]>> \o queue \in Seq(Tasks)
  BY <1>0
<1>6. CASE settle(w)
  BY <1>0, <1>1, <1>2, <1>3, <1>4, <1>5, <1>6 DEF settle, requeue, acknowledge, QueueTypeOK
<1>7. CASE acknowledge_task(w)
  BY <1>0, <1>1, <1>2, <1>3, <1>4, <1>7 DEF acknowledge_task, acknowledge, QueueTypeOK
<1>8. CASE crash(w)
  BY <1>0, <1>1, <1>2, <1>3, <1>8 DEF crash, queueVars, QueueTypeOK
<1> QED
  BY <1>6, <1>7, <1>8

(* trigger_remediation: create, queue, enqueue.                            *)
LEMMA SubmitStep ==
  ASSUME Types, NEW t \in Tasks, SubmitNext(t)
  PROVE  /\ UNCHANGED <<session, held, pc, id, task, seen, crashes>>
         /\ submit' \in [Tasks -> Submit] /\ \A u \in Tasks \ {t} : submit'[u] = submit[u]
         /\ \/ /\ submit[t] = "new" /\ submit'[t] = "created" /\ UNCHANGED queueVars
               /\ state[t] = "NONE" /\ Write(t, "PENDING", lease[t] + 1)
            \/ /\ submit[t] = "created" /\ submit'[t] = "queued" /\ UNCHANGED queueVars
               /\ state[t] = "PENDING" /\ Write(t, "QUEUED", lease[t] + 1)
            \/ /\ submit[t] = "queued" /\ UNCHANGED <<rowVars, processing>>
               /\ \/ submit'[t] = "done" /\ queue' = Append(queue, t)
                  \/ submit'[t] = "refused" /\ queue' = queue
<1>0. RowTypes /\ submit \in [Tasks -> Submit]
  BY DEF Types
<1>1. CASE submit_create(t)
  <2>1. /\ submit[t] = "new" /\ create_task(t) /\ submit' = [submit EXCEPT ![t] = "created"]
        /\ UNCHANGED <<session, held, queueVars, pc, id, task, seen, crashes>>
    BY <1>1 DEF submit_create, create_task, clientVars
  <2> QED
    BY <1>0, <2>1, CreateWrites DEF Submit
<1>2. CASE submit_queue(t)
  <2>1. /\ submit[t] = "created" /\ submit' = [submit EXCEPT ![t] = "queued"]
        /\ atomic_transition(t, lease[t], {"PENDING"}, "QUEUED", lease[t] + 1)
        /\ UNCHANGED <<session, held, queueVars, pc, id, task, seen, crashes>>
    BY <1>2 DEF submit_queue, queue_task, clientVars
  <2>2. Write(t, "QUEUED", lease[t] + 1) /\ state[t] = "PENDING"
    BY <1>0, <2>1, CasWrites
  <2> QED
    BY <1>0, <2>1, <2>2 DEF Submit
<1>3. CASE submit_enqueue(t)
  BY <1>0, <1>3 DEF submit_enqueue, enqueue, Submit, vars, taskVars, clientVars, rowVars, queueVars
<1> QED
  BY <1>1, <1>2, <1>3 DEF SubmitNext

(* Operators touch nothing that the pipeline depends on.                   *)
LEMMA AdministerStep ==
  ASSUME NEW w \in Workers, administer(w)
  PROVE  UNCHANGED <<rowVars, session, held, queueVars, runtimeVars>>
BY DEF administer, register_worker, mark_draining, mark_drained, mark_fenced, SetStatus, taskVars, clientVars, rowVars

(* Every step of the pipeline is one of these.                             *)
LEMMA PipelineStep ==
  ASSUME Types, [PipelineNext]_pipelineVars
  PROVE  \/ \E t \in Tasks : SubmitNext(t)
         \/ \E w \in Workers : get_task(w) \/ begin_assign(w) \/ execute(w) \/ begin_mutation(w) \/ update_task_read(w)
         \/ \E w \in Workers : dequeue_task(w)
         \/ \E w \in Workers : end_assign(w)
         \/ \E w \in Workers : end_complete(w) \/ end_failure(w)
         \/ \E w \in Workers : update_task_write(w)
         \/ \E w \in Workers : settle(w) \/ acknowledge_task(w) \/ crash(w)
         \/ UNCHANGED <<rowVars, session, held, queueVars, runtimeVars>>
<1>1. UNCHANGED pipelineVars => UNCHANGED <<rowVars, session, held, queueVars, runtimeVars>>
  BY DEF pipelineVars, vars, taskVars, clientVars, rowVars
<1> QED
  BY <1>1, AdministerStep DEF PipelineNext, ProcessTask

(* How a step of the pipeline treats the rows, from which everything about *)
(* rows, ledger and leases follows.                                        *)
LEMMA WorkerTypes ==
  ASSUME Types, NEW w \in Workers, OwnStep(w), KeepsRows(w) \/ (\E new \in TaskState : WritesRow(w, new)),
         QueueTypeOK', UNCHANGED submit, crashes' \in 0..MaxCrashes
  PROVE  Types'
<1>1. RowTypes'
  <2>1. CASE KeepsRows(w)
    BY <2>1 DEF KeepsRows, rowVars, Types, RowTypes
  <2>2. ASSUME NEW new \in TaskState, WritesRow(w, new) PROVE RowTypes'
    <3>1. RowTypes /\ id[w] \in Tasks /\ lease[id[w]] + 1 \in Nat /\ Write(id[w], new, lease[id[w]] + 1)
      BY <2>2 DEF WritesRow, Types, RowTypes
    <3> QED
      BY <3>1, WriteEffect
  <2> QED
    BY <2>1, <2>2
<1>2. \A v \in Workers : Linked(v)'
  BY DEF OwnStep, Others, Types, Linked
<1> QED
  BY <1>1, <1>2 DEF Types, OwnStep

(* A step writes one row with the next version, or none.                   *)
RowChange ==
    \/ UNCHANGED <<rowVars, held>>
    \/ \E t \in Tasks, new \in TaskState : Write(t, new, lease[t] + 1) /\ held' = held
    \/ \E w \in Workers : /\ Others(w)
                          /\ KeepsRows(w) \/ (\E new \in TaskState : WritesRow(w, new))

(* Every step of the pipeline keeps the types and is a RowChange.          *)
LEMMA PipelineTypes ==
  ASSUME Types, [PipelineNext]_pipelineVars
  PROVE  Types' /\ RowChange
<1>s. {"PENDING", "QUEUED", "RUNNING", "COMPLETED", "FAILED"} \subseteq TaskState
  BY DEF TaskState
<1>q. UNCHANGED queueVars => QueueTypeOK'
  BY DEF Types, QueueTypeOK, queueVars
<1>c. UNCHANGED crashes => crashes' \in 0..MaxCrashes
  BY DEF Types
<1>1. ASSUME NEW t \in Tasks, SubmitNext(t) PROVE Types' /\ RowChange
  <2>1. RowTypes' /\ RowChange
    <3>1. CASE UNCHANGED rowVars
      BY <1>1, <3>1, SubmitStep DEF Types, RowTypes, rowVars, RowChange
    <3>2. ASSUME NEW new \in {"PENDING", "QUEUED"}, Write(t, new, lease[t] + 1) PROVE RowTypes' /\ RowChange
      <4>1. lease[t] + 1 \in Nat /\ new \in TaskState
        BY <1>s DEF Types, RowTypes
      <4> QED
        BY <1>1, <3>2, <4>1, SubmitStep, WriteEffect DEF Types, RowChange
    <3> QED
      BY <1>1, <3>1, <3>2, SubmitStep
  <2>2. ClientTypes' /\ \A w \in Workers : Linked(w)'
    BY <1>1, SubmitStep DEF Types, ClientTypes, Linked
  <2>3. QueueTypeOK'
    <3>1. queue \in Seq(Tasks) /\ Append(queue, t) \in Seq(Tasks) /\ processing \in [Tasks -> Nat]
      BY DEF Types, QueueTypeOK
    <3> QED
      BY <1>1, <3>1, SubmitStep DEF QueueTypeOK, queueVars
  <2> QED
    BY <1>1, <2>1, <2>2, <2>3, SubmitStep DEF Types
<1>2. ASSUME NEW w \in Workers, OwnStep(w), KeepsRows(w) \/ (\E new \in TaskState : WritesRow(w, new)),
             QueueTypeOK', UNCHANGED submit, crashes' \in 0..MaxCrashes
      PROVE  Types' /\ RowChange
  BY <1>2, WorkerTypes DEF OwnStep, RowChange
<1>3. ASSUME UNCHANGED <<rowVars, session, held, queueVars, runtimeVars>> PROVE Types' /\ RowChange
  BY <1>3 DEF Types, RowTypes, ClientTypes, Linked, QueueTypeOK, rowVars, queueVars, runtimeVars, RowChange
<1>4. ASSUME NEW w \in Workers, get_task(w) \/ begin_assign(w) \/ execute(w) \/ begin_mutation(w) \/ update_task_read(w)
      PROVE  Types' /\ RowChange
  BY <1>4, <1>2, <1>q, <1>c, QuietStep
<1>5. ASSUME NEW w \in Workers, dequeue_task(w) PROVE Types' /\ RowChange
  BY <1>5, <1>2, <1>c, DequeueStep
<1>6. ASSUME NEW w \in Workers, end_assign(w) PROVE Types' /\ RowChange
  BY <1>6, <1>2, <1>q, <1>c, <1>s, EndAssignStep
<1>7. ASSUME NEW w \in Workers, end_complete(w) \/ end_failure(w) PROVE Types' /\ RowChange
  BY <1>7, <1>2, <1>q, <1>c, <1>s, EndMutationStep
<1>8. ASSUME NEW w \in Workers, update_task_write(w) PROVE Types' /\ RowChange
  BY <1>8, <1>2, <1>q, <1>c, <1>s, UpdateStep
<1>9. ASSUME NEW w \in Workers, settle(w) \/ acknowledge_task(w) \/ crash(w) PROVE Types' /\ RowChange
  BY <1>9, <1>2, FinishStep
<1> QED
  BY <1>1, <1>3, <1>4, <1>5, <1>6, <1>7, <1>8, <1>9, PipelineStep

-----------------------------------------------------------------------------
(* The pipeline without recovery: where the ids are, what a worker may     *)
(* rely on while it has one, and how a queued row is found again.          *)

(* The places of a worker that believes it executes its task.              *)
Executing == {"execute", "complete_task", "completing", "update_completed", "write_completed"}

(* An id is in one place, and is there only once it was submitted.         *)
Delivery ==
    /\ Distinct(queue)
    /\ \A w, v \in Workers : id[w] = id[v] /\ id[w] # NoTask => w = v
    /\ \A w \in Workers : id[w] \notin Waiting(queue)
    /\ \A t \in Waiting(queue) : submit[t] = "done"
    /\ \A w \in Workers : id[w] # NoTask => submit[id[w]] = "done"

(* What a worker may rely on: its task is on the processing list, is       *)
(* RUNNING while it executes it, is not QUEUED when it acknowledges it,    *)
(* and has at least the attempts it read.                                  *)
Working(w) ==
    id[w] # NoTask =>
        /\ processing[id[w]] > 0
        /\ pc[w] \in Executing => state[id[w]] = "RUNNING"
        /\ pc[w] = "acknowledge" => state[id[w]] # "QUEUED"
        /\ task[w].attempts <= attempts[id[w]]

(* A QUEUED task has attempts left.                                        *)
Budgeted(t) ==
    /\ state[t] = "QUEUED" => attempts[t] < MaxAttempts
    /\ state[t] \in {"NONE", "PENDING"} => attempts[t] = 0

(* A QUEUED task is found again.                                           *)
Reachable(t) ==
    state[t] = "QUEUED" /\ submit[t] = "done" =>
        t \in Waiting(queue) \/ (\E w \in Workers : id[w] = t) \/ processing[t] > 0

PipelineInv ==
    /\ Types
    /\ Delivery
    /\ \A w \in Workers : Working(w)
    /\ \A t \in Tasks : Budgeted(t) /\ Reachable(t)

(* What the step that w takes leaves to the other workers.                 *)
LEMMA OthersWork ==
  ASSUME PipelineInv, NEW w \in Workers, OwnStep(w), KeepsRows(w) \/ (\E new \in TaskState : WritesRow(w, new)),
         QueueTypeOK', \A t \in Tasks \ {id[w]} : processing'[t] >= processing[t]
  PROVE  \A v \in Workers \ {w} : Working(v)'
<1> SUFFICES ASSUME NEW v \in Workers \ {w}, id[v] # NoTask PROVE Working(v)'
  BY DEF Working, OwnStep, Others
<1>1. id[v] \in Tasks \ {id[w]} /\ Working(v)
  BY DEF PipelineInv, Delivery, Types, ClientTypes
<1>2. state'[id[v]] = state[id[v]] /\ attempts'[id[v]] = attempts[id[v]]
  <2>1. CASE KeepsRows(w)
    BY <2>1 DEF KeepsRows, rowVars
  <2>2. ASSUME NEW new \in TaskState, WritesRow(w, new) PROVE state'[id[v]] = state[id[v]] /\ attempts'[id[v]] = attempts[id[v]]
    <3>1. RowTypes /\ id[w] \in Tasks /\ lease[id[w]] + 1 \in Nat /\ Write(id[w], new, lease[id[w]] + 1)
      BY <2>2 DEF WritesRow, PipelineInv, Types, RowTypes
    <3> QED
      BY <1>1, <3>1, WriteEffect
  <2> QED
    BY <2>1, <2>2
<1>3. id'[v] = id[v] /\ pc'[v] = pc[v] /\ task'[v] = task[v]
  BY DEF OwnStep, Others
<1>4. processing'[id[v]] \in Nat /\ processing[id[v]] \in Nat /\ processing'[id[v]] >= processing[id[v]]
  BY <1>1 DEF PipelineInv, Types, QueueTypeOK
<1>5. processing[id[v]] > 0 => processing'[id[v]] > 0
  BY <1>4
<1> QED
  BY <1>1, <1>2, <1>3, <1>5 DEF Working

(* Where the program counter goes in a step that writes nothing.           *)
LEMMA QuietLocals ==
  ASSUME Types, NEW w \in Workers,
         get_task(w) \/ begin_assign(w) \/ execute(w) \/ begin_mutation(w) \/ update_task_read(w)
  PROVE  /\ id' = id /\ id[w] \in Tasks
         /\ pc'[w] \in Executing => pc[w] \in Executing
         /\ pc'[w] = "acknowledge" => state[id[w]] # "QUEUED"
         /\ task'[w].attempts = task[w].attempts \/ task'[w].attempts = attempts[id[w]]
<1>0. pc \in [Workers -> PC] /\ task \in [Workers -> RowType] /\ (pc[w] # "idle" => id[w] \in Tasks)
  BY DEF Types, ClientTypes, Linked
<1>1. CASE get_task(w)
  <2>1. Row(id[w]).attempts = attempts[id[w]]
    BY DEF Row
  <2> QED
    BY <1>0, <1>1, <2>1 DEF get_task, Goto, Executing
<1>2. CASE begin_assign(w)
  BY <1>0, <1>2 DEF begin_assign, Goto, Executing
<1>3. CASE execute(w)
  BY <1>0, <1>3 DEF execute, Goto, Executing
<1>4. CASE begin_mutation(w)
  BY <1>0, <1>4 DEF begin_mutation, Goto, Executing
<1>5. CASE update_task_read(w)
  BY <1>0, <1>5 DEF update_task_read, Step, Goto, Executing
<1> QED
  BY <1>1, <1>2, <1>3, <1>4, <1>5

(* A step that leaves queue, ids and submissions alone.                    *)
LEMMA StillDelivered ==
  ASSUME PipelineInv, UNCHANGED <<queueVars, submit, id>>
  PROVE  Delivery'
BY DEF PipelineInv, Delivery, Distinct, Waiting, queueVars

(* The steps that write nothing keep the invariant,                        *)
LEMMA QuietInv ==
  ASSUME PipelineInv, NEW w \in Workers,
         get_task(w) \/ begin_assign(w) \/ execute(w) \/ begin_mutation(w) \/ update_task_read(w)
  PROVE  Delivery' /\ (\A v \in Workers : Working(v)') /\ \A t \in Tasks : Budgeted(t)' /\ Reachable(t)'
<1>0. Types
  BY DEF PipelineInv
<1>1. OwnStep(w) /\ KeepsRows(w) /\ UNCHANGED <<queueVars, submit, crashes>> /\ id' = id
  BY <1>0, QuietStep, QuietLocals
<1>2. Delivery'
  BY <1>1, StillDelivered
<1>3. \A t \in Tasks : Budgeted(t)' /\ Reachable(t)'
  BY <1>1 DEF PipelineInv, Budgeted, Reachable, KeepsRows, rowVars, queueVars, Waiting
<1>4. \A v \in Workers \ {w} : Working(v)'
  <2>1. QueueTypeOK' /\ \A t \in Tasks : processing'[t] >= processing[t]
    BY <1>0, <1>1 DEF Types, QueueTypeOK, queueVars
  <2> QED
    BY <1>1, <2>1, OthersWork
<1>5. Working(w)'
  <2>1. Working(w) /\ attempts[id[w]] \in Nat
    BY <1>0, QuietLocals DEF PipelineInv, Types, RowTypes
  <2>2. state' = state /\ attempts' = attempts /\ processing' = processing
    BY <1>1 DEF KeepsRows, rowVars, queueVars
  <2> QED
    BY <1>0, <1>1, <2>1, <2>2, QuietLocals, NullsAreFresh DEF Working
<1> QED
  BY <1>2, <1>3, <1>4, <1>5

(* and so do those that write the worker's row,                            *)
LEMMA WriteInv ==
  ASSUME PipelineInv, NEW w \in Workers, OwnStep(w), UNCHANGED <<queueVars, submit, id>>,
         NEW new \in TaskState, WritesRow(w, new),
         new = "QUEUED" => attempts[id[w]] < MaxAttempts, new # "PENDING",
         pc'[w] \in Executing => new = "RUNNING", pc'[w] = "acknowledge" => new # "QUEUED",
         task'[w].attempts \in {task[w].attempts, attempts[id[w]] + 1},
         task'[w].attempts = attempts[id[w]] + 1 => new = "RUNNING"
  PROVE  Delivery' /\ (\A v \in Workers : Working(v)') /\ \A t \in Tasks : Budgeted(t)' /\ Reachable(t)'
<1>0. /\ Types /\ id[w] \in Tasks /\ lease[id[w]] + 1 \in Nat /\ Write(id[w], new, lease[id[w]] + 1) /\ RowTypes
      /\ attempts[id[w]] \in Nat /\ task[w].attempts \in Nat
  <2>1. Types /\ RowTypes /\ id[w] \in Tasks /\ Write(id[w], new, lease[id[w]] + 1)
    BY DEF PipelineInv, Types, WritesRow
  <2>2. task[w] \in RowType
    BY <2>1 DEF Types, ClientTypes
  <2>3. lease[id[w]] + 1 \in Nat /\ attempts[id[w]] \in Nat
    BY <2>1 DEF RowTypes
  <2> QED
    BY <2>1, <2>2, <2>3 DEF RowType
<1>1. /\ state'[id[w]] = new
      /\ attempts'[id[w]] = IF new = "RUNNING" THEN attempts[id[w]] + 1 ELSE attempts[id[w]]
      /\ \A u \in Tasks \ {id[w]} : state'[u] = state[u] /\ attempts'[u] = attempts[u]
  BY <1>0, WriteEffect
<1>2. Delivery'
  BY StillDelivered
<1>3. ASSUME NEW t \in Tasks PROVE Budgeted(t)' /\ Reachable(t)'
  <2>1. Budgeted(t) /\ Reachable(t) /\ id' = id /\ submit' = submit /\ queue' = queue /\ processing' = processing
    BY DEF PipelineInv, queueVars
  <2>2. CASE t # id[w]
    BY <1>1, <2>1, <2>2 DEF Budgeted, Reachable, Waiting
  <2>3. CASE t = id[w]
    <3>1. Reachable(t)'
      BY <2>1, <2>3 DEF Reachable
    <3>2. Budgeted(t)'
      BY <1>0, <1>1, <2>3 DEF Budgeted, TaskState
    <3> QED
      BY <3>1, <3>2
  <2> QED
    BY <2>2, <2>3
<1>4. \A v \in Workers \ {w} : Working(v)'
  <2>1. QueueTypeOK' /\ \A t \in Tasks : processing'[t] >= processing[t]
    BY <1>0 DEF Types, QueueTypeOK, queueVars
  <2> QED
    BY <2>1, OthersWork
<1>5. Working(w)'
  <2>1. Working(w) /\ id[w] # NoTask /\ id'[w] = id[w] /\ processing' = processing
    BY <1>0, NullsAreFresh DEF PipelineInv, queueVars
  <2> QED
    BY <1>0, <1>1, <2>1 DEF Working
<1> QED
  BY <1>2, <1>3, <1>4, <1>5

(* those whose write was refused,                                          *)
LEMMA KeepInv ==
  ASSUME PipelineInv, NEW w \in Workers, OwnStep(w), UNCHANGED <<queueVars, submit, id, task>>, KeepsRows(w),
         id[w] \in Tasks, pc'[w] \in Executing => pc[w] \in Executing, pc'[w] # "acknowledge"
  PROVE  Delivery' /\ (\A v \in Workers : Working(v)') /\ \A t \in Tasks : Budgeted(t)' /\ Reachable(t)'
<1>0. Types /\ state' = state /\ attempts' = attempts /\ queue' = queue /\ processing' = processing
  BY DEF PipelineInv, KeepsRows, rowVars, queueVars
<1>1. Delivery'
  BY StillDelivered
<1>2. \A t \in Tasks : Budgeted(t)' /\ Reachable(t)'
  BY <1>0 DEF PipelineInv, Budgeted, Reachable, Waiting
<1>3. \A v \in Workers \ {w} : Working(v)'
  <2>1. QueueTypeOK' /\ \A t \in Tasks : processing'[t] >= processing[t]
    BY <1>0 DEF Types, QueueTypeOK
  <2> QED
    BY <2>1, OthersWork
<1>4. Working(w)'
  BY <1>0 DEF PipelineInv, Working
<1> QED
  BY <1>1, <1>2, <1>3, <1>4

(* the one that takes an id: it moves from the queue to the worker,        *)
LEMMA DequeueInv ==
  ASSUME PipelineInv, NEW w \in Workers, dequeue_task(w)
  PROVE  Delivery' /\ (\A v \in Workers : Working(v)') /\ \A t \in Tasks : Budgeted(t)' /\ Reachable(t)'
<1>0. /\ Types /\ Delivery /\ ClientTypes /\ queue \in Seq(Tasks) /\ processing \in [Tasks -> Nat] /\ attempts \in [Tasks -> Nat]
      /\ queue # <<>> /\ queue' = (IF Redis THEN Front(queue) ELSE Tail(queue)) /\ submit' = submit
  BY DEF PipelineInv, Types, QueueTypeOK, RowTypes, dequeue_task, dequeue
<1>1. /\ OwnStep(w) /\ KeepsRows(w) /\ QueueTypeOK'
      /\ NextId \in Tasks /\ id'[w] = NextId /\ pc[w] = "idle" /\ pc'[w] = "get_task" /\ task' = task
      /\ processing'[NextId] > 0
      /\ \A t \in Tasks : processing'[t] >= processing[t]
  BY <1>0, DequeueStep
<1>2. state' = state /\ attempts' = attempts
  BY <1>1 DEF KeepsRows, rowVars
<1>3. NextId \in Waiting(queue) /\ Distinct(queue') /\ Waiting(queue') = Waiting(queue) \ {NextId}
  BY <1>0, PopLine DEF NextId, Delivery
<1> HIDE DEF NextId
<1>4. \A v \in Workers \ {w} : id'[v] = id[v] /\ id[v] \notin Waiting(queue)
  BY <1>0, <1>1 DEF OwnStep, Others, Delivery
<1>5. Delivery'
  <2>1. ASSUME NEW v \in Workers, NEW u \in Workers, id'[v] = id'[u], id'[v] # NoTask PROVE v = u
    <3>1. \A x \in Workers \ {w} : id'[x] # NextId
      BY <1>3, <1>4
    <3> QED
      BY <1>0, <1>1, <1>4, <2>1, <3>1 DEF Delivery
  <2>2. ASSUME NEW v \in Workers PROVE id'[v] \notin Waiting(queue') /\ (id'[v] # NoTask => submit'[id'[v]] = "done")
    <3>1. CASE v = w
      <4>1. submit[NextId] = "done" /\ NextId \notin Waiting(queue')
        BY <1>0, <1>3 DEF Delivery
      <4> QED
        BY <1>0, <1>1, <3>1, <4>1
    <3>2. CASE v # w
      <4>1. id'[v] = id[v] /\ id[v] \notin Waiting(queue)
        BY <1>4, <3>2
      <4>2. id[v] # NoTask => submit[id[v]] = "done"
        BY <1>0 DEF Delivery
      <4> QED
        BY <1>0, <1>3, <4>1, <4>2
    <3> QED
      BY <3>1, <3>2
  <2>3. \A t \in Waiting(queue') : submit'[t] = "done"
    BY <1>0, <1>3 DEF Delivery
  <2>4. Waiting(queue)' = Waiting(queue')
    BY DEF Waiting
  <2> QED
    BY <1>3, <2>1, <2>2, <2>3, <2>4 DEF Delivery, Distinct
<1>6. \A v \in Workers \ {w} : Working(v)'
  BY <1>1, OthersWork
<1>7. Working(w)'
  <2>1. task[w].attempts <= attempts'[NextId]
    <3>1. task[w] = NoRow
      BY <1>1 DEF PipelineInv, Types, Linked
    <3> QED
      BY <1>0, <1>1, <1>2, <3>1 DEF NoRow
  <2> QED
    BY <1>1, <2>1 DEF Working, Executing
<1>8. ASSUME NEW t \in Tasks PROVE Budgeted(t)' /\ Reachable(t)'
  <2>1. Budgeted(t) /\ Reachable(t)
    BY DEF PipelineInv
  <2>2. Budgeted(t)'
    BY <1>2, <2>1 DEF Budgeted
  <2>3. processing'[t] \in Nat /\ processing[t] \in Nat /\ processing'[t] >= processing[t]
    BY <1>0, <1>1 DEF QueueTypeOK
  <2>4. ASSUME NEW v \in Workers, id[v] = t PROVE id'[v] = t
    BY <1>0, <1>1, <1>4, <2>4, NullsAreFresh DEF Types, Linked
  <2>5. CASE t = NextId
    BY <1>1, <2>2, <2>5 DEF Reachable
  <2>6. CASE t # NextId
    <3>1. t \in Waiting(queue) => t \in Waiting(queue')
      BY <1>3, <2>6
    <3>2. processing[t] > 0 => processing'[t] > 0
      BY <2>3
    <3> QED
      BY <1>0, <1>2, <2>1, <2>2, <2>4, <3>1, <3>2 DEF Reachable
  <2> QED
    BY <2>2, <2>5, <2>6
<1> QED
  BY <1>5, <1>6, <1>7, <1>8

(* the ones that give it back, acknowledge it or lose it,                  *)
LEMMA FinishInv ==
  ASSUME PipelineInv, NEW w \in Workers, settle(w) \/ acknowledge_task(w) \/ crash(w)
  PROVE  Delivery' /\ (\A v \in Workers : Working(v)') /\ \A t \in Tasks : Budgeted(t)' /\ Reachable(t)'
<1>0. /\ Types /\ Delivery /\ queue \in Seq(Tasks) /\ processing \in [Tasks -> Nat] /\ attempts \in [Tasks -> Nat]
      /\ Working(w) /\ Budgeted(id[w])
  BY FinishStep DEF PipelineInv, Types, QueueTypeOK, RowTypes
<1>1. /\ OwnStep(w) /\ KeepsRows(w) /\ submit' = submit /\ QueueTypeOK'
      /\ pc'[w] = "idle" /\ id'[w] = NoTask /\ id[w] \in Tasks
      /\ \A t \in Tasks \ {id[w]} : processing'[t] = processing[t]
      /\ \/ crash(w) /\ UNCHANGED queueVars
         \/ queue' = <<id[w]>> \o queue
         \/ queue' = queue /\ pc[w] = "acknowledge"
         \/ queue' = queue /\ pc[w] = "settle" /\ ~(task[w].attempts < MaxAttempts)
  BY <1>0, FinishStep
<1>2. state' = state /\ attempts' = attempts
  BY <1>1 DEF KeepsRows, rowVars
<1>3. \A v \in Workers \ {w} : id'[v] = id[v]
  BY <1>1 DEF OwnStep, Others
<1>4. id[w] \notin Waiting(queue) /\ id[w] # NoTask /\ Distinct(queue)
  BY <1>0, <1>1, NullsAreFresh DEF Delivery
<1>5. /\ Distinct(queue')
      /\ Waiting(queue') = Waiting(queue) \/ Waiting(queue') = Waiting(queue) \cup {id[w]}
  BY <1>0, <1>1, <1>4, PushLine DEF queueVars
<1>6. Delivery'
  <2>1. ASSUME NEW v \in Workers, NEW u \in Workers, id'[v] = id'[u], id'[v] # NoTask PROVE v = u
    BY <1>0, <1>1, <1>3, <2>1 DEF Delivery
  <2>2. ASSUME NEW v \in Workers PROVE id'[v] \notin Waiting(queue')
    <3>1. CASE v = w
      <4>1. Waiting(queue) \subseteq Tasks
        BY <1>0 DEF Waiting
      <4> QED
        BY <1>1, <1>5, <3>1, <4>1, NullsAreFresh
    <3>2. CASE v # w
      <4>1. id'[v] = id[v] /\ id[v] \notin Waiting(queue) /\ id[v] # id[w]
        BY <1>0, <1>3, <1>4, <3>2 DEF Delivery
      <4> QED
        BY <1>5, <4>1
    <3> QED
      BY <3>1, <3>2
  <2>3. \A t \in Waiting(queue') : submit'[t] = "done"
    BY <1>0, <1>1, <1>4, <1>5 DEF Delivery
  <2>4. \A v \in Workers : id'[v] # NoTask => submit'[id'[v]] = "done"
    BY <1>0, <1>1, <1>3 DEF Delivery
  <2>5. Waiting(queue)' = Waiting(queue')
    BY DEF Waiting
  <2> QED
    BY <1>5, <2>1, <2>2, <2>3, <2>4, <2>5 DEF Delivery, Distinct
<1>7. \A v \in Workers \ {w} : Working(v)'
  <2>1. \A t \in Tasks \ {id[w]} : processing'[t] >= processing[t]
    BY <1>0, <1>1
  <2> QED
    BY <1>1, <2>1, OthersWork
<1>8. Working(w)'
  BY <1>1 DEF Working
<1>9. ASSUME NEW t \in Tasks PROVE Budgeted(t)' /\ Reachable(t)'
  <2>1. Budgeted(t) /\ Reachable(t)
    BY DEF PipelineInv
  <2>2. Budgeted(t)'
    BY <1>2, <2>1 DEF Budgeted
  <2>3. CASE t # id[w]
    <3>1. \A v \in Workers : id[v] = t => id'[v] = t
      BY <1>3, <2>3
    <3>2. t \in Waiting(queue) => t \in Waiting(queue')
      BY <1>5
    <3>3. Reachable(t)'
      BY <1>1, <1>2, <2>1, <2>3, <3>1, <3>2 DEF Reachable
    <3> QED
      BY <2>2, <3>3
  <2>4. CASE t = id[w]
    <3>1. CASE crash(w) /\ UNCHANGED queueVars
      BY <1>0, <1>4, <2>2, <2>4, <3>1 DEF Working, Reachable, queueVars
    <3>2. CASE queue' = <<id[w]>> \o queue
      <4>1. id[w] \in Waiting(queue')
        BY <1>0, <1>1, <1>4, <3>2, PushLine
      <4> QED
        BY <2>2, <2>4, <4>1 DEF Reachable
    <3>3. CASE pc[w] = "acknowledge"
      BY <1>0, <1>2, <1>4, <2>2, <2>4, <3>3 DEF Working, Reachable
    <3>4. CASE ~(task[w].attempts < MaxAttempts)
      <4>1. task[w].attempts <= attempts[id[w]] /\ task[w].attempts \in Nat /\ attempts[id[w]] \in Nat
        <5>1. task[w] \in RowType
          BY <1>0 DEF Types, ClientTypes
        <5> QED
          BY <1>0, <1>1, <1>4, <5>1 DEF Working, RowType
      <4>2. ~(attempts[t] < MaxAttempts)
        BY <2>4, <3>4, <4>1, BoundsAreNat
      <4>3. state[t] # "QUEUED"
        BY <2>1, <4>2 DEF Budgeted
      <4> QED
        BY <1>2, <2>2, <4>3 DEF Reachable
    <3> QED
      BY <1>1, <3>1, <3>2, <3>3, <3>4
  <2> QED
    BY <2>3, <2>4
<1> QED
  BY <1>6, <1>7, <1>8, <1>9

(* and the steps of trigger_remediation.                                   *)
LEMMA SubmitInv ==
  ASSUME PipelineInv, NEW t \in Tasks, SubmitNext(t)
  PROVE  Delivery' /\ (\A v \in Workers : Working(v)') /\ \A u \in Tasks : Budgeted(u)' /\ Reachable(u)'
<1>0. /\ Types /\ Delivery /\ RowTypes /\ queue \in Seq(Tasks) /\ Distinct(queue)
      /\ lease[t] + 1 \in Nat /\ "PENDING" \in TaskState /\ "QUEUED" \in TaskState
  BY DEF PipelineInv, Types, Delivery, QueueTypeOK, RowTypes, TaskState
<1>1. UNCHANGED <<pc, id, task, processing>> /\ submit[t] # "done" /\ \A u \in Tasks \ {t} : submit'[u] = submit[u]
  BY <1>0, SubmitStep DEF queueVars
<1>2. t \notin Waiting(queue) /\ \A v \in Workers : id[v] # t
  BY <1>0, <1>1, NullsAreFresh DEF Delivery
<1>3. \A u \in Tasks \ {t} : state'[u] = state[u] /\ attempts'[u] = attempts[u]
  BY <1>0, SubmitStep, WriteEffect DEF rowVars
<1>4. \/ Waiting(queue') = Waiting(queue)
      \/ Waiting(queue') = Waiting(queue) \cup {t} /\ submit'[t] = "done"
  BY <1>0, <1>2, SubmitStep, AppendLine DEF queueVars
<1>5. Distinct(queue')
  <2>1. queue' = queue \/ queue' = Append(queue, t)
    BY <1>0, SubmitStep DEF queueVars
  <2> QED
    BY <1>0, <1>2, <2>1, AppendLine
<1>6. Delivery'
  <2>1. Waiting(queue)' = Waiting(queue') /\ Distinct(queue)'
    BY <1>5 DEF Waiting, Distinct
  <2>2. \A u \in Waiting(queue) : u \in Tasks \ {t}
    BY <1>0, <1>2 DEF Waiting
  <2>3. \A u \in Waiting(queue') : submit'[u] = "done"
    BY <1>0, <1>1, <1>4, <2>2 DEF Delivery
  <2>4. ASSUME NEW v \in Workers PROVE id'[v] \notin Waiting(queue') /\ (id'[v] # NoTask => submit'[id'[v]] = "done")
    <3>1. id'[v] = id[v] /\ id[v] # t /\ id[v] \in Tasks \cup {NoTask} /\ id[v] \notin Waiting(queue)
      BY <1>0, <1>1, <1>2 DEF Delivery, Types, ClientTypes
    <3> QED
      BY <1>0, <1>1, <1>4, <3>1 DEF Delivery
  <2> QED
    BY <1>0, <1>1, <2>1, <2>3, <2>4 DEF Delivery
<1>7. ASSUME NEW v \in Workers PROVE Working(v)'
  <2>1. CASE id[v] = NoTask
    BY <1>1, <2>1 DEF Working
  <2>2. CASE id[v] # NoTask
    <3>1. id[v] \in Tasks \ {t} /\ Working(v)
      BY <1>2, <2>2 DEF PipelineInv, Types, ClientTypes
    <3> QED
      BY <1>1, <1>3, <3>1 DEF Working
  <2> QED
    BY <2>1, <2>2
<1>8. ASSUME NEW u \in Tasks \ {t} PROVE Budgeted(u)' /\ Reachable(u)'
  <2>1. Budgeted(u) /\ Reachable(u) /\ (u \in Waiting(queue) => u \in Waiting(queue'))
    BY <1>4 DEF PipelineInv
  <2> QED
    BY <1>1, <1>3, <1>8, <2>1 DEF Budgeted, Reachable
<1>9. Budgeted(t)'
  <2>1. Budgeted(t)
    BY DEF PipelineInv
  <2>2. CASE UNCHANGED rowVars
    BY <2>1, <2>2 DEF rowVars, Budgeted
  <2>3. ASSUME NEW new \in {"PENDING", "QUEUED"}, Write(t, new, lease[t] + 1), state[t] \in {"NONE", "PENDING"} PROVE Budgeted(t)'
    <3>1. state'[t] = new /\ attempts'[t] = IF new = "RUNNING" THEN attempts[t] + 1 ELSE attempts[t]
      BY <1>0, <2>3, WriteEffect
    <3> QED
      BY <2>1, <2>3, <3>1, BoundsAreNat DEF Budgeted
  <2> QED
    BY <1>0, <2>2, <2>3, SubmitStep
<1>10. Reachable(t)'
  <2>1. CASE submit'[t] # "done"
    BY <2>1 DEF Reachable
  <2>2. CASE submit'[t] = "done"
    <3>1. queue' = Append(queue, t)
      BY <1>0, <2>2, SubmitStep
    <3>2. t \in Waiting(queue')
      BY <1>0, <1>2, <3>1, AppendLine
    <3> QED
      BY <3>2 DEF Reachable
  <2> QED
    BY <2>1, <2>2
<1> QED
  BY <1>6, <1>7, <1>8, <1>9, <1>10

(* The invariant is inductive.                                             *)
LEMMA PipelineInvStep == PipelineInv /\ [PipelineNext]_pipelineVars => PipelineInv'
<1> SUFFICES ASSUME PipelineInv, [PipelineNext]_pipelineVars PROVE PipelineInv'
  OBVIOUS
<1>0. Types /\ Types'
  BY PipelineTypes DEF PipelineInv
<1> DEFINE Kept == Delivery' /\ (\A v \in Workers : Working(v)') /\ \A t \in Tasks : Budgeted(t)' /\ Reachable(t)'
<1>1. ASSUME NEW t \in Tasks, SubmitNext(t) PROVE Kept
  BY <1>1, SubmitInv
<1>2. ASSUME NEW w \in Workers, get_task(w) \/ begin_assign(w) \/ execute(w) \/ begin_mutation(w) \/ update_task_read(w) PROVE Kept
  BY <1>2, QuietInv
<1>3. ASSUME NEW w \in Workers, dequeue_task(w) PROVE Kept
  BY <1>3, DequeueInv
<1>4. ASSUME NEW w \in Workers, settle(w) \/ acknowledge_task(w) \/ crash(w) PROVE Kept
  BY <1>4, FinishInv
<1>n. {"RUNNING", "COMPLETED", "FAILED", "QUEUED"} \subseteq TaskState
  BY DEF TaskState
<1>t. ASSUME NEW w \in Workers PROVE id[w] \in Tasks => task[w].attempts \in Nat /\ attempts[id[w]] \in Nat
  <2>1. task[w] \in RowType
    BY <1>0 DEF Types, ClientTypes
  <2> QED
    BY <1>0, <2>1 DEF Types, RowTypes, RowType
<1>5. ASSUME NEW w \in Workers, end_assign(w) PROVE Kept
  <2>1. OwnStep(w) /\ UNCHANGED <<queueVars, submit, id>> /\ pc[w] = "assigning" /\ id[w] \in Tasks
    BY <1>0, <1>5, EndAssignStep DEF Types, ClientTypes, Linked
  <2>2. CASE KeepsRows(w) /\ pc'[w] = "update_running" /\ task' = task
    BY <2>1, <2>2, KeepInv DEF Executing
  <2>3. CASE WritesRow(w, "RUNNING") /\ pc'[w] = "execute" /\ task'[w].attempts = attempts[id[w]] + 1
    BY <1>n, <2>1, <2>3, WriteInv
  <2> QED
    BY <1>0, <1>5, <2>2, <2>3, EndAssignStep
<1>6. ASSUME NEW w \in Workers, end_complete(w) \/ end_failure(w) PROVE Kept
  <2>1. OwnStep(w) /\ UNCHANGED <<queueVars, submit, id, task>> /\ id[w] \in Tasks
    BY <1>0, <1>6, EndMutationStep DEF Types, ClientTypes, Linked
  <2>2. task'[w].attempts = task[w].attempts /\ Working(w) /\ id[w] # NoTask
    BY <2>1, NullsAreFresh DEF PipelineInv
  <2>3. CASE KeepsRows(w) /\ (pc'[w] = "settle" \/ (pc'[w] = "update_completed" /\ pc[w] = "completing"))
    BY <2>1, <2>3, KeepInv DEF Executing
  <2>4. ASSUME NEW new \in {"COMPLETED", "FAILED", "QUEUED"}, WritesRow(w, new), pc'[w] \in {"acknowledge", "settle"},
               pc'[w] = "acknowledge" => new = "COMPLETED", new = "QUEUED" => attempts[id[w]] < MaxAttempts
        PROVE  Kept
    <3>1. task'[w].attempts # attempts[id[w]] + 1
      BY <1>t, <2>1, <2>2 DEF Working
    <3> QED
      BY <1>n, <2>1, <2>2, <2>4, <3>1, WriteInv DEF Executing
  <2>5. \/ KeepsRows(w) /\ (pc'[w] = "settle" \/ (pc'[w] = "update_completed" /\ pc[w] = "completing"))
        \/ \E new \in {"COMPLETED", "FAILED", "QUEUED"} :
               /\ WritesRow(w, new) /\ pc'[w] \in {"acknowledge", "settle"}
               /\ pc'[w] = "acknowledge" => new = "COMPLETED"
               /\ new = "QUEUED" => attempts[id[w]] < MaxAttempts
    BY <1>0, <1>6, EndMutationStep
  <2> QED
    BY <2>3, <2>4, <2>5
<1>7. ASSUME NEW w \in Workers, update_task_write(w) PROVE Kept
  <2>1. OwnStep(w) /\ UNCHANGED <<queueVars, submit, id, task>> /\ id[w] \in Tasks
    BY <1>0, <1>7, UpdateStep DEF Types, ClientTypes, Linked
  <2>2. task'[w].attempts = task[w].attempts /\ Working(w) /\ id[w] # NoTask
    BY <2>1, NullsAreFresh DEF PipelineInv
  <2>3. CASE KeepsRows(w) /\ pc'[w] = "record_failure"
    BY <2>1, <2>3, KeepInv DEF Executing
  <2>4. ASSUME NEW new \in {"COMPLETED", "RUNNING"}, WritesRow(w, new), pc'[w] \in {"acknowledge", "execute"},
               pc'[w] = "execute" => new = "RUNNING"
        PROVE  Kept
    <3>1. task'[w].attempts # attempts[id[w]] + 1
      BY <1>t, <2>1, <2>2 DEF Working
    <3> QED
      BY <1>n, <2>1, <2>2, <2>4, <3>1, WriteInv DEF Executing
  <2> QED
    BY <1>0, <1>7, <2>3, <2>4, UpdateStep
<1>8. ASSUME UNCHANGED <<rowVars, session, held, queueVars, runtimeVars>> PROVE Kept
  <2>1. Delivery'
    BY <1>8, StillDelivered DEF runtimeVars
  <2>2. \A v \in Workers : Working(v)'
    BY <1>8 DEF PipelineInv, Working, rowVars, queueVars, runtimeVars
  <2>3. \A t \in Tasks : Budgeted(t)' /\ Reachable(t)'
    BY <1>8 DEF PipelineInv, Budgeted, Reachable, Waiting, rowVars, queueVars, runtimeVars
  <2> QED
    BY <2>1, <2>2, <2>3
<1>9. Kept
  BY <1>0, <1>1, <1>2, <1>3, <1>4, <1>5, <1>6, <1>7, <1>8, PipelineStep
<1> QED
  BY <1>0, <1>9 DEF PipelineInv

(* It holds at the start.                                                  *)
LEMMA InitTypes == RuntimeInit => Types
<1> SUFFICES ASSUME RuntimeInit PROVE Types
  OBVIOUS
<1>1. /\ session = [w \in Workers |-> Idle] /\ held = [w \in Workers |-> NoLease]
      /\ pc = [w \in Workers |-> "idle"] /\ id = [w \in Workers |-> NoTask]
      /\ task = [w \in Workers |-> NoRow] /\ seen = [w \in Workers |-> NoRow]
      /\ submit = [t \in Tasks |-> "new"] /\ crashes = 0
      /\ queue = <<>> /\ processing = [t \in Tasks |-> 0]
  BY DEF RuntimeInit, Init, QueueInit
<1>2. ClientTypes
  BY <1>1 DEF ClientTypes, Session, HeldLease, RowType, NoRow, PC
<1>3. RowTypes
  BY DEF RuntimeInit, Init, RowTypes
<1>4. \A w \in Workers : Linked(w)
  BY <1>1 DEF Linked
<1>5. QueueTypeOK /\ submit \in [Tasks -> Submit] /\ crashes \in 0..MaxCrashes
  BY <1>1, RuntimeAssumption DEF QueueTypeOK, Submit
<1> QED
  BY <1>2, <1>3, <1>4, <1>5 DEF Types

(* The pipeline keeps the ids, the locals of its workers and the rows      *)
(* together.                                                               *)
THEOREM PipelineInvariant == PipelineSpec => []PipelineInv
<1>1. ASSUME RuntimeInit PROVE PipelineInv
  <2>1. Types
    BY <1>1, InitTypes
  <2>2. /\ id = [w \in Workers |-> NoTask] /\ queue = <<>>
        /\ state = [t \in Tasks |-> "NONE"] /\ attempts = [t \in Tasks |-> 0]
    BY <1>1 DEF RuntimeInit, Init, QueueInit
  <2>3. Waiting(queue) = {} /\ Distinct(queue)
    BY <2>2 DEF Waiting, Distinct
  <2>4. Delivery
    BY <2>2, <2>3 DEF Delivery
  <2> QED
    BY <2>1, <2>2, <2>4 DEF PipelineInv, Working, Budgeted, Reachable
<1> QED
  BY <1>1, PipelineInvStep, PTL DEF PipelineSpec

(* The types of rows, clients, queue and runtime.                          *)
THEOREM TypeCorrect == PipelineSpec => []RuntimeTypeOK
<1>1. PipelineInv => RuntimeTypeOK
  BY DEF PipelineInv, Types, ClientTypes, Linked, RuntimeTypeOK
<1> QED
  BY <1>1, PipelineInvariant, PTL

(* A set of at most one element is counted as 0 or 1.                      *)
LEMMA AtMostOne ==
  ASSUME NEW S, \A x, y \in S : x = y
  PROVE  /\ S = {} => Cardinality(S) = 0
         /\ S # {} => Cardinality(S) = 1
<1>1. CASE S = {}
  BY <1>1, FS_EmptySet
<1>2. CASE S # {}
  <2>1. PICK x \in S : TRUE
    BY <1>2
  <2>2. S = {x}
    BY <2>1
  <2>3. Cardinality({x}) = 1
    BY FS_Singleton
  <2> QED
    BY <1>2, <2>2, <2>3
<1> QED
  BY <1>1, <1>2

(* Delivery in the words of OneDelivery.                                   *)
LEMMA CopiesOf ==
  ASSUME PipelineInv, NEW t \in Tasks
  PROVE  /\ Copies(t) <= 1
         /\ t \in Waiting(queue) \/ (\E w \in Workers : id[w] = t) => Copies(t) > 0
<1> DEFINE places == {i \in DOMAIN queue : queue[i] = t}
<1>1. (\A i, j \in places : i = j) /\ (places # {} <=> t \in Waiting(queue))
  BY DEF PipelineInv, Delivery, Distinct, Waiting
<1>2. (\A v, w \in Holders(t) : v = w) /\ (Holders(t) # {} <=> \E w \in Workers : id[w] = t)
  BY NullsAreFresh DEF PipelineInv, Delivery, Holders
<1>3. places = {} \/ Holders(t) = {}
  BY <1>1, <1>2 DEF PipelineInv, Delivery
<1>4. Copies(t) = Cardinality(places) + Cardinality(Holders(t))
  BY DEF Copies
<1> HIDE DEF places
<1>5. (places = {} => Cardinality(places) = 0) /\ (places # {} => Cardinality(places) = 1)
  BY <1>1, AtMostOne
<1>6. (Holders(t) = {} => Cardinality(Holders(t)) = 0) /\ (Holders(t) # {} => Cardinality(Holders(t)) = 1)
  BY <1>2, AtMostOne
<1>7. Copies(t) <= 1
  BY <1>3, <1>4, <1>5, <1>6
<1>8. places # {} \/ Holders(t) # {} => Copies(t) > 0
  BY <1>3, <1>4, <1>5, <1>6
<1> QED
  BY <1>1, <1>2, <1>7, <1>8

(* A task id is on the queue once, or with one worker, and never both,     *)
(* whatever is refused, fails or dies in process_task; so no two workers   *)
(* execute a task at once.                                                 *)
THEOREM DeliveredOnce == PipelineSpec => []OneDelivery
<1>1. PipelineInv => OneDelivery
  BY CopiesOf DEF OneDelivery
<1> QED
  BY <1>1, PipelineInvariant, PTL

(* No QUEUED task is lost: it is on the queue, with a worker, or on the    *)
(* processing list that a crash leaves behind.                             *)
THEOREM QueuedIsReachable == PipelineSpec => []QueuedTaskIsReachable
<1>1. PipelineInv => QueuedTaskIsReachable
  BY CopiesOf DEF PipelineInv, QueuedTaskIsReachable, Reachable
<1> QED
  BY <1>1, PipelineInvariant, PTL

(* A terminal row is never written again, although update_task compares a  *)
(* row only with what it read itself: the worker that calls it is the only *)
(* one that has the task, and finds it RUNNING.                            *)
THEOREM TerminalStays == PipelineSpec => TerminalIsFinal
<1> DEFINE Final == \A t \in Tasks : state[t] \in Terminal => UNCHANGED <<state[t], attempts[t], lease[t], owner[t], audit[t]>>
<1>1. ASSUME PipelineInv, [PipelineNext]_pipelineVars PROVE Final
  <2>0. Types /\ RowTypes
    BY <1>1 DEF PipelineInv, Types
  <2>1. ASSUME UNCHANGED rowVars PROVE Final
    BY <2>1 DEF rowVars
  <2>2. ASSUME NEW t \in Tasks, NEW new \in TaskState, Write(t, new, lease[t] + 1), state[t] \notin Terminal PROVE Final
    <3>1. lease[t] + 1 \in Nat
      BY <2>0 DEF RowTypes
    <3>2. \A u \in Tasks \ {t} : /\ state'[u] = state[u] /\ lease'[u] = lease[u] /\ owner'[u] = owner[u]
                                 /\ attempts'[u] = attempts[u] /\ audit'[u] = audit[u]
      BY <2>0, <2>2, <3>1, WriteEffect
    <3> QED
      BY <2>2, <3>2
  <2>3. ASSUME NEW w \in Workers, NEW new \in TaskState, WritesRow(w, new), state[id[w]] \notin Terminal PROVE Final
    BY <2>2, <2>3 DEF WritesRow
  <2>4. ASSUME NEW w \in Workers, KeepsRows(w) PROVE Final
    BY <2>1, <2>4 DEF KeepsRows
  <2>n. /\ {"PENDING", "RUNNING", "COMPLETED", "FAILED", "QUEUED"} \subseteq TaskState
        /\ {"NONE", "PENDING", "QUEUED", "RUNNING"} \cap Terminal = {}
    BY DEF TaskState, Terminal
  <2> HIDE DEF Final
  <2>5. ASSUME NEW t \in Tasks, SubmitNext(t) PROVE Final
    BY <2>0, <2>1, <2>2, <2>5, <2>n, SubmitStep
  <2>6. ASSUME NEW w \in Workers, get_task(w) \/ begin_assign(w) \/ execute(w) \/ begin_mutation(w) \/ update_task_read(w) PROVE Final
    BY <2>0, <2>4, <2>6, QuietStep
  <2>7. ASSUME NEW w \in Workers, dequeue_task(w) PROVE Final
    BY <2>0, <2>4, <2>7, DequeueStep
  <2>8. ASSUME NEW w \in Workers, end_assign(w) PROVE Final
    BY <2>0, <2>3, <2>4, <2>8, <2>n, EndAssignStep DEF CanAssign
  <2>9. ASSUME NEW w \in Workers, end_complete(w) \/ end_failure(w) PROVE Final
    BY <2>0, <2>3, <2>4, <2>9, <2>n, EndMutationStep
  <2>10. ASSUME NEW w \in Workers, update_task_write(w) PROVE Final
    <3>1. CASE WritesRow(w, "COMPLETED") /\ pc[w] = "write_completed"
      <4>1. state[id[w]] = "RUNNING"
        BY <1>1, <3>1, NullsAreFresh DEF WritesRow, PipelineInv, Working, Executing
      <4> QED
        BY <2>3, <2>n, <3>1, <4>1
    <3>2. CASE WritesRow(w, "RUNNING") /\ state[id[w]] \notin Terminal
      BY <2>3, <2>n, <3>2
    <3> QED
      BY <2>0, <2>4, <2>10, <3>1, <3>2, UpdateStep
  <2>11. ASSUME NEW w \in Workers, settle(w) \/ acknowledge_task(w) \/ crash(w) PROVE Final
    BY <2>0, <2>4, <2>11, FinishStep
  <2> QED
    BY <1>1, <2>0, <2>1, <2>5, <2>6, <2>7, <2>8, <2>9, <2>10, <2>11, PipelineStep
<1> QED
  BY <1>1, PipelineInvariant, PTL DEF PipelineSpec, TerminalIsFinal

-----------------------------------------------------------------------------
(* Recovery beside the pipeline.  A leader that has moved a row and not yet *)
(* queued it is Unsettled: it may still roll the row back to the           *)
(* lease_version it found, so lease_version can go down.                   *)

LeaderRec == [pc : LeaderPC, token : 0..MaxLeases, cur : Snapshot \cup {NoSnapshot}]

LeaderTypes ==
    /\ lock \in [owner : Nodes \cup {NoNode}, token : 0..MaxLeases, live : BOOLEAN]
    /\ issued \in 0..MaxLeases
    /\ leader \in [Nodes -> LeaderRec]
    /\ plan \in [Nodes -> SUBSET Snapshot]
    /\ \A n \in Nodes : leader[n].pc \in {"transition", "recheck", "enqueue", "rollback"} => leader[n].cur \in Snapshot

(* The effect of a leader's step on its own record.                        *)
Moved(n, p, c) ==
    /\ leader' \in [Nodes -> LeaderRec]
    /\ leader'[n].pc = p /\ leader'[n].cur = c
    /\ \A m \in Nodes \ {n} : leader'[m] = leader[m]

(* A leader goes on to another place,                                      *)
LEMMA GoMoves ==
  ASSUME LeaderTypes, NEW n \in Nodes, NEW p \in LeaderPC, Go(n, p)
  PROVE  Moved(n, p, leader[n].cur)
<1>1. leader \in [Nodes -> LeaderRec] /\ leader' = [leader EXCEPT ![n] = [leader[n] EXCEPT !.pc = p]]
  BY DEF LeaderTypes, Go
<1>2. leader[n] \in LeaderRec
  BY <1>1
<1>3. [leader[n] EXCEPT !.pc = p] \in LeaderRec /\ [leader[n] EXCEPT !.pc = p].pc = p /\ [leader[n] EXCEPT !.pc = p].cur = leader[n].cur
  BY <1>2 DEF LeaderRec
<1> QED
  BY <1>1, <1>3 DEF Moved

(* or takes the next task of its list.                                     *)
LEMMA TakeMoves ==
  ASSUME LeaderTypes, NEW n \in Nodes, NEW p \in LeaderPC, NEW c \in Snapshot \cup {NoSnapshot},
         leader' = [leader EXCEPT ![n] = [@ EXCEPT !.pc = p, !.cur = c]]
  PROVE  Moved(n, p, c)
<1>1. leader \in [Nodes -> LeaderRec] /\ leader' = [leader EXCEPT ![n] = [leader[n] EXCEPT !.pc = p, !.cur = c]]
  BY DEF LeaderTypes
<1>2. leader[n] \in LeaderRec
  BY <1>1
<1> DEFINE r == [leader[n] EXCEPT !.pc = p, !.cur = c]
<1>3. r \in LeaderRec /\ r.pc = p /\ r.cur = c
  BY <1>2 DEF LeaderRec
<1> HIDE DEF r
<1>4. leader' = [leader EXCEPT ![n] = r]
  BY <1>1 DEF r
<1> QED
  BY <1>1, <1>3, <1>4 DEF Moved

(* A leader that works on a task has its snapshot.                         *)
LEMMA SnapshotFacts ==
  ASSUME LeaderTypes, NEW n \in Nodes, leader[n].pc \in {"transition", "recheck", "enqueue", "rollback"}
  PROVE  leader[n].cur.task \in Tasks /\ leader[n].cur.lease \in Nat
<1>1. leader[n].cur \in Snapshot
  BY DEF LeaderTypes
<1> QED
  BY <1>1 DEF Snapshot

(* A leader's step that leaves rows and leases alone and begins nothing:   *)
(* whoever is Unsettled after it was so before, with the same snapshot.    *)
LeaderQuiet ==
    /\ UNCHANGED <<rowVars, held>>
    /\ \A n \in Nodes : Unsettled(n)' => Unsettled(n) /\ leader'[n].cur = leader[n].cur

(* transition_orphan, committed.                                           *)
LeaderMoves(n) ==
    LET s == leader[n].cur IN
    /\ leader[n].pc = "transition"
    /\ lease[s.task] = s.lease /\ state[s.task] = "RUNNING" /\ owner' = owner /\ held' = held
    /\ Write(s.task, target(s), lease[s.task] + 1)
    /\ Moved(n, "recheck", s)

(* rollback_orphan, committed.                                             *)
LeaderRestores(n) ==
    LET s == leader[n].cur IN
    /\ leader[n].pc = "rollback"
    /\ lease[s.task] = s.lease + 1 /\ owner' = owner /\ held' = held
    /\ Write(s.task, "RUNNING", s.lease)
    /\ Moved(n, "release", s)

(* Every step of a leader is one of these, and queues at most its own      *)
(* task.                                                                   *)
LEMMA LeaderStep ==
  ASSUME Types, LeaderTypes, NEW n \in Nodes, LeaderNext(n)
  PROVE  /\ LeaderTypes'
         /\ LeaderQuiet \/ LeaderMoves(n) \/ LeaderRestores(n)
         /\ UNCHANGED <<session, pc, id, task, seen, submit, crashes>>
         /\ UNCHANGED queueVars \/ (queue' = Append(queue, leader[n].cur.task) /\ leader[n].cur.task \in Tasks /\ UNCHANGED processing)
<1>p. {"idle", "scan", "next", "transition", "recheck", "enqueue", "rollback", "release"} \subseteq LeaderPC
  BY DEF LeaderPC
<1>r. RowTypes
  BY DEF Types
<1>1. CASE acquire(n) \/ preempt(n)
  <2>1. /\ NewLease(n) /\ UNCHANGED <<pipelineVars, plan>> /\ issued' = issued + 1 /\ issued < MaxLeases
        /\ lock' = [owner |-> n, token |-> issued + 1, live |-> TRUE]
        /\ leader' = [leader EXCEPT ![n] = [@ EXCEPT !.pc = "scan", !.token = issued + 1]]
    BY <1>1 DEF acquire, preempt, NewLease
  <2>2. issued + 1 \in 0..MaxLeases
    BY <2>1, ClusterAssumption DEF LeaderTypes
  <2>3. Moved(n, "scan", leader[n].cur)
    <3> DEFINE r == [leader[n] EXCEPT !.pc = "scan", !.token = issued + 1]
    <3>1. leader[n] \in LeaderRec /\ leader \in [Nodes -> LeaderRec]
      BY DEF LeaderTypes
    <3>2. r \in LeaderRec /\ r.pc = "scan" /\ r.cur = leader[n].cur
      BY <1>p, <2>2, <3>1 DEF LeaderRec
    <3> HIDE DEF r
    <3>3. leader' = [leader EXCEPT ![n] = r]
      BY <2>1 DEF r
    <3> QED
      BY <3>1, <3>2, <3>3 DEF Moved
  <2>4. lock' \in [owner : Nodes \cup {NoNode}, token : 0..MaxLeases, live : BOOLEAN]
    BY <2>1, <2>2
  <2>5. LeaderTypes'
    BY <2>1, <2>2, <2>3, <2>4 DEF LeaderTypes, Moved
  <2>6. LeaderQuiet
    BY <2>1, <2>3 DEF LeaderQuiet, Moved, Unsettled, pipelineVars, vars, taskVars, clientVars, rowVars
  <2> QED
    BY <2>1, <2>5, <2>6 DEF pipelineVars, vars, clientVars, runtimeVars
<1>2. CASE scan_orphans(n)
  <2>1. PICK orphans \in SUBSET {t \in Tasks : state[t] = "RUNNING"} :
             plan' = [plan EXCEPT ![n] = {[task |-> t, lease |-> lease[t], attempts |-> attempts[t]] : t \in orphans}]
    BY <1>2 DEF scan_orphans
  <2>2. Moved(n, "next", leader[n].cur) /\ UNCHANGED <<pipelineVars, lock, issued>>
    BY <1>2, <1>p, GoMoves DEF scan_orphans
  <2>3. \A t \in Tasks : [task |-> t, lease |-> lease[t], attempts |-> attempts[t]] \in Snapshot
    BY <1>r DEF RowTypes, Snapshot
  <2>4. plan' \in [Nodes -> SUBSET Snapshot]
    <3> DEFINE listed == {[task |-> t, lease |-> lease[t], attempts |-> attempts[t]] : t \in orphans}
    <3>1. listed \in SUBSET Snapshot
      BY <2>3
    <3> HIDE DEF listed
    <3>2. plan' = [plan EXCEPT ![n] = listed] /\ plan \in [Nodes -> SUBSET Snapshot]
      BY <2>1 DEF listed, LeaderTypes
    <3> QED
      BY <3>1, <3>2
  <2> QED
    BY <2>2, <2>4 DEF LeaderTypes, LeaderQuiet, Moved, Unsettled, pipelineVars, vars, taskVars, clientVars, rowVars, runtimeVars
<1>3. CASE next_task(n)
  <2>1. UNCHANGED <<pipelineVars, lock, issued>> /\ leader[n].pc = "next"
    BY <1>3 DEF next_task
  <2>2. \/ Moved(n, "release", leader[n].cur) /\ plan' = plan
        \/ \E s \in plan[n] : Moved(n, "transition", s) /\ plan' = [plan EXCEPT ![n] = @ \ {s}]
    <3>1. CASE Go(n, "release") /\ UNCHANGED plan
      BY <1>p, <3>1, GoMoves
    <3>2. ASSUME NEW s \in plan[n], leader' = [leader EXCEPT ![n] = [@ EXCEPT !.pc = "transition", !.cur = s]],
                 plan' = [plan EXCEPT ![n] = @ \ {s}]
          PROVE  \E x \in plan[n] : Moved(n, "transition", x) /\ plan' = [plan EXCEPT ![n] = @ \ {x}]
      <4>1. s \in Snapshot
        BY DEF LeaderTypes
      <4>2. Moved(n, "transition", s)
        BY <1>p, <3>2, <4>1, TakeMoves
      <4> QED
        BY <3>2, <4>2
    <3> QED
      BY <1>3, <3>1, <3>2 DEF next_task
  <2>3. LeaderTypes'
    <3>1. CASE Moved(n, "release", leader[n].cur) /\ plan' = plan
      BY <2>1, <3>1 DEF LeaderTypes, Moved
    <3>2. ASSUME NEW s \in plan[n], Moved(n, "transition", s), plan' = [plan EXCEPT ![n] = @ \ {s}] PROVE LeaderTypes'
      BY <2>1, <3>2 DEF LeaderTypes, Moved
    <3> QED
      BY <2>2, <3>1, <3>2
  <2>4. LeaderQuiet
    BY <2>1, <2>2 DEF LeaderQuiet, Moved, Unsettled, pipelineVars, vars, taskVars, clientVars, rowVars
  <2> QED
    BY <2>1, <2>3, <2>4 DEF pipelineVars, vars, clientVars, runtimeVars
<1>4. CASE transition_orphan(n)
  <2> DEFINE c == leader[n].cur
  <2>1. /\ leader[n].pc = "transition" /\ c.task \in Tasks /\ c.lease \in Nat /\ c \in Snapshot
        /\ UNCHANGED <<session, held, queueVars, runtimeVars, lock, issued, plan>>
    BY <1>4, SnapshotFacts DEF transition_orphan, clientVars, LeaderTypes
  <2>2. \/ atomic_transition(c.task, c.lease, {"RUNNING"}, target(c), c.lease + 1) /\ Go(n, "recheck")
        \/ Go(n, "next") /\ UNCHANGED taskVars
    BY <1>4 DEF transition_orphan
  <2> HIDE DEF c
  <2>3. ASSUME atomic_transition(c.task, c.lease, {"RUNNING"}, target(c), c.lease + 1), Go(n, "recheck")
        PROVE  LeaderTypes' /\ LeaderMoves(n)
    <3>1. Moved(n, "recheck", c)
      BY <1>p, <2>3, GoMoves DEF c
    <3>3. Write(c.task, target(c), c.lease + 1) /\ lease[c.task] = c.lease /\ state[c.task] = "RUNNING" /\ owner' = owner
      BY <1>r, <2>1, <2>3, CasWrites
    <3>4. LeaderTypes'
      BY <2>1, <3>1 DEF LeaderTypes, Moved
    <3> QED
      BY <2>1, <3>1, <3>3, <3>4 DEF LeaderMoves, c
  <2>4. ASSUME Go(n, "next"), UNCHANGED taskVars PROVE LeaderTypes' /\ LeaderQuiet
    <3>1. Moved(n, "next", c)
      BY <1>p, <2>4, GoMoves DEF c
    <3> QED
      BY <2>1, <2>4, <3>1 DEF LeaderTypes, LeaderQuiet, Moved, Unsettled, taskVars, rowVars
  <2> QED
    BY <2>1, <2>2, <2>3, <2>4 DEF runtimeVars
<1>5. CASE recheck_lock(n)
  <2>1. PICK p \in {"rollback", "enqueue", "next"} : Go(n, p)
    BY <1>5 DEF recheck_lock
  <2>2. Moved(n, p, leader[n].cur)
    BY <1>p, <2>1, GoMoves
  <2>3. leader[n].pc = "recheck" /\ UNCHANGED <<pipelineVars, lock, issued, plan>>
    BY <1>5 DEF recheck_lock
  <2> QED
    BY <2>2, <2>3 DEF LeaderTypes, LeaderQuiet, Moved, Unsettled, pipelineVars, vars, taskVars, clientVars, rowVars, runtimeVars
<1>6. CASE enqueue_orphan(n)
  <2>1. PICK p \in {"rollback", "next"} : Go(n, p)
    BY <1>6 DEF enqueue_orphan
  <2>2. Moved(n, p, leader[n].cur)
    BY <1>p, <2>1, GoMoves
  <2>3. leader[n].pc = "enqueue" /\ UNCHANGED <<vars, runtimeVars, lock, issued, plan>>
    BY <1>6 DEF enqueue_orphan
  <2>4. UNCHANGED queueVars \/ (queue' = Append(queue, leader[n].cur.task) /\ leader[n].cur.task \in Tasks /\ UNCHANGED processing)
    BY <1>6, <2>3, SnapshotFacts DEF enqueue_orphan, enqueue, queueVars
  <2> QED
    BY <2>2, <2>3, <2>4 DEF LeaderTypes, LeaderQuiet, Moved, Unsettled, vars, taskVars, clientVars, rowVars, runtimeVars
<1>7. CASE rollback_orphan(n)
  <2> DEFINE c == leader[n].cur
  <2>1. /\ leader[n].pc = "rollback" /\ c.task \in Tasks /\ c.lease \in Nat /\ c \in Snapshot
        /\ UNCHANGED <<session, held, queueVars, runtimeVars, lock, issued, plan>>
    BY <1>7, SnapshotFacts DEF rollback_orphan, clientVars, LeaderTypes
  <2>2. /\ Go(n, "release")
        /\ atomic_transition(c.task, c.lease + 1, {target(c)}, "RUNNING", c.lease) \/ UNCHANGED taskVars
    BY <1>7 DEF rollback_orphan
  <2>3. Moved(n, "release", c)
    BY <1>p, <2>2, GoMoves
  <2>4. LeaderTypes'
    BY <2>1, <2>3 DEF LeaderTypes, Moved
  <2> HIDE DEF c
  <2>5. ASSUME atomic_transition(c.task, c.lease + 1, {target(c)}, "RUNNING", c.lease) PROVE LeaderRestores(n)
    <3>1. Write(c.task, "RUNNING", c.lease) /\ lease[c.task] = c.lease + 1 /\ owner' = owner
      BY <1>r, <2>1, <2>5, CasWrites
    <3> QED
      BY <2>1, <2>3, <3>1 DEF LeaderRestores, c
  <2>6. ASSUME UNCHANGED taskVars PROVE LeaderQuiet
    BY <2>1, <2>3, <2>6 DEF LeaderQuiet, Moved, Unsettled, taskVars, rowVars
  <2> QED
    BY <2>1, <2>2, <2>4, <2>5, <2>6 DEF runtimeVars
<1>8. CASE release(n) \/ crash_leader(n)
  <2>1. /\ leader' = [leader EXCEPT ![n] = [@ EXCEPT !.pc = "idle", !.cur = NoSnapshot]]
        /\ plan' = [plan EXCEPT ![n] = {}]
        /\ lock' = NoLock \/ lock' = lock
        /\ UNCHANGED <<pipelineVars, issued>>
    BY <1>8 DEF release, crash_leader
  <2>2. Moved(n, "idle", NoSnapshot)
    BY <1>p, <2>1, TakeMoves
  <2>3. lock' \in [owner : Nodes \cup {NoNode}, token : 0..MaxLeases, live : BOOLEAN]
    <3>1. 0 \in 0..MaxLeases
      BY ClusterAssumption
    <3>2. NoLock \in [owner : Nodes \cup {NoNode}, token : 0..MaxLeases, live : BOOLEAN]
      BY <3>1 DEF NoLock
    <3> QED
      BY <2>1, <3>2 DEF LeaderTypes
  <2> QED
    BY <2>1, <2>2, <2>3 DEF LeaderTypes, LeaderQuiet, Moved, Unsettled, pipelineVars, vars, taskVars, clientVars, rowVars, runtimeVars
<1> QED
  BY <1>1, <1>2, <1>3, <1>4, <1>5, <1>6, <1>7, <1>8 DEF LeaderNext

-----------------------------------------------------------------------------
(* Why a lease_version still names one owner although a rollback brings    *)
(* old ones back: the versions that leaders can restore are behind the row *)
(* and at least two apart, so a row that has moved on never returns past   *)
(* one, and a row that can return has had no other owner meanwhile.        *)

(* A leader's snapshot is behind the row, which is not RUNNING before      *)
(* somebody else moves it.                                                 *)
Ahead(n) ==
    Unsettled(n) =>
        LET s == leader[n].cur IN
        /\ s.lease < lease[s.task]
        /\ lease[s.task] = s.lease + 1 => state[s.task] # "RUNNING"

(* Two leaders that could both restore a task are not next to each other.  *)
Apart(n, m) ==
    Unsettled(n) /\ Unsettled(m) /\ n # m /\ leader[n].cur.task = leader[m].cur.task =>
        \/ leader[n].cur.lease + 2 <= leader[m].cur.lease
        \/ leader[m].cur.lease + 2 <= leader[n].cur.lease

(* A remembered lease is not ahead of the row, names its owner while it is *)
(* current, and would name it again after any rollback.                    *)
Fenced(w) ==
    held[w] # NoLease =>
        LET t == held[w].task  v == held[w].lease IN
        /\ v <= lease[t]
        /\ lease[t] = v /\ state[t] = "RUNNING" => owner[t] = w
        /\ \A n \in Nodes : Unsettled(n) /\ leader[n].cur.task = t =>
               /\ leader[n].cur.lease + 1 # v
               /\ leader[n].cur.lease = v /\ lease[t] = v + 1 => owner[t] = w

LeaseInv ==
    /\ \A n \in Nodes : Ahead(n)
    /\ \A n, m \in Nodes : Apart(n, m)
    /\ \A w \in Workers : Fenced(w)

(* What a worker remembers has a type,                                     *)
LEMMA HeldFacts ==
  ASSUME ClientTypes, NEW w \in Workers
  PROVE  /\ held[w] # NoLease => held[w].task \in Tasks /\ held[w].lease \in Nat
         /\ held[w] = NoLease => held[w].task \notin Tasks
<1>1. held[w] \in HeldLease
  BY DEF ClientTypes
<1>2. NoLease.task = NoTask
  BY DEF NoLease
<1> QED
  BY <1>1, <1>2, NullsAreFresh DEF HeldLease

(* and so has what a leader may restore.                                   *)
LEMMA UnsettledFacts ==
  ASSUME LeaderTypes, NEW n \in Nodes, Unsettled(n)
  PROVE  leader[n].cur.task \in Tasks /\ leader[n].cur.lease \in Nat
BY SnapshotFacts DEF Unsettled

(* A step that leaves the rows alone and makes nobody Unsettled.           *)
LEMMA QuietKeepsLeases ==
  ASSUME LeaseInv, UNCHANGED rowVars, \A w \in Workers : held'[w] \in {held[w], NoLease},
         \A n \in Nodes : Unsettled(n)' => Unsettled(n) /\ leader'[n].cur = leader[n].cur
  PROVE  LeaseInv'
<1>0. state' = state /\ lease' = lease /\ owner' = owner
  BY DEF rowVars
<1>1. \A n \in Nodes : Ahead(n)'
  BY <1>0 DEF LeaseInv, Ahead
<1>2. \A n, m \in Nodes : Apart(n, m)'
  BY DEF LeaseInv, Apart
<1>3. ASSUME NEW w \in Workers PROVE Fenced(w)'
  <2>1. CASE held'[w] = NoLease
    BY <2>1 DEF Fenced
  <2>2. CASE held'[w] = held[w]
    BY <1>0, <2>2 DEF LeaseInv, Fenced
  <2> QED
    BY <2>1, <2>2
<1> QED
  BY <1>1, <1>2, <1>3 DEF LeaseInv

(* A transition that raises the version, by anyone but a leader.           *)
LEMMA RaiseKeepsLeases ==
  ASSUME Types, LeaderTypes, LeaseInv, leader' = leader,
         NEW t \in Tasks, NEW new \in TaskState, Write(t, new, lease[t] + 1),
         \A w \in Workers : \/ held'[w] \in {held[w], NoLease}
                            \/ held'[w].task = t /\ held'[w].lease = lease[t] + 1 /\ owner'[t] = w
  PROVE  LeaseInv'
<1>0. RowTypes /\ ClientTypes /\ lease[t] + 1 \in Nat /\ lease[t] \in Nat
  BY DEF Types, RowTypes
<1>1. /\ lease'[t] = lease[t] + 1 /\ lease[t] \in Nat
      /\ \A u \in Tasks \ {t} : state'[u] = state[u] /\ lease'[u] = lease[u] /\ owner'[u] = owner[u]
  BY <1>0, WriteEffect
<1>2. ASSUME NEW n \in Nodes PROVE Unsettled(n)' = Unsettled(n) /\ leader'[n].cur = leader[n].cur
  BY DEF Unsettled
<1>3. ASSUME NEW n \in Nodes, Unsettled(n)
      PROVE  /\ leader[n].cur.task \in Tasks /\ leader[n].cur.lease \in Nat /\ leader[n].cur.lease < lease[leader[n].cur.task]
             /\ leader[n].cur.task = t => leader[n].cur.lease + 1 < lease'[t]
  <2>1. leader[n].cur.task \in Tasks /\ leader[n].cur.lease \in Nat /\ leader[n].cur.lease < lease[leader[n].cur.task]
    BY <1>3, UnsettledFacts DEF LeaseInv, Ahead
  <2> QED
    BY <1>1, <2>1
<1>4. ASSUME NEW n \in Nodes PROVE Ahead(n)'
  <2> SUFFICES ASSUME Unsettled(n) PROVE Ahead(n)'
    BY <1>2 DEF Ahead
  <2>1. CASE leader[n].cur.task = t
    BY <1>1, <1>2, <1>3, <2>1 DEF Ahead
  <2>2. CASE leader[n].cur.task # t
    BY <1>1, <1>2, <1>3, <2>2 DEF LeaseInv, Ahead
  <2> QED
    BY <2>1, <2>2
<1>5. \A n, m \in Nodes : Apart(n, m)'
  BY <1>2 DEF LeaseInv, Apart
<1>6. ASSUME NEW w \in Workers PROVE Fenced(w)'
  <2>1. CASE held'[w] = NoLease
    BY <2>1 DEF Fenced
  <2>2. CASE held'[w] = held[w] /\ held[w] # NoLease
    <3>1. held[w].task \in Tasks /\ held[w].lease \in Nat /\ Fenced(w)
      BY <1>0, <2>2, HeldFacts DEF LeaseInv
    <3>2. CASE held[w].task # t
      BY <1>1, <1>2, <2>2, <3>1, <3>2 DEF Fenced
    <3>3. CASE held[w].task = t
      <4>1. held[w].lease <= lease[t] /\ held[w].lease < lease'[t]
        BY <1>1, <2>2, <3>1, <3>3 DEF Fenced
      <4>2. ASSUME NEW n \in Nodes, Unsettled(n), leader[n].cur.task = t
            PROVE  leader[n].cur.lease + 1 # held[w].lease /\ ~(leader[n].cur.lease = held[w].lease /\ lease'[t] = held[w].lease + 1)
        <5>1. leader[n].cur.lease + 1 < lease'[t] /\ leader[n].cur.lease \in Nat
          BY <1>3, <4>2
        <5>2. leader[n].cur.lease + 1 # held[w].lease
          BY <2>2, <3>1, <3>3, <4>2 DEF Fenced
        <5> QED
          BY <3>1, <5>1, <5>2
      <4> QED
        BY <1>1, <1>2, <2>2, <3>1, <3>3, <4>1, <4>2 DEF Fenced
    <3> QED
      BY <3>2, <3>3
  <2>3. CASE held'[w].task = t /\ held'[w].lease = lease[t] + 1 /\ owner'[t] = w
    <3>1. ASSUME NEW n \in Nodes, Unsettled(n), leader[n].cur.task = t PROVE leader[n].cur.lease + 1 # lease[t] + 1
      BY <1>1, <1>3, <3>1
    <3> QED
      BY <1>1, <1>2, <2>3, <3>1 DEF Fenced
  <2> QED
    BY <2>1, <2>2, <2>3
<1> QED
  BY <1>4, <1>5, <1>6 DEF LeaseInv

(* transition_orphan: the leader becomes Unsettled with the version it     *)
(* just left.                                                              *)
LEMMA MoveKeepsLeases ==
  ASSUME Types, LeaderTypes, LeaseInv, NEW n \in Nodes, LeaderMoves(n)
  PROVE  LeaseInv'
<1> DEFINE t == leader[n].cur.task
           v == leader[n].cur.lease
<1>0. RowTypes /\ ClientTypes /\ t \in Tasks /\ v \in Nat /\ leader[n].pc = "transition" /\ ~Unsettled(n)
  BY SnapshotFacts DEF Types, LeaderMoves, Unsettled
<1>1. /\ lease[t] = v /\ state[t] = "RUNNING" /\ owner' = owner /\ held' = held /\ Moved(n, "recheck", leader[n].cur)
      /\ \E new \in {"QUEUED", "FAILED"} : Write(t, new, lease[t] + 1)
  BY DEF LeaderMoves, target
<1> HIDE DEF t, v
<1>2. /\ lease'[t] = v + 1 /\ state'[t] # "RUNNING"
      /\ \A u \in Tasks \ {t} : state'[u] = state[u] /\ lease'[u] = lease[u]
  <2>1. PICK new \in {"QUEUED", "FAILED"} : Write(t, new, lease[t] + 1)
    BY <1>1
  <2>2. new \in TaskState /\ new # "RUNNING" /\ lease[t] + 1 \in Nat
    BY <1>0, <1>1 DEF TaskState
  <2> QED
    BY <1>0, <1>1, <2>1, <2>2, WriteEffect
<1>3. /\ Unsettled(n)' /\ leader'[n].cur.task = t /\ leader'[n].cur.lease = v
      /\ \A m \in Nodes \ {n} : Unsettled(m)' = Unsettled(m) /\ leader'[m].cur = leader[m].cur
  BY <1>1 DEF Moved, Unsettled, t, v
<1>4. ASSUME NEW m \in Nodes \ {n}, Unsettled(m)
      PROVE  /\ leader[m].cur.task \in Tasks /\ leader[m].cur.lease \in Nat /\ Ahead(m)
             /\ leader[m].cur.task = t => leader[m].cur.lease + 2 <= v
  <2>1. leader[m].cur.task \in Tasks /\ leader[m].cur.lease \in Nat /\ Ahead(m)
    BY <1>4, UnsettledFacts DEF LeaseInv
  <2>2. ASSUME leader[m].cur.task = t PROVE leader[m].cur.lease + 2 <= v
    <3>1. leader[m].cur.lease < v /\ v # leader[m].cur.lease + 1
      BY <1>1, <1>4, <2>1, <2>2 DEF Ahead
    <3> QED
      BY <1>0, <2>1, <3>1
  <2> QED
    BY <2>1, <2>2
<1>5. ASSUME NEW m \in Nodes PROVE Ahead(m)'
  <2>1. CASE m = n
    BY <1>0, <1>2, <1>3, <2>1 DEF Ahead
  <2>2. CASE m # n /\ Unsettled(m)
    <3>1. CASE leader[m].cur.task = t
      BY <1>0, <1>2, <1>3, <1>4, <2>2, <3>1 DEF Ahead
    <3>2. CASE leader[m].cur.task # t
      BY <1>2, <1>3, <1>4, <2>2, <3>2 DEF Ahead
    <3> QED
      BY <3>1, <3>2
  <2>3. CASE m # n /\ ~Unsettled(m)
    BY <1>3, <2>3 DEF Ahead
  <2> QED
    BY <2>1, <2>2, <2>3
<1>6. ASSUME NEW m \in Nodes, NEW k \in Nodes PROVE Apart(m, k)'
  <2>1. CASE m # n /\ k # n
    BY <1>3, <2>1 DEF LeaseInv, Apart
  <2>2. CASE m = n /\ k # n
    BY <1>3, <1>4, <2>2 DEF Apart
  <2>3. CASE m # n /\ k = n
    BY <1>3, <1>4, <2>3 DEF Apart
  <2>4. CASE m = n /\ k = n
    BY <2>4 DEF Apart
  <2> QED
    BY <2>1, <2>2, <2>3, <2>4
<1>7. ASSUME NEW w \in Workers PROVE Fenced(w)'
  <2> SUFFICES ASSUME held[w] # NoLease PROVE Fenced(w)'
    BY <1>1 DEF Fenced
  <2>1. held[w].task \in Tasks /\ held[w].lease \in Nat /\ Fenced(w) /\ held'[w] = held[w]
    BY <1>0, <1>1, HeldFacts DEF LeaseInv
  <2>2. CASE held[w].task # t
    BY <1>1, <1>2, <1>3, <2>1, <2>2 DEF Fenced
  <2>3. CASE held[w].task = t
    <3>1. held[w].lease <= v /\ (held[w].lease = v => owner[t] = w)
      BY <1>1, <2>1, <2>3 DEF Fenced
    <3>2. held[w].lease <= lease'[t] /\ lease'[t] # held[w].lease
      BY <1>0, <1>2, <2>1, <3>1
    <3>3. ASSUME NEW m \in Nodes, Unsettled(m)', leader'[m].cur.task = t
          PROVE  /\ leader'[m].cur.lease + 1 # held[w].lease
                 /\ leader'[m].cur.lease = held[w].lease /\ lease'[t] = held[w].lease + 1 => owner'[t] = w
      <4>1. CASE m = n
        <5>1. v + 1 # held[w].lease
          BY <1>0, <2>1, <3>1
        <5> QED
          BY <1>1, <1>3, <3>1, <4>1, <5>1
      <4>2. CASE m # n
        <5>1. Unsettled(m) /\ leader'[m].cur = leader[m].cur /\ leader[m].cur.task = t
          BY <1>3, <3>3, <4>2
        <5>2. leader[m].cur.lease + 1 # held[w].lease
          BY <2>1, <2>3, <5>1 DEF Fenced
        <5>3. leader[m].cur.lease + 2 <= v /\ leader[m].cur.lease \in Nat
          BY <1>4, <4>2, <5>1
        <5> QED
          BY <1>0, <1>2, <2>1, <5>1, <5>2, <5>3
      <4> QED
        BY <4>1, <4>2
    <3> QED
      BY <2>1, <2>3, <3>2, <3>3 DEF Fenced
  <2> QED
    BY <2>2, <2>3
<1> QED
  BY <1>5, <1>6, <1>7 DEF LeaseInv

(* rollback_orphan: the row returns to the version the leader found, with  *)
(* the owner it had then.                                                  *)
LEMMA RestoreKeepsLeases ==
  ASSUME Types, LeaderTypes, LeaseInv, NEW n \in Nodes, LeaderRestores(n)
  PROVE  LeaseInv'
<1> DEFINE t == leader[n].cur.task
           v == leader[n].cur.lease
<1>0. RowTypes /\ ClientTypes /\ t \in Tasks /\ v \in Nat /\ Unsettled(n) /\ "RUNNING" \in TaskState
  BY SnapshotFacts DEF Types, LeaderRestores, Unsettled, TaskState
<1>1. /\ lease[t] = v + 1 /\ owner' = owner /\ held' = held /\ Moved(n, "release", leader[n].cur)
      /\ Write(t, "RUNNING", v)
  BY DEF LeaderRestores
<1>a. \A m \in Nodes \ {n} : Apart(n, m) /\ Ahead(m)
  BY DEF LeaseInv
<1>b. \A m \in Nodes \ {n} : Unsettled(m) /\ leader[m].cur.task = t =>
          v + 2 <= leader[m].cur.lease \/ leader[m].cur.lease + 2 <= v
  BY <1>0, <1>a DEF Apart
<1>c. \A w \in Workers : held[w] # NoLease /\ held[w].task = t => v + 1 # held[w].lease /\ (v = held[w].lease => owner[t] = w)
  BY <1>0, <1>1 DEF LeaseInv, Fenced
<1>3. /\ ~Unsettled(n)'
      /\ \A m \in Nodes \ {n} : Unsettled(m)' = Unsettled(m) /\ leader'[m].cur = leader[m].cur
  BY <1>1 DEF Moved, Unsettled
<1> HIDE DEF t, v
<1>2. /\ lease'[t] = v
      /\ \A u \in Tasks \ {t} : state'[u] = state[u] /\ lease'[u] = lease[u]
  BY <1>0, <1>1, WriteEffect
<1>4. ASSUME NEW m \in Nodes \ {n}, Unsettled(m)
      PROVE  /\ leader[m].cur.task \in Tasks /\ leader[m].cur.lease \in Nat
             /\ leader[m].cur.task = t => leader[m].cur.lease + 2 <= v
  <2>1. leader[m].cur.task \in Tasks /\ leader[m].cur.lease \in Nat
    BY <1>4, UnsettledFacts
  <2>2. ASSUME leader[m].cur.task = t PROVE leader[m].cur.lease + 2 <= v
    <3>1. leader[m].cur.lease < v + 1
      BY <1>1, <1>4, <1>a, <2>2 DEF Ahead
    <3> QED
      BY <1>0, <1>4, <1>b, <2>1, <2>2, <3>1
  <2> QED
    BY <2>1, <2>2
<1>5. ASSUME NEW m \in Nodes PROVE Ahead(m)'
  <2>1. CASE m = n \/ ~Unsettled(m)
    BY <1>3, <2>1 DEF Ahead
  <2>2. CASE m # n /\ Unsettled(m)
    <3>1. CASE leader[m].cur.task = t
      BY <1>0, <1>2, <1>3, <1>4, <2>2, <3>1 DEF Ahead
    <3>2. CASE leader[m].cur.task # t
      BY <1>2, <1>3, <1>4, <1>a, <2>2, <3>2 DEF Ahead
    <3> QED
      BY <3>1, <3>2
  <2> QED
    BY <2>1, <2>2
<1>6. \A m, k \in Nodes : Apart(m, k)'
  BY <1>3 DEF LeaseInv, Apart
<1>7. ASSUME NEW w \in Workers PROVE Fenced(w)'
  <2> SUFFICES ASSUME held[w] # NoLease PROVE Fenced(w)'
    BY <1>1 DEF Fenced
  <2>1. held[w].task \in Tasks /\ held[w].lease \in Nat /\ Fenced(w) /\ held'[w] = held[w]
    BY <1>0, <1>1, HeldFacts DEF LeaseInv
  <2>2. CASE held[w].task # t
    BY <1>1, <1>2, <1>3, <2>1, <2>2 DEF Fenced
  <2>3. CASE held[w].task = t
    <3>1. held[w].lease <= v + 1
      BY <1>1, <2>1, <2>3 DEF Fenced
    <3>2. held[w].lease <= v /\ (held[w].lease = v => owner'[t] = w)
      BY <1>0, <1>1, <1>c, <2>1, <2>3, <3>1
    <3>3. ASSUME NEW m \in Nodes, Unsettled(m)', leader'[m].cur.task = t
          PROVE  leader'[m].cur.lease + 1 # held[w].lease /\ ~(leader'[m].cur.lease = held[w].lease /\ v = held[w].lease + 1)
      <4>1. m # n /\ Unsettled(m) /\ leader'[m].cur = leader[m].cur /\ leader[m].cur.task = t
        BY <1>3, <3>3
      <4>2. leader[m].cur.lease + 1 # held[w].lease
        BY <2>1, <2>3, <4>1 DEF Fenced
      <4>3. leader[m].cur.lease + 2 <= v /\ leader[m].cur.lease \in Nat
        BY <1>4, <4>1
      <4> QED
        BY <1>0, <2>1, <4>1, <4>2, <4>3
    <3> QED
      BY <1>2, <2>1, <2>3, <3>2, <3>3 DEF Fenced
  <2> QED
    BY <2>2, <2>3
<1> QED
  BY <1>5, <1>6, <1>7 DEF LeaseInv

ClusterInv == Types /\ LeaderTypes /\ LeaseInv

(* The rows change in every step of the cluster as in Write, or not.       *)
RowsWritten ==
    \/ UNCHANGED rowVars
    \/ \E t \in Tasks, new \in TaskState, version \in Nat : Write(t, new, version)

(* The steps of the pipeline keep the cluster's invariant,                 *)
LEMMA PipelineKeeps ==
  ASSUME ClusterInv, [PipelineNext]_pipelineVars, UNCHANGED recoveryVars
  PROVE  ClusterInv' /\ RowsWritten
<1>0. Types /\ LeaderTypes /\ LeaseInv /\ RowTypes /\ leader' = leader
  BY DEF ClusterInv, Types, recoveryVars
<1>1. Types' /\ RowChange
  BY <1>0, PipelineTypes
<1>2. LeaderTypes'
  BY <1>0 DEF LeaderTypes, recoveryVars
<1>3. \A n \in Nodes : Unsettled(n)' => Unsettled(n) /\ leader'[n].cur = leader[n].cur
  BY <1>0 DEF Unsettled
<1>4. ASSUME UNCHANGED rowVars, \A w \in Workers : held'[w] \in {held[w], NoLease} PROVE LeaseInv' /\ RowsWritten
  BY <1>0, <1>3, <1>4, QuietKeepsLeases DEF RowsWritten
<1>5. ASSUME NEW t \in Tasks, NEW new \in TaskState, Write(t, new, lease[t] + 1),
             \A w \in Workers : \/ held'[w] \in {held[w], NoLease}
                                \/ held'[w].task = t /\ held'[w].lease = lease[t] + 1 /\ owner'[t] = w
      PROVE  LeaseInv' /\ RowsWritten
  <2>1. lease[t] + 1 \in Nat
    BY <1>0 DEF RowTypes
  <2>2. RowsWritten
    BY <1>5, <2>1 DEF RowsWritten
  <2> QED
    BY <1>0, <1>5, <2>2, RaiseKeepsLeases
<1>6. LeaseInv' /\ RowsWritten
  <2>1. CASE UNCHANGED <<rowVars, held>>
    BY <1>4, <2>1
  <2>2. CASE \E t \in Tasks, new \in TaskState : Write(t, new, lease[t] + 1) /\ held' = held
    BY <1>5, <2>2
  <2>3. ASSUME NEW w \in Workers, Others(w), KeepsRows(w) PROVE LeaseInv' /\ RowsWritten
    BY <1>4, <2>3 DEF Others, KeepsRows
  <2>4. ASSUME NEW w \in Workers, Others(w), NEW new \in TaskState, WritesRow(w, new) PROVE LeaseInv' /\ RowsWritten
    <3>1. \A v \in Workers : \/ held'[v] \in {held[v], NoLease}
                             \/ held'[v].task = id[w] /\ held'[v].lease = lease[id[w]] + 1 /\ owner'[id[w]] = v
      BY <2>4 DEF Others, WritesRow
    <3> QED
      BY <1>5, <2>4, <3>1 DEF WritesRow
  <2> QED
    BY <1>1, <2>1, <2>2, <2>3, <2>4 DEF RowChange
<1> QED
  BY <1>1, <1>2, <1>6 DEF ClusterInv

(* so do those of a leader,                                                *)
LEMMA LeaderKeeps ==
  ASSUME ClusterInv, NEW n \in Nodes, LeaderNext(n)
  PROVE  ClusterInv' /\ RowsWritten
<1>0. Types /\ LeaderTypes /\ LeaseInv /\ RowTypes
  BY DEF ClusterInv, Types
<1>1. /\ LeaderTypes' /\ (LeaderQuiet \/ LeaderMoves(n) \/ LeaderRestores(n))
      /\ UNCHANGED <<session, pc, id, task, seen, submit, crashes>>
      /\ UNCHANGED queueVars \/ (queue' = Append(queue, leader[n].cur.task) /\ leader[n].cur.task \in Tasks /\ UNCHANGED processing)
  BY <1>0, LeaderStep
<1>2. LeaseInv' /\ RowTypes' /\ RowsWritten /\ held' = held
  <2>1. CASE LeaderQuiet
    <3>1. LeaseInv'
      BY <1>0, <2>1, QuietKeepsLeases DEF LeaderQuiet
    <3> QED
      BY <1>0, <2>1, <3>1 DEF LeaderQuiet, rowVars, RowTypes, RowsWritten
  <2>2. CASE LeaderMoves(n)
    <3>1. leader[n].cur.task \in Tasks /\ held' = held
      BY <1>0, <2>2, SnapshotFacts DEF LeaderMoves
    <3>2. PICK new \in {"QUEUED", "FAILED"} : Write(leader[n].cur.task, new, lease[leader[n].cur.task] + 1)
      BY <2>2 DEF LeaderMoves, target
    <3>3. new \in TaskState /\ lease[leader[n].cur.task] + 1 \in Nat
      BY <1>0, <3>1 DEF TaskState, RowTypes
    <3>4. RowTypes' /\ RowsWritten
      BY <1>0, <3>1, <3>2, <3>3, WriteEffect DEF RowsWritten
    <3> QED
      BY <1>0, <2>2, <3>1, <3>4, MoveKeepsLeases
  <2>3. CASE LeaderRestores(n)
    <3>1. leader[n].cur.task \in Tasks /\ leader[n].cur.lease \in Nat /\ held' = held
      BY <1>0, <2>3, SnapshotFacts DEF LeaderRestores
    <3>2. Write(leader[n].cur.task, "RUNNING", leader[n].cur.lease) /\ "RUNNING" \in TaskState
      BY <2>3 DEF LeaderRestores, TaskState
    <3>3. RowTypes' /\ RowsWritten
      BY <1>0, <3>1, <3>2, WriteEffect DEF RowsWritten
    <3> QED
      BY <1>0, <2>3, <3>1, <3>3, RestoreKeepsLeases
  <2> QED
    BY <1>1, <2>1, <2>2, <2>3
<1>3. QueueTypeOK'
  <2>1. queue \in Seq(Tasks) /\ processing \in [Tasks -> Nat] /\ processing' = processing
    BY <1>0, <1>1 DEF Types, QueueTypeOK, queueVars
  <2>2. leader[n].cur.task \in Tasks => Append(queue, leader[n].cur.task) \in Seq(Tasks)
    BY <2>1
  <2>3. queue' \in Seq(Tasks)
    BY <1>1, <2>1, <2>2 DEF queueVars
  <2> QED
    BY <2>1, <2>3 DEF QueueTypeOK
<1>4. Types'
  BY <1>0, <1>1, <1>2, <1>3 DEF Types, ClientTypes, Linked
<1> QED
  BY <1>1, <1>2, <1>4 DEF ClusterInv

(* and so does every step.                                                 *)
LEMMA ClusterStep ==
  ASSUME ClusterInv, [ClusterNext]_allVars
  PROVE  ClusterInv' /\ RowsWritten
<1>1. CASE expire_lease
  <2>1. UNCHANGED <<pipelineVars, issued, leader, plan>> /\ lock' = [lock EXCEPT !.live = FALSE]
    BY <1>1 DEF expire_lease
  <2>2. lock' \in [owner : Nodes \cup {NoNode}, token : 0..MaxLeases, live : BOOLEAN]
    BY <2>1 DEF ClusterInv, LeaderTypes
  <2>3. LeaderTypes'
    BY <2>1, <2>2 DEF ClusterInv, LeaderTypes
  <2>4. Types'
    BY <2>1, PipelineTypes DEF ClusterInv
  <2>5. UNCHANGED rowVars /\ held' = held /\ \A n \in Nodes : Unsettled(n)' => Unsettled(n) /\ leader'[n].cur = leader[n].cur
    BY <2>1 DEF pipelineVars, vars, taskVars, clientVars, rowVars, Unsettled
  <2>6. LeaseInv'
    BY <2>5, QuietKeepsLeases DEF ClusterInv
  <2> QED
    BY <2>3, <2>4, <2>5, <2>6 DEF ClusterInv, RowsWritten
<1>2. CASE UNCHANGED allVars
  BY <1>2, PipelineKeeps DEF allVars
<1>3. CASE PipelineNext /\ UNCHANGED recoveryVars
  BY <1>3, PipelineKeeps
<1> QED
  BY <1>1, <1>2, <1>3, LeaderKeeps DEF ClusterNext

(* Types, where the leaders are, and which versions they can restore.      *)
THEOREM ClusterInvariant == ClusterSpec => []ClusterInv
<1>1. ASSUME ClusterInit PROVE ClusterInv
  <2>1. Types
    BY <1>1, InitTypes DEF ClusterInit
  <2>2. /\ held = [w \in Workers |-> NoLease] /\ lock = NoLock /\ issued = 0 /\ plan = [n \in Nodes |-> {}]
        /\ leader = [n \in Nodes |-> [pc |-> "idle", token |-> 0, cur |-> NoSnapshot]]
    BY <1>1 DEF ClusterInit, RuntimeInit, Init
  <2>3. 0 \in 0..MaxLeases
    BY ClusterAssumption
  <2>4. NoLock \in [owner : Nodes \cup {NoNode}, token : 0..MaxLeases, live : BOOLEAN]
    BY <2>3 DEF NoLock
  <2>5. [pc |-> "idle", token |-> 0, cur |-> NoSnapshot] \in LeaderRec
    BY <2>3 DEF LeaderRec, LeaderPC
  <2>6. LeaderTypes
    BY <2>2, <2>3, <2>4, <2>5 DEF LeaderTypes
  <2>7. LeaseInv
    BY <2>2 DEF LeaseInv, Ahead, Apart, Fenced, Unsettled
  <2> QED
    BY <2>1, <2>6, <2>7 DEF ClusterInv
<1> QED
  BY <1>1, ClusterStep, PTL DEF ClusterSpec

(* lease_version fences stale workers although COMPENSATING ROLLBACK gives *)
(* a row its old version back, with any number of leaders, either lock     *)
(* class and any crash.                                                    *)
THEOREM LeaseOwner == ClusterSpec => []LeaseIdentifiesOwner
<1>1. ASSUME ClusterInv PROVE LeaseIdentifiesOwner
  <2> SUFFICES ASSUME NEW w \in Workers, NEW t \in Tasks, held[w].task = t, held[w].lease = lease[t], state[t] = "RUNNING"
               PROVE  owner[t] = w
    BY DEF LeaseIdentifiesOwner
  <2>1. held[w] # NoLease
    BY <1>1, HeldFacts DEF ClusterInv, Types
  <2> QED
    BY <1>1, <2>1 DEF ClusterInv, LeaseInv, Fenced
<1> QED
  BY <1>1, ClusterInvariant, PTL

(* A compensating rollback undoes the leader's own move: versions are used *)
(* again, but those that two leaders can restore lie two apart.            *)
THEOREM RollbackUndoesOwn == ClusterSpec => []RollbackUndoesOwnMove
<1>1. ASSUME ClusterInv PROVE RollbackUndoesOwnMove
  <2> SUFFICES ASSUME NEW n \in Nodes, NEW t \in Tasks, CanRollBack(n, t)
               PROVE  (\A m \in Nodes \ {n} : ~CanRollBack(m, t)) /\ state[t] # "RUNNING"
    BY DEF RollbackUndoesOwnMove
  <2>1. leader[n].cur.lease \in Nat
    BY <1>1, UnsettledFacts DEF ClusterInv, CanRollBack
  <2>2. ASSUME NEW m \in Nodes \ {n}, CanRollBack(m, t) PROVE FALSE
    <3>1. leader[m].cur.lease \in Nat
      BY <1>1, <2>2, UnsettledFacts DEF ClusterInv, CanRollBack
    <3>2. \/ leader[n].cur.lease + 2 <= leader[m].cur.lease
          \/ leader[m].cur.lease + 2 <= leader[n].cur.lease
      BY <1>1, <2>2 DEF ClusterInv, LeaseInv, Apart, CanRollBack
    <3>3. leader[n].cur.lease + 1 = leader[m].cur.lease + 1
      BY <2>2 DEF CanRollBack
    <3> QED
      BY <2>1, <3>1, <3>2, <3>3
  <2>3. state[t] # "RUNNING"
    BY <1>1 DEF ClusterInv, LeaseInv, Ahead, CanRollBack
  <2> QED
    BY <2>2, <2>3
<1> QED
  BY <1>1, ClusterInvariant, PTL

(* Workers, queue, leaders and recovery lock keep their types.             *)
THEOREM ClusterTypeCorrect == ClusterSpec => []ClusterTypeOK
<1>1. ASSUME ClusterInv PROVE ClusterTypeOK
  <2>1. RuntimeTypeOK
    BY <1>1 DEF ClusterInv, Types, ClientTypes, Linked, RuntimeTypeOK
  <2>2. NoSnapshot \notin Snapshot
    <3>1. NoSnapshot.task = NoTask
      BY DEF NoSnapshot
    <3> QED
      BY <3>1, NullsAreFresh DEF Snapshot
  <2> QED
    BY <1>1, <2>1, <2>2 DEF ClusterInv, LeaderTypes, ClusterTypeOK, LeaderRec
<1> QED
  BY <1>1, ClusterInvariant, PTL

(* A ledger with one more entry.                                           *)
LEMMA LedgerAppend ==
  ASSUME NEW rows \in Seq(AuditRow), NEW row \in AuditRow
  PROVE  /\ Len(rows) \in Nat /\ Len(Append(rows, row)) = Len(rows) + 1
         /\ \A i \in 1..Len(rows) : Append(rows, row)[i] = rows[i]
         /\ Append(rows, row)[Len(rows) + 1] = row
         /\ DOMAIN rows = 1..Len(rows) /\ DOMAIN Append(rows, row) = 1..(Len(rows) + 1)
OBVIOUS

(* attempts is the number of grants the ledger shows, in the cluster as in *)
(* the repository: a compensating rollback is one of them, although no     *)
(* execution starts with it.                                               *)
THEOREM ClusterAttemptsAreGrants == ClusterSpec => []AttemptsCountGrants
<1>1. ASSUME ClusterInv, [ClusterNext]_allVars, AttemptsCountGrants PROVE AttemptsCountGrants'
  <2>1. CASE UNCHANGED rowVars
    BY <1>1, <2>1 DEF rowVars, AttemptsCountGrants
  <2>2. ASSUME NEW u \in Tasks, NEW new \in TaskState, NEW version \in Nat, Write(u, new, version)
        PROVE  AttemptsCountGrants'
    <3> SUFFICES ASSUME NEW t \in Tasks PROVE attempts'[t] = Cardinality(Grants(audit'[t]))
      BY DEF AttemptsCountGrants, Grants
    <3>1. attempts[t] = Cardinality(Grants(audit[t])) /\ audit[t] \in Seq(AuditRow) /\ RowTypes
      BY <1>1 DEF AttemptsCountGrants, Grants, ClusterInv, Types, RowTypes
    <3>2. CASE t # u
      BY <2>2, <3>1, <3>2, WriteEffect
    <3>3. CASE t = u
      <4> DEFINE row == [prev |-> state[t], new |-> new, lease |-> version]
      <4>1. row \in AuditRow /\ audit'[t] = Append(audit[t], row) /\ attempts'[t] = IF new = "RUNNING" THEN attempts[t] + 1 ELSE attempts[t]
        BY <2>2, <3>1, <3>3, WriteEffect
      <4>2. row.new = new
        OBVIOUS
      <4> HIDE DEF row
      <4> QED
        BY <3>1, <4>1, <4>2, GrantsAppend
    <3> QED
      BY <3>2, <3>3
  <2> QED
    BY <1>1, <2>1, <2>2, ClusterStep DEF RowsWritten
<1>2. ASSUME ClusterInit PROVE AttemptsCountGrants
  <2> SUFFICES ASSUME NEW t \in Tasks PROVE attempts[t] = Cardinality(Grants(audit[t]))
    BY DEF AttemptsCountGrants, Grants
  <2>1. attempts[t] = 0 /\ DOMAIN audit[t] = {}
    BY <1>2 DEF ClusterInit, RuntimeInit, Init
  <2>2. Grants(audit[t]) = {}
    BY <2>1 DEF Grants
  <2> QED
    BY <2>1, <2>2, FS_EmptySet
<1> QED
  BY <1>1, <1>2, ClusterInvariant, PTL DEF ClusterSpec

(* The ledger follows the row through every rollback and late result.      *)
THEOREM LedgerIsHistory == ClusterSpec => []LedgerFollowsRow
<1> DEFINE Chained(rows, last) == /\ rows # <<>> => rows[Len(rows)].new = last
                                  /\ \A i \in 1..(Len(rows) - 1) : rows[i].new = rows[i + 1].prev
<1>1. ASSUME ClusterInv, [ClusterNext]_allVars, LedgerFollowsRow PROVE LedgerFollowsRow'
  <2>1. CASE UNCHANGED rowVars
    BY <1>1, <2>1 DEF rowVars, LedgerFollowsRow
  <2>2. ASSUME NEW u \in Tasks, NEW new \in TaskState, NEW version \in Nat, Write(u, new, version)
        PROVE  LedgerFollowsRow'
    <3> SUFFICES ASSUME NEW t \in Tasks PROVE Chained(audit'[t], state'[t])
      BY DEF LedgerFollowsRow
    <3>1. Chained(audit[t], state[t]) /\ audit[t] \in Seq(AuditRow) /\ RowTypes
      BY <1>1 DEF LedgerFollowsRow, ClusterInv, Types, RowTypes
    <3>2. CASE t # u
      <4>1. audit'[t] = audit[t] /\ state'[t] = state[t]
        BY <2>2, <3>1, <3>2, WriteEffect
      <4> QED
        BY <3>1, <4>1
    <3>3. CASE t = u
      <4> DEFINE row == [prev |-> state[t], new |-> new, lease |-> version]
                 rows == audit[t]
      <4>1. row \in AuditRow /\ audit'[t] = Append(rows, row) /\ state'[t] = new
        BY <2>2, <3>1, <3>3, WriteEffect
      <4>2. row.new = new /\ row.prev = state[t]
        OBVIOUS
      <4> HIDE DEF row
      <4>3. /\ Len(rows) \in Nat /\ Len(audit'[t]) = Len(rows) + 1
            /\ \A i \in 1..Len(rows) : audit'[t][i] = rows[i]
            /\ audit'[t][Len(rows) + 1] = row
        BY <3>1, <4>1, LedgerAppend
      <4>4. audit'[t][Len(audit'[t])].new = state'[t]
        BY <4>1, <4>2, <4>3
      <4>5. ASSUME NEW i \in 1..(Len(audit'[t]) - 1) PROVE audit'[t][i].new = audit'[t][i + 1].prev
        <5>1. CASE i < Len(rows)
          <6>1. i \in 1..(Len(rows) - 1) /\ i \in 1..Len(rows) /\ i + 1 \in 1..Len(rows)
            BY <4>3, <5>1
          <6> QED
            BY <3>1, <4>3, <6>1
        <5>2. CASE i = Len(rows)
          <6>1. rows # <<>> /\ i \in 1..Len(rows)
            BY <4>3, <5>2
          <6>2. rows[i].new = state[t]
            BY <3>1, <5>2, <6>1
          <6> QED
            BY <4>2, <4>3, <5>2, <6>1, <6>2
        <5> QED
          BY <4>3, <5>1, <5>2
      <4> QED
        BY <4>4, <4>5
    <3> QED
      BY <3>2, <3>3
  <2> QED
    BY <1>1, <2>1, <2>2, ClusterStep DEF RowsWritten
<1>2. ClusterInit => LedgerFollowsRow
  BY DEF ClusterInit, RuntimeInit, Init, LedgerFollowsRow
<1> QED
  BY <1>1, <1>2, ClusterInvariant, PTL DEF ClusterSpec

-----------------------------------------------------------------------------
(* Who puts a QUEUED task back on the queue: the leader that moved the row *)
(* to the version it has, or a worker that will try it or requeue it.      *)

(* Worker w will try its task or give it back: its call does not end in an *)
(* acknowledgement.                                                        *)
Carries(w) ==
    \/ pc[w] \in {"get_task", "assign_task", "assigning", "update_running"}
    \/ pc[w] = "write_running" /\ seen[w].lease = lease[id[w]] /\ seen[w].state = "QUEUED"
    \/ pc[w] = "settle" /\ task[w].attempts < MaxAttempts

(* The places where a QUEUED task is found.                                *)
Found(t) ==
    \/ t \in Waiting(queue)
    \/ \E n \in Nodes : CanRollBack(n, t)
    \/ \E w \in Workers : id[w] = t /\ Carries(w)

Tracked(t) == state[t] = "QUEUED" /\ submit[t] = "done" => Found(t)

(* The row a leader moved is where it moved it.                            *)
Aimed(n) == \A t \in Tasks : CanRollBack(n, t) => state[t] = target(leader[n].cur)

(* A worker has read no more attempts than there are.                      *)
Dated(w) == id[w] # NoTask => task[w].attempts <= attempts[id[w]]

(* The workers that have a task.                                           *)
Busy == {w \in Workers : id[w] # NoTask}

(* attempts never goes down, not even in a rollback.                       *)
LEMMA AttemptsGrow ==
  ASSUME RowTypes, RowsWritten
  PROVE  \A t \in Tasks : attempts[t] \in Nat /\ attempts'[t] \in Nat /\ attempts[t] <= attempts'[t]
<1>0. \A t \in Tasks : attempts[t] \in Nat
  BY DEF RowTypes
<1>1. CASE UNCHANGED rowVars
  BY <1>0, <1>1 DEF rowVars
<1>2. ASSUME NEW u \in Tasks, NEW new \in TaskState, NEW version \in Nat, Write(u, new, version), NEW t \in Tasks
      PROVE  attempts'[t] \in Nat /\ attempts[t] <= attempts'[t]
  <2>1. CASE t = u
    <3>1. attempts'[t] = IF new = "RUNNING" THEN attempts[t] + 1 ELSE attempts[t]
      BY <1>2, <2>1, WriteEffect
    <3> QED
      BY <1>0, <3>1
  <2>2. CASE t # u
    <3>1. attempts'[t] = attempts[t]
      BY <1>2, <2>2, WriteEffect
    <3> QED
      BY <1>0, <3>1
  <2> QED
    BY <2>1, <2>2
<1> QED
  BY <1>0, <1>1, <1>2 DEF RowsWritten

(* The row in a worker's hands has a number of attempts.                   *)
LEMMA TaskAttempts ==
  ASSUME ClientTypes, NEW w \in Workers
  PROVE  task[w].attempts \in Nat
<1>1. task[w] \in RowType
  BY DEF ClientTypes
<1> QED
  BY <1>1 DEF RowType

(* Dated is inductive: rows are read when they are, and attempts grow.     *)
LEMMA DatedStep ==
  ASSUME ClusterInv, \A w \in Workers : Dated(w), [ClusterNext]_allVars
  PROVE  \A w \in Workers : Dated(w)'
<1>0. Types /\ RowTypes /\ ClientTypes /\ RowTypes' /\ ClientTypes'
  BY ClusterStep DEF ClusterInv, Types
<1>1. \A t \in Tasks : attempts[t] \in Nat /\ attempts'[t] \in Nat /\ attempts[t] <= attempts'[t]
  BY <1>0, ClusterStep, AttemptsGrow
<1>2. ASSUME NEW w \in Workers, id'[w] = id[w], task'[w].attempts = task[w].attempts PROVE Dated(w)'
  <2>1. CASE id[w] = NoTask
    BY <1>2, <2>1 DEF Dated
  <2>2. CASE id[w] # NoTask
    <3>1. id[w] \in Tasks /\ task[w].attempts \in Nat /\ task[w].attempts <= attempts[id[w]]
      BY <1>0, <2>2, TaskAttempts DEF Dated, ClientTypes
    <3>2. task[w].attempts <= attempts'[id[w]]
      BY <1>1, <3>1
    <3> QED
      BY <1>2, <3>2 DEF Dated
  <2> QED
    BY <2>1, <2>2
<1>3. ASSUME NEW w \in Workers, OwnStep(w), Dated(w)' PROVE \A v \in Workers : Dated(v)'
  BY <1>2, <1>3 DEF OwnStep, Others
<1>4. ASSUME UNCHANGED <<id, task>> PROVE \A w \in Workers : Dated(w)'
  BY <1>2, <1>4
<1>5. ASSUME [PipelineNext]_pipelineVars PROVE \A w \in Workers : Dated(w)'
  <2>1. ASSUME NEW t \in Tasks, SubmitNext(t) PROVE \A w \in Workers : Dated(w)'
    BY <1>0, <1>4, <2>1, SubmitStep
  <2>2. ASSUME NEW w \in Workers, get_task(w) \/ begin_assign(w) \/ execute(w) \/ begin_mutation(w) \/ update_task_read(w)
        PROVE  \A v \in Workers : Dated(v)'
    <3>1. OwnStep(w) /\ id' = id /\ id[w] \in Tasks /\ (task'[w].attempts = task[w].attempts \/ task'[w].attempts = attempts[id[w]])
      BY <1>0, <2>2, QuietStep, QuietLocals
    <3>2. CASE task'[w].attempts = task[w].attempts
      BY <1>2, <1>3, <3>1, <3>2
    <3>3. CASE task'[w].attempts = attempts[id[w]]
      BY <1>1, <1>3, <3>1, <3>3 DEF Dated
    <3> QED
      BY <3>1, <3>2, <3>3
  <2>3. ASSUME NEW w \in Workers, dequeue_task(w) PROVE \A v \in Workers : Dated(v)'
    <3>1. OwnStep(w) /\ NextId \in Tasks /\ id'[w] = NextId /\ task'[w] = NoRow
      BY <1>0, <2>3, DequeueStep DEF Types, Linked
    <3>2. attempts'[NextId] \in Nat /\ NoRow.attempts = 0
      BY <1>1, <3>1 DEF NoRow
    <3>3. Dated(w)'
      BY <3>1, <3>2 DEF Dated
    <3> QED
      BY <1>3, <3>1, <3>3
  <2>4. ASSUME NEW w \in Workers, end_assign(w) PROVE \A v \in Workers : Dated(v)'
    <3>1. OwnStep(w) /\ id' = id /\ id[w] \in Tasks
      BY <1>0, <2>4, EndAssignStep DEF Types, ClientTypes, Linked
    <3>2. CASE task' = task
      BY <1>2, <1>3, <3>1, <3>2
    <3>3. CASE WritesRow(w, "RUNNING") /\ task'[w].attempts = attempts[id[w]] + 1
      <4>1. attempts'[id[w]] = attempts[id[w]] + 1
        <5>1. lease[id[w]] + 1 \in Nat /\ Write(id[w], "RUNNING", lease[id[w]] + 1) /\ "RUNNING" \in TaskState
          BY <1>0, <3>1, <3>3 DEF WritesRow, RowTypes, TaskState
        <5> QED
          BY <1>0, <3>1, <5>1, WriteEffect
      <4>2. Dated(w)'
        BY <1>1, <3>1, <3>3, <4>1 DEF Dated
      <4> QED
        BY <1>3, <3>1, <4>2
    <3> QED
      BY <1>0, <2>4, <3>2, <3>3, EndAssignStep
  <2>5. ASSUME NEW w \in Workers, end_complete(w) \/ end_failure(w) \/ update_task_write(w) PROVE \A v \in Workers : Dated(v)'
    BY <1>0, <1>4, <2>5, EndMutationStep, UpdateStep
  <2>6. ASSUME NEW w \in Workers, settle(w) \/ acknowledge_task(w) \/ crash(w) PROVE \A v \in Workers : Dated(v)'
    <3>1. OwnStep(w) /\ Dated(w)'
      BY <1>0, <2>6, FinishStep DEF Dated
    <3> QED
      BY <1>3, <3>1
  <2>7. ASSUME UNCHANGED <<rowVars, session, held, queueVars, runtimeVars>> PROVE \A v \in Workers : Dated(v)'
    BY <1>4, <2>7 DEF runtimeVars
  <2> QED
    BY <1>0, <1>5, <2>1, <2>2, <2>3, <2>4, <2>5, <2>6, <2>7, PipelineStep
<1>6. ASSUME NEW n \in Nodes, LeaderNext(n) PROVE UNCHANGED <<id, task>>
  BY <1>6, LeaderStep DEF ClusterInv
<1>7. CASE expire_lease \/ UNCHANGED allVars
  BY <1>4, <1>7 DEF expire_lease, allVars, pipelineVars, runtimeVars
<1> QED
  BY <1>4, <1>5, <1>6, <1>7 DEF ClusterNext

(* Outside recovery a row changes only with the next version.              *)
LEMMA PipelineRaises ==
  ASSUME Types, [PipelineNext]_pipelineVars, NEW t \in Tasks
  PROVE  (state'[t] = state[t] /\ lease'[t] = lease[t]) \/ lease'[t] = lease[t] + 1
<1>0. RowTypes
  BY DEF Types
<1>1. CASE UNCHANGED rowVars
  BY <1>1 DEF rowVars
<1>2. ASSUME NEW u \in Tasks, NEW new \in TaskState, Write(u, new, lease[u] + 1)
      PROVE  (state'[t] = state[t] /\ lease'[t] = lease[t]) \/ lease'[t] = lease[t] + 1
  <2>1. lease[u] + 1 \in Nat
    BY <1>0 DEF RowTypes
  <2>2. lease'[u] = lease[u] + 1 /\ \A x \in Tasks \ {u} : state'[x] = state[x] /\ lease'[x] = lease[x]
    BY <1>0, <1>2, <2>1, WriteEffect
  <2> QED
    BY <2>2
<1> QED
  BY <1>1, <1>2, PipelineTypes DEF RowChange, KeepsRows, WritesRow

(* Aimed is inductive: whoever changes the row changes its version.        *)
LEMMA AimedStep ==
  ASSUME ClusterInv, \A n \in Nodes : Aimed(n), [ClusterNext]_allVars
  PROVE  \A n \in Nodes : Aimed(n)'
<1>0. Types /\ LeaderTypes /\ LeaseInv /\ RowTypes /\ LeaseInv' /\ LeaderTypes' /\ RowTypes'
  BY ClusterStep DEF ClusterInv, Types
<1> SUFFICES ASSUME NEW m \in Nodes, NEW t \in Tasks, CanRollBack(m, t)' PROVE state'[t] = target(leader'[m].cur)
  BY DEF Aimed
<1>1. Unsettled(m)' /\ leader'[m].cur.task = t /\ lease'[t] = leader'[m].cur.lease + 1
  BY DEF CanRollBack
<1>2. leader'[m].cur.lease \in Nat /\ lease[t] \in Nat
  <2>1. leader'[m].cur \in Snapshot
    BY <1>0, <1>1 DEF LeaderTypes, Unsettled
  <2> QED
    BY <1>0, <2>1 DEF Snapshot, RowTypes
<1>3. ASSUME Unsettled(m), leader'[m].cur = leader[m].cur, state'[t] = state[t] /\ lease'[t] = lease[t]
      PROVE  state'[t] = target(leader'[m].cur)
  BY <1>1, <1>3 DEF Aimed, CanRollBack
<1>4. Unsettled(m) /\ leader'[m].cur = leader[m].cur => leader'[m].cur.lease < lease[t]
  BY <1>0, <1>1 DEF LeaseInv, Ahead
<1>5. ASSUME [PipelineNext]_pipelineVars, UNCHANGED recoveryVars PROVE state'[t] = target(leader'[m].cur)
  <2>1. Unsettled(m) /\ leader'[m].cur = leader[m].cur
    BY <1>1, <1>5 DEF recoveryVars, Unsettled
  <2>2. lease'[t] # lease[t] + 1
    BY <1>1, <1>2, <1>4, <2>1
  <2> QED
    BY <1>0, <1>3, <1>5, <2>1, <2>2, PipelineRaises
<1>6. ASSUME NEW n \in Nodes, LeaderQuiet PROVE state'[t] = target(leader'[m].cur)
  BY <1>1, <1>3, <1>6 DEF LeaderQuiet, rowVars
<1>7. ASSUME NEW n \in Nodes, LeaderMoves(n) PROVE state'[t] = target(leader'[m].cur)
  <2> DEFINE u == leader[n].cur.task
  <2>0. u \in Tasks /\ Write(u, target(leader[n].cur), lease[u] + 1) /\ Moved(n, "recheck", leader[n].cur)
    BY <1>0, <1>7, SnapshotFacts DEF LeaderMoves
  <2> HIDE DEF u
  <2>1. lease[u] + 1 \in Nat /\ target(leader[n].cur) \in TaskState
    BY <1>0, <2>0 DEF RowTypes, TaskState, target
  <2>2. /\ state'[u] = target(leader[n].cur) /\ lease'[u] = lease[u] + 1
        /\ \A x \in Tasks \ {u} : state'[x] = state[x] /\ lease'[x] = lease[x]
    BY <1>0, <2>0, <2>1, WriteEffect
  <2>3. CASE m = n
    BY <1>1, <2>0, <2>2, <2>3 DEF Moved, u
  <2>4. CASE m # n
    <3>1. Unsettled(m) /\ leader'[m].cur = leader[m].cur
      BY <1>1, <2>0, <2>4 DEF Moved, Unsettled
    <3>2. CASE t # u
      BY <1>3, <2>2, <3>1, <3>2
    <3>3. CASE t = u
      BY <1>1, <1>2, <1>4, <2>2, <3>1, <3>3
    <3> QED
      BY <3>2, <3>3
  <2> QED
    BY <2>3, <2>4
<1>8. ASSUME NEW n \in Nodes, LeaderRestores(n) PROVE state'[t] = target(leader'[m].cur)
  <2> DEFINE u == leader[n].cur.task
             v == leader[n].cur.lease
  <2>1. /\ u \in Tasks /\ v \in Nat /\ "RUNNING" \in TaskState /\ Unsettled(n)
        /\ Write(u, "RUNNING", v) /\ Moved(n, "release", leader[n].cur) /\ lease[u] = v + 1
    BY <1>0, <1>8, SnapshotFacts DEF LeaderRestores, TaskState, Unsettled
  <2>a. Unsettled(m) /\ m # n /\ leader[m].cur.task = u => leader[m].cur.lease + 2 <= v \/ v + 2 <= leader[m].cur.lease
    BY <1>0, <2>1 DEF LeaseInv, Apart
  <2> HIDE DEF u, v
  <2>2. /\ lease'[u] = v
        /\ \A x \in Tasks \ {u} : state'[x] = state[x] /\ lease'[x] = lease[x]
    BY <1>0, <2>1, WriteEffect
  <2>3. m # n /\ Unsettled(m) /\ leader'[m].cur = leader[m].cur
    BY <1>1, <2>1 DEF Moved, Unsettled
  <2>4. CASE t # u
    BY <1>3, <2>2, <2>3, <2>4
  <2>5. CASE t = u
    <3>1. leader[m].cur.lease + 2 <= v \/ v + 2 <= leader[m].cur.lease
      BY <1>1, <2>a, <2>3, <2>5
    <3>2. leader[m].cur.lease \in Nat /\ leader[m].cur.lease < v + 1 /\ v = leader[m].cur.lease + 1
      BY <1>1, <1>2, <1>4, <2>1, <2>2, <2>3, <2>5
    <3> QED
      BY <2>1, <3>1, <3>2
  <2> QED
    BY <2>4, <2>5
<1>9. CASE expire_lease \/ UNCHANGED allVars
  <2>1. UNCHANGED rowVars /\ leader' = leader
    BY <1>9 DEF expire_lease, allVars, recoveryVars, pipelineVars, vars, taskVars, rowVars
  <2> QED
    BY <1>1, <1>3, <2>1 DEF rowVars, Unsettled
<1>10. ASSUME NEW n \in Nodes, LeaderNext(n) PROVE LeaderQuiet \/ LeaderMoves(n) \/ LeaderRestores(n)
  BY <1>0, <1>10, LeaderStep
<1> QED
  BY <1>5, <1>6, <1>7, <1>8, <1>9, <1>10 DEF ClusterNext

(* enqueue and requeue keep every id on the queue.                         *)
LEMMA LongerLine ==
  ASSUME NEW q \in Seq(Tasks), NEW t \in Tasks
  PROVE  Waiting(q) \cup {t} \subseteq Waiting(Append(q, t)) /\ Waiting(q) \cup {t} \subseteq Waiting(<<t>> \o q)
<1>1. Len(q) \in Nat /\ DOMAIN q = 1..Len(q)
  OBVIOUS
<1> DEFINE a == Append(q, t)
           p == <<t>> \o q
<1>2. /\ DOMAIN a = 1..(Len(q) + 1) /\ a[Len(q) + 1] = t /\ \A i \in 1..Len(q) : a[i] = q[i]
      /\ DOMAIN p = 1..(Len(q) + 1) /\ p[1] = t /\ \A i \in 1..Len(q) : p[i + 1] = q[i]
  BY <1>1
<1>3. 1 \in 1..(Len(q) + 1) /\ Len(q) + 1 \in 1..(Len(q) + 1) /\ \A i \in 1..Len(q) : i \in 1..(Len(q) + 1) /\ i + 1 \in 1..(Len(q) + 1)
  BY <1>1
<1> HIDE DEF a, p
<1>4. t \in Waiting(a) /\ t \in Waiting(p)
  BY <1>2, <1>3 DEF Waiting
<1>5. ASSUME NEW x \in Waiting(q) PROVE x \in Waiting(a) /\ x \in Waiting(p)
  <2>1. PICK i \in 1..Len(q) : x = q[i]
    BY <1>1 DEF Waiting
  <2> QED
    BY <1>2, <1>3, <2>1 DEF Waiting
<1>6. Waiting(q) \cup {t} \subseteq Waiting(a) /\ Waiting(q) \cup {t} \subseteq Waiting(p)
  BY <1>4, <1>5
<1> QED
  BY <1>6 DEF a, p

(* dequeue takes one id only.                                              *)
LEMMA ShorterLine ==
  ASSUME NEW q \in Seq(Tasks), q # <<>>,
         NEW r, r = (IF Redis THEN Front(q) ELSE Tail(q)),
         NEW x, x = (IF Redis THEN Last(q) ELSE Head(q)),
         NEW y \in Waiting(q), y # x
  PROVE  y \in Waiting(r)
<1>1. Len(q) \in Nat /\ Len(q) > 0 /\ DOMAIN q = 1..Len(q)
  OBVIOUS
<1>2. PICK i \in 1..Len(q) : y = q[i]
  BY <1>1 DEF Waiting
<1>3. CASE Redis
  <2>1. x = q[Len(q)] /\ r = SubSeq(q, 1, Len(q) - 1)
    BY <1>3 DEF Last, Front
  <2>2. DOMAIN r = 1..(Len(q) - 1) /\ \A j \in 1..(Len(q) - 1) : r[j] = q[j]
    BY <1>1, <2>1
  <2>3. i \in 1..(Len(q) - 1)
    BY <1>1, <1>2, <2>1
  <2> QED
    BY <1>2, <2>2, <2>3 DEF Waiting
<1>4. CASE ~Redis
  <2>1. x = q[1] /\ r = Tail(q)
    BY <1>4
  <2>2. DOMAIN r = 1..(Len(q) - 1) /\ \A j \in 1..(Len(q) - 1) : r[j] = q[j + 1]
    BY <1>1, <2>1
  <2>3. i - 1 \in 1..(Len(q) - 1) /\ (i - 1) + 1 = i
    BY <1>1, <1>2, <2>1
  <2>4. r[i - 1] = y
    BY <1>2, <2>2, <2>3
  <2> QED
    BY <2>2, <2>3, <2>4 DEF Waiting
<1> QED
  BY <1>3, <1>4

(* A step that leaves the row of t alone loses t only through the queue or *)
(* the one worker that moves.                                              *)
LEMMA KeepFound ==
  ASSUME NEW t \in Tasks, NEW w \in Workers, Found(t), Others(w), leader' = leader,
         state'[t] = state[t], lease'[t] = lease[t],
         t \in Waiting(queue) => Found(t)',
         id[w] = t /\ Carries(w) => Found(t)'
  PROVE  Found(t)'
<1>1. ASSUME NEW n \in Nodes, CanRollBack(n, t) PROVE Found(t)'
  BY <1>1 DEF CanRollBack, Unsettled, Found
<1>2. ASSUME NEW v \in Workers, v # w, id[v] = t, Carries(v) PROVE Found(t)'
  <2>1. id'[v] = t /\ Carries(v)'
    BY <1>2 DEF Others, Carries
  <2> QED
    BY <2>1 DEF Found
<1> QED
  BY <1>1, <1>2 DEF Found

(* A worker that finds its row QUEUED goes on carrying it.                 *)
LEMMA QuietCarries ==
  ASSUME Types, NEW w \in Workers,
         get_task(w) \/ begin_assign(w) \/ execute(w) \/ begin_mutation(w) \/ update_task_read(w),
         state[id[w]] = "QUEUED", Carries(w)
  PROVE  Carries(w)'
<1>0. ClientTypes /\ RowTypes
  BY DEF Types
<1>1. CASE get_task(w)
  BY <1>0, <1>1 DEF get_task, Goto, Carries, ClientTypes
<1>2. CASE begin_assign(w)
  BY <1>0, <1>2 DEF begin_assign, Goto, Carries, ClientTypes
<1>3. CASE execute(w) \/ begin_mutation(w)
  BY <1>3 DEF execute, begin_mutation, Carries
<1>4. CASE update_task_read(w)
  <2>1. pc[w] = "update_running" /\ pc' = [pc EXCEPT ![w] = "write_running"]
    BY <1>4 DEF update_task_read, Step, Goto, Carries
  <2>2. seen' = [seen EXCEPT ![w] = Row(id[w])] /\ id' = id /\ lease' = lease
    BY <1>4 DEF update_task_read, vars, taskVars
  <2>3. seen'[w].lease = lease[id[w]] /\ seen'[w].state = "QUEUED" /\ pc'[w] = "write_running"
    BY <1>0, <2>1, <2>2 DEF ClientTypes, Row
  <2> QED
    BY <2>2, <2>3 DEF Carries
<1> QED
  BY <1>1, <1>2, <1>3, <1>4

(* No step of a worker or of trigger_remediation loses a QUEUED task:      *)
(* acknowledging needs a row that is not QUEUED, settling without a        *)
(* requeue one that has no attempts left.                                  *)
LEMMA WorkerFound ==
  ASSUME ClusterInv, \A w \in Workers : Dated(w), ~Redis \/ MaxCrashes = 0,
         [PipelineNext]_pipelineVars, leader' = leader,
         NEW t \in Tasks, Tracked(t), state'[t] = "QUEUED", submit'[t] = "done"
  PROVE  Found(t)'
<1>0. Types /\ RowTypes /\ ClientTypes /\ queue \in Seq(Tasks) /\ MaxAttempts \in Nat
  BY BoundsAreNat DEF ClusterInv, Types, QueueTypeOK
<1>k. ASSUME UNCHANGED rowVars PROVE state'[t] = state[t] /\ lease'[t] = lease[t]
  BY <1>k DEF rowVars
<1>f. state[t] = "QUEUED" /\ submit[t] = "done" => Found(t)
  BY DEF Tracked, Found
<1>w. ASSUME NEW w \in Workers, NEW new \in TaskState, WritesRow(w, new)
      PROVE  IF id[w] = t THEN new = "QUEUED" ELSE state'[t] = state[t] /\ lease'[t] = lease[t]
  <2>1. id[w] \in Tasks /\ Write(id[w], new, lease[id[w]] + 1) /\ lease[id[w]] + 1 \in Nat
    BY <1>0, <1>w DEF WritesRow, RowTypes
  <2>2. state'[id[w]] = new /\ \A x \in Tasks \ {id[w]} : state'[x] = state[x] /\ lease'[x] = lease[x]
    BY <1>0, <1>w, <2>1, WriteEffect
  <2> QED
    BY <2>2
<1>q. queue' = queue /\ t \in Waiting(queue) => Found(t)'
  BY DEF Found
<1>1. ASSUME NEW u \in Tasks, SubmitNext(u) PROVE Found(t)'
  <2>1. CASE queue' = Append(queue, u) /\ u = t
    BY <1>0, <2>1, LongerLine DEF Found
  <2>2. CASE ~(queue' = Append(queue, u) /\ u = t)
    <3>1. /\ state'[t] = state[t] /\ lease'[t] = lease[t] /\ submit'[t] = submit[t]
          /\ queue' = queue \/ queue' = Append(queue, u)
          /\ UNCHANGED <<held, session, pc, id, task, seen>>
      <4>1. u # t
        BY <1>0, <1>1, <2>2, SubmitStep
      <4>2. /\ queue' = queue \/ queue' = Append(queue, u)
            /\ UNCHANGED <<held, session, pc, id, task, seen>> /\ submit'[t] = submit[t]
            /\ UNCHANGED rowVars \/ (\E new \in {"PENDING", "QUEUED"} : Write(u, new, lease[u] + 1))
        BY <1>0, <1>1, <4>1, SubmitStep DEF queueVars
      <4>3. lease[u] + 1 \in Nat /\ {"PENDING", "QUEUED"} \subseteq TaskState
        BY <1>0 DEF RowTypes, TaskState
      <4>4. state'[t] = state[t] /\ lease'[t] = lease[t]
        BY <1>0, <1>k, <4>1, <4>2, <4>3, WriteEffect
      <4> QED
        BY <4>2, <4>4
    <3>2. t \in Waiting(queue) => Found(t)'
      BY <1>0, <3>1, LongerLine DEF Found
    <3>3. ASSUME NEW n \in Nodes, CanRollBack(n, t) PROVE Found(t)'
      BY <3>1, <3>3 DEF CanRollBack, Unsettled, Found
    <3>4. ASSUME NEW v \in Workers, id[v] = t, Carries(v) PROVE Found(t)'
      <4>1. id'[v] = t /\ Carries(v)'
        BY <3>1, <3>4 DEF Carries
      <4> QED
        BY <4>1 DEF Found
    <3> QED
      BY <1>f, <3>1, <3>2, <3>3, <3>4 DEF Found
  <2> QED
    BY <2>1, <2>2
<1>2. ASSUME NEW w \in Workers, get_task(w) \/ begin_assign(w) \/ execute(w) \/ begin_mutation(w) \/ update_task_read(w)
      PROVE  Found(t)'
  <2>1. Others(w) /\ UNCHANGED rowVars /\ queue' = queue /\ submit' = submit /\ id' = id
    BY <1>0, <1>2, QuietStep, QuietLocals DEF OwnStep, KeepsRows, queueVars
  <2>2. id[w] = t /\ Carries(w) => Found(t)'
    BY <1>0, <1>2, <1>k, <2>1, QuietCarries DEF Found
  <2> QED
    BY <1>f, <1>k, <1>q, <2>1, <2>2, KeepFound
<1>3. ASSUME NEW w \in Workers, dequeue_task(w) PROVE Found(t)'
  <2>1. Others(w) /\ UNCHANGED rowVars /\ submit' = submit /\ id'[w] = NextId /\ pc[w] = "idle" /\ pc'[w] = "get_task"
    BY <1>0, <1>3, DequeueStep DEF OwnStep, KeepsRows
  <2>2. t \in Waiting(queue) => Found(t)'
    <3>1. queue # <<>> /\ queue' = (IF Redis THEN Front(queue) ELSE Tail(queue))
      BY <1>3 DEF dequeue_task, dequeue
    <3>2. CASE t = NextId
      BY <2>1, <3>2 DEF Found, Carries
    <3>3. CASE t # NextId
      <4>1. t \in Waiting(queue) => t \in Waiting(queue')
        BY <1>0, <3>1, <3>3, ShorterLine DEF NextId
      <4> QED
        BY <4>1 DEF Found
    <3> QED
      BY <3>2, <3>3
  <2>3. ~Carries(w)
    BY <2>1 DEF Carries
  <2> QED
    BY <1>f, <1>k, <2>1, <2>2, <2>3, KeepFound
<1>4. ASSUME NEW w \in Workers, end_assign(w) PROVE Found(t)'
  <2>1. /\ Others(w) /\ queue' = queue /\ submit' = submit /\ id' = id
        /\ WritesRow(w, "RUNNING") \/ (UNCHANGED rowVars /\ pc'[w] = "update_running")
    BY <1>0, <1>4, EndAssignStep DEF OwnStep, KeepsRows, queueVars
  <2>2. CASE WritesRow(w, "RUNNING")
    <3>1. id[w] # t /\ state'[t] = state[t] /\ lease'[t] = lease[t]
      BY <1>w, <2>2 DEF TaskState
    <3> QED
      BY <1>f, <1>q, <2>1, <3>1, KeepFound
  <2>3. CASE UNCHANGED rowVars /\ pc'[w] = "update_running"
    <3>1. id[w] = t => Found(t)'
      BY <2>1, <2>3 DEF Found, Carries
    <3> QED
      BY <1>f, <1>k, <1>q, <2>1, <2>3, <3>1, KeepFound
  <2> QED
    BY <2>1, <2>2, <2>3
<1>5. ASSUME NEW w \in Workers, end_complete(w) \/ end_failure(w) PROVE Found(t)'
  <2>1. /\ Others(w) /\ queue' = queue /\ submit' = submit /\ id' = id /\ task' = task
        /\ pc[w] \in {"completing", "recording"}
        /\ \/ WritesRow(w, "COMPLETED") \/ WritesRow(w, "FAILED")
           \/ WritesRow(w, "QUEUED") /\ pc'[w] = "settle" /\ attempts[id[w]] < MaxAttempts
           \/ UNCHANGED rowVars
    BY <1>0, <1>5, EndMutationStep DEF OwnStep, KeepsRows, queueVars
  <2>2. ~Carries(w)
    BY <2>1 DEF Carries
  <2>3. CASE state'[t] = state[t] /\ lease'[t] = lease[t]
    BY <1>f, <1>q, <2>1, <2>2, <2>3, KeepFound
  <2>4. CASE ~(state'[t] = state[t] /\ lease'[t] = lease[t])
    <3>1. id[w] = t /\ pc'[w] = "settle" /\ attempts[t] < MaxAttempts
      BY <1>k, <1>w, <2>1, <2>4 DEF TaskState
    <3>2. task[w].attempts \in Nat /\ attempts[t] \in Nat /\ task[w].attempts <= attempts[t]
      BY <1>0, <3>1, TaskAttempts, NullsAreFresh DEF Dated, RowTypes
    <3>3. task'[w].attempts < MaxAttempts
      BY <1>0, <2>1, <3>1, <3>2
    <3> QED
      BY <2>1, <3>1, <3>3 DEF Found, Carries
  <2> QED
    BY <2>3, <2>4
<1>6. ASSUME NEW w \in Workers, update_task_write(w) PROVE Found(t)'
  <2>1. /\ Others(w) /\ queue' = queue /\ submit' = submit /\ id' = id
        /\ pc[w] \in {"write_running", "write_completed"}
        /\ \/ WritesRow(w, "RUNNING") \/ WritesRow(w, "COMPLETED")
           \/ UNCHANGED rowVars /\ (pc[w] = "write_running" => ~CanUpdate(w, "RUNNING"))
    BY <1>0, <1>6, UpdateStep DEF OwnStep, KeepsRows, queueVars
  <2>2. CASE WritesRow(w, "RUNNING") \/ WritesRow(w, "COMPLETED")
    <3>1. id[w] # t /\ state'[t] = state[t] /\ lease'[t] = lease[t]
      BY <1>w, <2>2 DEF TaskState
    <3> QED
      BY <1>f, <1>q, <2>1, <3>1, KeepFound
  <2>3. CASE UNCHANGED rowVars /\ (pc[w] = "write_running" => ~CanUpdate(w, "RUNNING"))
    <3>1. state[t] = "QUEUED"
      BY <1>k, <2>3
    <3>2. ~(id[w] = t /\ Carries(w))
      BY <2>1, <2>3, <3>1 DEF Carries, CanUpdate, Terminal
    <3> QED
      BY <1>f, <1>k, <1>q, <2>1, <2>3, <3>2, KeepFound
  <2> QED
    BY <2>1, <2>2, <2>3
<1>7. ASSUME NEW w \in Workers, settle(w) \/ acknowledge_task(w) \/ crash(w) PROVE Found(t)'
  <2>1. /\ Others(w) /\ UNCHANGED rowVars /\ submit' = submit /\ id[w] \in Tasks
        /\ \/ crash(w)
           \/ queue' = <<id[w]>> \o queue
           \/ queue' = queue /\ pc[w] = "acknowledge"
           \/ queue' = queue /\ pc[w] = "settle" /\ ~(task[w].attempts < MaxAttempts)
    BY <1>0, <1>7, FinishStep DEF OwnStep, KeepsRows
  <2>2. ~crash(w)
    <3>1. crashes \in 0..MaxCrashes
      BY <1>0 DEF Types
    <3> QED
      BY <3>1 DEF crash
  <2>3. CASE queue' = <<id[w]>> \o queue
    <3>1. Waiting(queue) \cup {id[w]} \subseteq Waiting(queue')
      BY <1>0, <2>1, <2>3, LongerLine
    <3> QED
      BY <1>f, <1>k, <2>1, <3>1, KeepFound DEF Found
  <2>4. CASE queue' = queue /\ ~Carries(w)
    BY <1>f, <1>k, <1>q, <2>1, <2>4, KeepFound
  <2> QED
    BY <2>1, <2>2, <2>3, <2>4 DEF Carries
<1>8. ASSUME UNCHANGED <<rowVars, session, held, queueVars, runtimeVars>> PROVE Found(t)'
  <2>1. UNCHANGED <<state, lease, queue, submit, pc, id, task, seen>>
    BY <1>8 DEF rowVars, queueVars, runtimeVars
  <2> QED
    BY <1>f, <2>1 DEF Found, CanRollBack, Unsettled, Carries
<1> QED
  BY <1>0, <1>1, <1>2, <1>3, <1>4, <1>5, <1>6, <1>7, <1>8, PipelineStep

(* No step of a leader does: it settles a row it moved by putting it on    *)
(* the queue or by rolling it back, and when the rollback does not match,  *)
(* the row has been moved by another.                                      *)
LEMMA LeaderFound ==
  ASSUME ClusterInv, \A n \in Nodes : Aimed(n), ~Preemptive, NEW m \in Nodes, LeaderNext(m),
         NEW t \in Tasks, Tracked(t), state'[t] = "QUEUED", submit'[t] = "done"
  PROVE  Found(t)'
<1>0. Types /\ LeaderTypes /\ RowTypes /\ queue \in Seq(Tasks)
  BY DEF ClusterInv, Types, QueueTypeOK
<1>1. /\ LeaderQuiet \/ LeaderMoves(m) \/ LeaderRestores(m)
      /\ UNCHANGED <<pc, id, task, seen, submit>>
      /\ queue' = queue \/ (queue' = Append(queue, leader[m].cur.task) /\ leader[m].cur.task \in Tasks)
  BY <1>0, LeaderStep DEF queueVars
<1>2. Waiting(queue) \subseteq Waiting(queue')
  BY <1>0, <1>1, LongerLine
<1>3. ASSUME state'[t] = state[t], lease'[t] = lease[t],
             \A n \in Nodes : CanRollBack(n, t) => Found(t)'
      PROVE  Found(t)'
  <2>1. ASSUME NEW w \in Workers, id[w] = t, Carries(w) PROVE Found(t)'
    <3>1. id'[w] = t /\ Carries(w)'
      BY <1>1, <1>3, <2>1 DEF Carries
    <3> QED
      BY <3>1 DEF Found
  <2>2. t \in Waiting(queue) => Found(t)'
    BY <1>2 DEF Found
  <2>3. Found(t)
    BY <1>1, <1>3 DEF Tracked
  <2> QED
    BY <1>3, <2>1, <2>2, <2>3 DEF Found
<1>4. ASSUME NEW n \in Nodes, CanRollBack(n, t), state'[t] = state[t], lease'[t] = lease[t],
             leader'[n].cur = leader[n].cur, Unsettled(n)'
      PROVE  Found(t)'
  BY <1>4 DEF CanRollBack, Found
<1>5. CASE LeaderQuiet
  <2>1. state'[t] = state[t] /\ lease'[t] = lease[t]
    BY <1>5 DEF LeaderQuiet, rowVars
  <2>2. ASSUME NEW n \in Nodes, CanRollBack(n, t) PROVE Found(t)'
    <3>1. target(leader[n].cur) = "QUEUED" /\ Unsettled(n) /\ leader[n].cur.task = t /\ lease[t] = leader[n].cur.lease + 1
      BY <2>1, <2>2 DEF Aimed, CanRollBack
    <3>2. CASE n # m
      <4>0. \E r : leader' = [leader EXCEPT ![m] = r]
        <5>1. CASE acquire(m) \/ preempt(m) \/ release(m) \/ crash_leader(m)
          BY <5>1 DEF acquire, preempt, NewLease, release, crash_leader
        <5>2. CASE scan_orphans(m) \/ next_task(m)
          BY <5>2 DEF scan_orphans, next_task, Go
        <5>3. CASE transition_orphan(m) \/ recheck_lock(m) \/ enqueue_orphan(m) \/ rollback_orphan(m)
          <6>1. PICK p : Go(m, p)
            BY <5>3 DEF transition_orphan, recheck_lock, enqueue_orphan, rollback_orphan
          <6> QED
            BY <6>1 DEF Go
        <5> QED
          BY <5>1, <5>2, <5>3 DEF LeaderNext
      <4>1. leader'[n] = leader[n]
        BY <1>0, <3>2, <4>0 DEF LeaderTypes
      <4> QED
        BY <1>4, <2>1, <2>2, <3>1, <4>1 DEF Unsettled
    <3>3. CASE n = m
      <4>1. CASE leader[m].pc = "recheck"
        <5>1. recheck_lock(m)
          BY <4>1 DEF LeaderNext, acquire, preempt, NewLease, scan_orphans, next_task, transition_orphan,
             enqueue_orphan, rollback_orphan, release, crash_leader
        <5>2. PICK p \in {"rollback", "enqueue"} : Go(m, p)
          BY <3>1, <3>3, <5>1 DEF recheck_lock
        <5>3. Moved(m, p, leader[m].cur)
          BY <1>0, <5>2, GoMoves DEF LeaderPC
        <5> QED
          BY <1>4, <2>1, <2>2, <3>3, <5>3 DEF Moved, Unsettled
      <4>2. CASE leader[m].pc = "enqueue"
        <5>1. enqueue_orphan(m)
          BY <4>2 DEF LeaderNext, acquire, preempt, NewLease, scan_orphans, next_task, transition_orphan,
             recheck_lock, rollback_orphan, release, crash_leader
        <5>2. CASE enqueue(leader[m].cur.task)
          <6>1. t \in Waiting(queue')
            BY <1>0, <3>1, <3>3, <5>2, LongerLine DEF enqueue
          <6> QED
            BY <6>1 DEF Found
        <5>3. CASE Go(m, "rollback")
          <6>1. Moved(m, "rollback", leader[m].cur)
            BY <1>0, <5>3, GoMoves DEF LeaderPC
          <6> QED
            BY <1>4, <2>1, <2>2, <3>3, <6>1 DEF Moved, Unsettled
        <5> QED
          BY <5>1, <5>2, <5>3 DEF enqueue_orphan
      <4>3. CASE leader[m].pc = "rollback"
        <5>1. rollback_orphan(m)
          BY <4>3 DEF LeaderNext, acquire, preempt, NewLease, scan_orphans, next_task, transition_orphan,
             recheck_lock, enqueue_orphan, release, crash_leader
        <5>2. atomic_transition(t, lease[t], {"QUEUED"}, "RUNNING", leader[m].cur.lease)
          BY <2>1, <3>1, <3>3, <5>1 DEF rollback_orphan
        <5>3. leader[m].cur.lease \in Nat
          BY <1>0, <4>3, SnapshotFacts
        <5>4. state'[t] = "RUNNING"
          BY <1>0, <5>2 DEF atomic_transition, Transition, RowTypes
        <5> QED
          BY <5>4
      <4> QED
        BY <3>1, <3>3, <4>1, <4>2, <4>3 DEF Unsettled
    <3> QED
      BY <3>2, <3>3
  <2> QED
    BY <1>3, <2>1, <2>2
<1>6. CASE LeaderMoves(m)
  <2> DEFINE u == leader[m].cur.task
  <2>0. /\ u \in Tasks /\ Write(u, target(leader[m].cur), lease[u] + 1) /\ Moved(m, "recheck", leader[m].cur)
        /\ leader[m].pc = "transition" /\ lease[u] = leader[m].cur.lease
    BY <1>0, <1>6, SnapshotFacts DEF LeaderMoves
  <2>u. u = leader[m].cur.task
    OBVIOUS
  <2> HIDE DEF u
  <2>1. lease[u] + 1 \in Nat /\ target(leader[m].cur) \in TaskState
    BY <1>0, <2>0 DEF RowTypes, TaskState, target
  <2>2. lease'[u] = lease[u] + 1 /\ \A x \in Tasks \ {u} : state'[x] = state[x] /\ lease'[x] = lease[x]
    BY <1>0, <2>0, <2>1, WriteEffect
  <2>3. CASE t = u
    <3>1. CanRollBack(m, t)'
      BY <2>0, <2>u, <2>2, <2>3 DEF CanRollBack, Moved, Unsettled
    <3> QED
      BY <3>1 DEF Found
  <2>4. CASE t # u
    <3>1. ASSUME NEW n \in Nodes, CanRollBack(n, t) PROVE Found(t)'
      <4>1. n # m /\ leader'[n] = leader[n]
        BY <2>0, <3>1 DEF CanRollBack, Unsettled, Moved
      <4> QED
        BY <1>4, <2>2, <2>4, <3>1, <4>1 DEF Unsettled, CanRollBack
    <3> QED
      BY <1>3, <2>2, <2>4, <3>1
  <2> QED
    BY <2>3, <2>4
<1>7. CASE LeaderRestores(m)
  <2> DEFINE u == leader[m].cur.task
             v == leader[m].cur.lease
  <2>1. /\ u \in Tasks /\ v \in Nat /\ "RUNNING" \in TaskState
        /\ Write(u, "RUNNING", v) /\ Moved(m, "release", leader[m].cur)
    BY <1>0, <1>7, SnapshotFacts DEF LeaderRestores, TaskState
  <2>u. u = leader[m].cur.task
    OBVIOUS
  <2> HIDE DEF u, v
  <2>2. state'[u] = "RUNNING" /\ \A x \in Tasks \ {u} : state'[x] = state[x] /\ lease'[x] = lease[x]
    BY <1>0, <2>1, WriteEffect
  <2>3. t # u
    BY <2>2
  <2>4. ASSUME NEW n \in Nodes, CanRollBack(n, t) PROVE Found(t)'
    <3>1. n # m /\ leader'[n] = leader[n]
      BY <2>1, <2>3, <2>4, <2>u DEF CanRollBack, Moved
    <3> QED
      BY <1>4, <2>2, <2>3, <2>4, <3>1 DEF Unsettled, CanRollBack
  <2> QED
    BY <1>3, <2>2, <2>3, <2>4
<1> QED
  BY <1>1, <1>5, <1>6, <1>7

(* Tracked is inductive.                                                   *)
LEMMA TrackedStep ==
  ASSUME ClusterInv, \A n \in Nodes : Aimed(n), \A w \in Workers : Dated(w), \A t \in Tasks : Tracked(t),
         ~Preemptive, ~Redis \/ MaxCrashes = 0, [ClusterNext]_allVars
  PROVE  \A t \in Tasks : Tracked(t)'
<1> SUFFICES ASSUME NEW t \in Tasks, state'[t] = "QUEUED", submit'[t] = "done" PROVE Found(t)'
  BY DEF Tracked
<1>1. CASE expire_lease \/ UNCHANGED allVars
  <2>1. UNCHANGED <<state, lease, queue, submit, pc, id, task, seen, leader>>
    BY <1>1 DEF expire_lease, allVars, recoveryVars, pipelineVars, vars, taskVars, queueVars, runtimeVars
  <2> QED
    BY <2>1 DEF Tracked, Found, CanRollBack, Unsettled, Carries
<1>2. CASE PipelineNext /\ UNCHANGED recoveryVars
  BY <1>2, WorkerFound DEF recoveryVars
<1>3. CASE \E n \in Nodes : LeaderNext(n)
  BY <1>3, LeaderFound
<1> QED
  BY <1>1, <1>2, <1>3 DEF ClusterNext

(* Only finitely many workers are at work at a time, whatever Workers is.  *)
LEMMA BusyStep ==
  ASSUME ClusterInv, IsFiniteSet(Busy), [ClusterNext]_allVars
  PROVE  IsFiniteSet(Busy')
<1>0. Types
  BY DEF ClusterInv
<1>1. ASSUME NEW w \in Workers, OwnStep(w) PROVE IsFiniteSet(Busy')
  <2>1. Busy' \subseteq Busy \cup {w}
    BY <1>1 DEF OwnStep, Others, Busy
  <2>2. IsFiniteSet(Busy \cup {w})
    BY FS_AddElement
  <2> QED
    BY <2>1, <2>2, FS_Subset
<1>2. ASSUME id' = id PROVE IsFiniteSet(Busy')
  BY <1>2 DEF Busy
<1>3. CASE [PipelineNext]_pipelineVars
  <2>1. ASSUME NEW t \in Tasks, SubmitNext(t) PROVE id' = id
    BY <1>0, <2>1, SubmitStep
  <2>2. ASSUME NEW w \in Workers, ProcessTask(w) \/ crash(w) PROVE OwnStep(w)
    BY <1>0, <2>2, QuietStep, DequeueStep, EndAssignStep, EndMutationStep, UpdateStep, FinishStep DEF ProcessTask
  <2>3. ASSUME NEW w \in Workers, administer(w) PROVE id' = id
    BY <2>3, AdministerStep DEF runtimeVars
  <2>4. UNCHANGED pipelineVars => id' = id
    BY DEF pipelineVars, runtimeVars
  <2> QED
    BY <1>1, <1>2, <1>3, <2>1, <2>2, <2>3, <2>4 DEF PipelineNext
<1>4. ASSUME NEW n \in Nodes, LeaderNext(n) PROVE id' = id
  BY <1>4, LeaderStep DEF ClusterInv
<1>5. CASE expire_lease \/ UNCHANGED allVars
  BY <1>2, <1>5 DEF expire_lease, allVars, pipelineVars, runtimeVars
<1> QED
  BY <1>2, <1>3, <1>4, <1>5 DEF ClusterNext

(* What is on the queue or with a worker is counted by Copies.             *)
LEMMA CopyExists ==
  ASSUME Types, IsFiniteSet(Busy), NEW t \in Tasks, t \in Waiting(queue) \/ \E w \in Workers : id[w] = t
  PROVE  Copies(t) > 0
<1> DEFINE places == {i \in DOMAIN queue : queue[i] = t}
<1>1. queue \in Seq(Tasks) /\ Len(queue) \in Nat /\ DOMAIN queue = 1..Len(queue)
  BY DEF Types, QueueTypeOK
<1>2. IsFiniteSet(places)
  <2>1. IsFiniteSet(1..Len(queue))
    BY <1>1, FS_Interval
  <2>2. places \subseteq 1..Len(queue)
    BY <1>1
  <2> QED
    BY <2>1, <2>2, FS_Subset
<1>3. IsFiniteSet(Holders(t))
  <2>1. Holders(t) \subseteq Busy
    BY NullsAreFresh DEF Holders, Busy
  <2> QED
    BY <2>1, FS_Subset
<1>4. places # {} \/ Holders(t) # {}
  BY DEF Waiting, Holders
<1>5. Copies(t) = Cardinality(places) + Cardinality(Holders(t))
  BY DEF Copies
<1> HIDE DEF places
<1>6. /\ Cardinality(places) \in Nat /\ (places # {} => Cardinality(places) # 0)
      /\ Cardinality(Holders(t)) \in Nat /\ (Holders(t) # {} => Cardinality(Holders(t)) # 0)
  BY <1>2, <1>3, FS_CardinalityType, FS_EmptySet
<1> QED
  BY <1>4, <1>5, <1>6

(* cluster_recovery.py:271, for any number of workers, leaders and leases: *)
(* with DistributedRecoveryLock and no worker death, no lease expiry, full *)
(* queue, refused assignment or late result makes recover_orphaned_tasks   *)
(* and process_task leave a QUEUED task that is nowhere.  The hypotheses   *)
(* are needed: a worker that dies, or a leader of the other lock class     *)
(* that dies, takes the only trace of the task with it.                    *)
THEOREM RecoveredIsReachable ==
  ASSUME ~Preemptive, ~Redis \/ MaxCrashes = 0
  PROVE  ClusterSpec => []RecoveredTaskIsReachable
<1> DEFINE Inv == /\ \A n \in Nodes : Aimed(n)
                  /\ \A w \in Workers : Dated(w)
                  /\ \A t \in Tasks : Tracked(t)
                  /\ IsFiniteSet(Busy)
<1>1. ASSUME ClusterInit PROVE Inv
  <2>1. /\ leader = [n \in Nodes |-> [pc |-> "idle", token |-> 0, cur |-> NoSnapshot]]
        /\ id = [w \in Workers |-> NoTask] /\ submit = [t \in Tasks |-> "new"]
    BY <1>1 DEF ClusterInit, RuntimeInit
  <2>2. Busy = {}
    BY <2>1 DEF Busy
  <2>3. IsFiniteSet(Busy)
    BY <2>2, FS_EmptySet
  <2> QED
    BY <2>1, <2>3 DEF Aimed, CanRollBack, Unsettled, Dated, Tracked
<1>2. ASSUME Inv, ClusterInv, [ClusterNext]_allVars PROVE Inv'
  BY <1>2, AimedStep, DatedStep, TrackedStep, BusyStep
<1>3. ASSUME Inv, ClusterInv PROVE RecoveredTaskIsReachable
  <2> SUFFICES ASSUME NEW t \in Tasks, state[t] = "QUEUED", submit[t] = "done"
               PROVE  \/ Copies(t) > 0
                      \/ \E n \in Nodes : leader[n].pc \in {"recheck", "enqueue", "rollback"} /\ leader[n].cur.task = t
    BY DEF RecoveredTaskIsReachable
  <2>1. Found(t)
    BY <1>3 DEF Tracked
  <2>2. CASE \E n \in Nodes : CanRollBack(n, t)
    BY <2>2 DEF CanRollBack, Unsettled
  <2>3. CASE t \in Waiting(queue) \/ \E w \in Workers : id[w] = t
    BY <1>3, <2>3, CopyExists DEF ClusterInv
  <2> QED
    BY <2>1, <2>2, <2>3 DEF Found
<1> QED
  BY <1>1, <1>2, <1>3, ClusterInvariant, PTL DEF ClusterSpec
=============================================================================
