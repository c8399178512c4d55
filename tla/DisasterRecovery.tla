--------------------------- MODULE DisasterRecovery ---------------------------
(***************************************************************************)
(* karsasec.recovery: RecoveryCheckpoint.save_checkpoint saves the task    *)
(* rows and the head of the audit ledger; restore_checkpoint puts the rows *)
(* back, replays the ledger entries after that head and rebuilds the       *)
(* outbox from the whole ledger.                                           *)
(*                                                                         *)
(* The ledger is ordered by created_at, which record_transition takes when *)
(* it flushes the entry; other sessions see the entry only at the commit.  *)
(* So a transaction of the task repository is two steps here,              *)
(* record_transition and commit, and ledger holds the entries in the order *)
(* of created_at, open[t] telling the one that is not committed yet.  An   *)
(* entry whose transaction is rolled back becomes Void.                    *)
(*                                                                         *)
(* save_checkpoint is two statements under READ COMMITTED, create_snapshot *)
(* and save_checkpoint here: what commits in between is behind the head    *)
(* and not in the rows.                                                    *)
(*                                                                         *)
(* The sessions of DatabaseSessionFactory do not flush before a query, so  *)
(* a restore does not find the rows it has just added; those that the      *)
(* tests of karsasec.recovery make do.  Autoflush says which.              *)
(*                                                                         *)
(* exact and lost are history: exact is FALSE once rows were restored to   *)
(* an earlier point in time, or from a checkpoint that was saved while     *)
(* some transaction committed or was between its flush and its commit;     *)
(* lost is TRUE from a disaster to the next restore.                       *)
(***************************************************************************)
EXTENDS Naturals, Sequences, FiniteSets

CONSTANTS
    Tasks,
    Workers,
    Checkpoints,     \* recovery_checkpoints.checkpoint_id
    Nodes,           \* recovery nodes; each uses its own recovery_lease_token
    MaxAttempts,     \* tasks.max_attempts, of every task that create_task adds
    Autoflush,       \* TRUE: the session flushes before a query
    MaxGeneration,   \* bound: snapshot_generation is chosen by the caller from 1..MaxGeneration
    Targets,         \* the pitr_sequence values that are tried
    MaxEntries,      \* bound: entries of the audit ledger
    MaxSaves,        \* bound: calls of save_checkpoint
    MaxRestores,     \* bound: calls of restore_checkpoint
    MaxDisasters     \* bound: how often the tables are lost

ASSUME RecoveryBounds ==
    /\ MaxAttempts \in Nat \ {0}
    /\ Autoflush \in BOOLEAN
    /\ MaxGeneration \in Nat \ {0}
    /\ Targets \subseteq Nat
    /\ {MaxEntries, MaxSaves, MaxRestores, MaxDisasters} \subseteq Nat

NoWorker == "NoWorker"
NoTask == "NoTask"
ASSUME RecoveryNulls == NoWorker \notin Workers /\ NoTask \notin Tasks

VARIABLES
    row,         \* row[t]: the row of tasks, NoRow while there is none
    ledger,      \* task_audit_log in the order of created_at
    open,        \* open[t]: the transaction that holds the row of t
    outbox,      \* outbox[t]: the rows of outbox_events
    checkpoint,  \* recovery_checkpoints
    draft,       \* draft[n]: the snapshot node n is making, its rows read
    saves, restores, disasters,
    exact, lost

vars == <<row, ledger, open, outbox, checkpoint, draft, saves, restores, disasters, exact, lost>>

TaskState == {"PENDING", "QUEUED", "RUNNING", "COMPLETED", "FAILED"}
EventKind == {"task_created", "task_transition", "task_assigned", "task_completed", "task_failure"}

Terminal == {"COMPLETED", "FAILED"}

(* max_attempts of a task that replay_events reconstructs.                 *)
ReconstructedMax == 3
Larger == IF MaxAttempts > ReconstructedMax THEN MaxAttempts ELSE ReconstructedMax

NoRow == [state |-> "NONE", attempts |-> 0, max |-> 0, owner |-> NoWorker, lease |-> 0]
Row == [state : TaskState \cup {"NONE"}, attempts : Nat, max : {0, MaxAttempts, ReconstructedMax},
        owner : Workers \cup {NoWorker}, lease : Nat]
Entry == [task : Tasks, prev : TaskState \cup {"NONE"}, new : TaskState,
          worker : Workers \cup {NoWorker}, lease : Nat]
Void == [task |-> NoTask, prev |-> "NONE", new |-> "NONE", worker |-> NoWorker, lease |-> 0]
Transaction == [at : Nat \ {0}, kind : EventKind]
NoTransaction == [at |-> 0, kind |-> "task_created"]
Event == [kind : EventKind, lease : Nat, rebuilt : BOOLEAN]
Checkpoint == [generation : 1..MaxGeneration, lease_token : Nodes, rows : [Tasks -> Row],
               head : Nat, quiet : BOOLEAN]
NoCheckpoint == [generation |-> 0]
Draft == [rows : [Tasks -> Row], head : Nat, quiet : BOOLEAN]
NoDraft == NoCheckpoint

TypeOK ==
    /\ row \in [Tasks -> Row]
    /\ ledger \in Seq(Entry \cup {Void})
    /\ open \in [Tasks -> Transaction \cup {NoTransaction}]
    /\ outbox \in [Tasks -> SUBSET Event]
    /\ checkpoint \in [Checkpoints -> Checkpoint \cup {NoCheckpoint}]
    /\ draft \in [Nodes -> Draft \cup {NoDraft}]
    /\ saves \in 0..MaxSaves
    /\ restores \in 0..MaxRestores
    /\ disasters \in 0..MaxDisasters
    /\ {exact, lost} \subseteq BOOLEAN

Init ==
    /\ row = [t \in Tasks |-> NoRow]
    /\ ledger = <<>>
    /\ open = [t \in Tasks |-> NoTransaction]
    /\ outbox = [t \in Tasks |-> {}]
    /\ checkpoint = [c \in Checkpoints |-> NoCheckpoint]
    /\ draft = [n \in Nodes |-> NoDraft]
    /\ saves = 0 /\ restores = 0 /\ disasters = 0
    /\ exact = TRUE /\ lost = FALSE

-----------------------------------------------------------------------------
(* The ledger as another session sees it.                                  *)

Committed == {i \in DOMAIN ledger : ledger[i] # Void /\ open[ledger[i].task].at # i}
CommittedOf(t) == {i \in Committed : ledger[i].task = t}
Last(S) == CHOOSE i \in S : \A j \in S : j <= i
HeadOf(S) == IF S = {} THEN 0 ELSE Last(S)

-----------------------------------------------------------------------------
(* The transactions of the task repository (PostgresTaskRepository.tla     *)
(* has them in detail): what each writes to the ledger and the outbox.     *)

Assignments(r) ==
    IF r.attempts < r.max THEN {[new |-> "RUNNING", worker |-> w, kind |-> "task_assigned"] : w \in Workers}
                          ELSE {}

(* update_task, which process_task calls when assign_task or complete_task *)
(* raised: a worker that dequeued t starts it, or one that executed it     *)
(* completes it, whatever the row says by now.                             *)
Fallbacks(t) ==
    LET past == {ledger[i].new : i \in CommittedOf(t)}
    IN  {m \in [new : {"RUNNING", "COMPLETED"}, worker : {NoWorker}, kind : {"task_transition"}] :
            IF m.new = "RUNNING" THEN "QUEUED" \in past /\ row[t].state \notin Terminal
                                 ELSE "RUNNING" \in past}

Moves(t) ==
    LET r == row[t]
        next == IF r.attempts < r.max THEN "QUEUED" ELSE "FAILED"
    IN  CASE r.state = "NONE" ->        \* create_task, under a new task_id
                {m \in {[new |-> "PENDING", worker |-> NoWorker, kind |-> "task_created"]} :
                    \A i \in DOMAIN ledger : ledger[i].task # t}
          [] r.state = "PENDING" ->     \* atomic_transition, assign_task
                {[new |-> "QUEUED", worker |-> NoWorker, kind |-> "task_transition"]} \cup Assignments(r) \cup Fallbacks(t)
          [] r.state = "QUEUED" -> Assignments(r) \cup Fallbacks(t)
          [] r.state = "RUNNING" ->     \* complete_task, record_execution_failure, recover_orphaned_tasks
                {[new |-> "COMPLETED", worker |-> r.owner, kind |-> "task_completed"],
                 [new |-> next, worker |-> r.owner,
                  kind |-> IF next = "FAILED" THEN "task_failure" ELSE "task_transition"],
                 [new |-> next, worker |-> NoWorker, kind |-> "task_transition"]} \cup Fallbacks(t)
          [] OTHER -> Fallbacks(t)

record_transition(t, m) ==
    /\ open[t] = NoTransaction
    /\ Len(ledger) < MaxEntries
    /\ ledger' = Append(ledger, [task |-> t, prev |-> row[t].state, new |-> m.new,
                                 worker |-> m.worker, lease |-> row[t].lease + 1])
    /\ open' = [open EXCEPT ![t] = [at |-> Len(ledger) + 1, kind |-> m.kind]]
    /\ UNCHANGED <<row, outbox, checkpoint, draft, saves, restores, disasters, exact, lost>>

(* Mutant: the deduplication key leaves the version out.                   *)
SameKey_unversioned(a, b) == a.kind = b.kind

(* Two outbox rows of a task have the same deduplication_key.              *)
SameKey(a, b) == a.kind = b.kind /\ (a.kind = "task_created" \/ a.lease = b.lease)

(* Mutant: the execution is not counted.                                   *)
Written_uncounted(r, e) ==
    [state |-> e.new, attempts |-> r.attempts, max |-> IF e.prev = "NONE" THEN MaxAttempts ELSE r.max,
     owner |-> e.worker, lease |-> e.lease]

(* The row that the transaction of entry e commits over r: every start     *)
(* counts as an attempt; only assign_task and the retry of                 *)
(* record_execution_failure write assigned_worker_id.                      *)
Written(r, e) ==
    [state |-> e.new,
     attempts |-> IF e.new = "RUNNING" THEN r.attempts + 1 ELSE r.attempts,
     max |-> IF e.prev = "NONE" THEN MaxAttempts ELSE r.max,
     owner |-> CASE e.new = "RUNNING" /\ e.worker # NoWorker -> e.worker
                 [] e.new = "QUEUED" /\ e.worker # NoWorker -> NoWorker
                 [] OTHER -> r.owner,
     lease |-> e.lease]

commit(t) ==
    LET e == ledger[open[t].at]
        event == [kind |-> open[t].kind, lease |-> e.lease, rebuilt |-> FALSE]
    IN  /\ open[t] # NoTransaction
        /\ row' = [row EXCEPT ![t] = Written(@, e)]
        /\ outbox' = [outbox EXCEPT ![t] = IF \E o \in @ : SameKey(o, event) THEN @ ELSE @ \cup {event}]
        /\ open' = [open EXCEPT ![t] = NoTransaction]
        /\ UNCHANGED <<ledger, checkpoint, draft, saves, restores, disasters, exact, lost>>

rollback(t) ==
    /\ open[t] # NoTransaction
    /\ ledger' = [ledger EXCEPT ![open[t].at] = Void]
    /\ open' = [open EXCEPT ![t] = NoTransaction]
    /\ UNCHANGED <<row, outbox, checkpoint, draft, saves, restores, disasters, exact, lost>>

(* The database is lost: the ledger and the checkpoints come back from     *)
(* their archive, the tasks and the outbox do not; sessions end.           *)
disaster ==
    /\ disasters < MaxDisasters
    /\ \A t \in Tasks : open[t] = NoTransaction
    /\ row' = [t \in Tasks |-> NoRow]
    /\ outbox' = [t \in Tasks |-> {}]
    /\ draft' = [n \in Nodes |-> NoDraft]
    /\ disasters' = disasters + 1
    /\ lost' = TRUE
    /\ UNCHANGED <<ledger, open, checkpoint, saves, restores, exact>>

-----------------------------------------------------------------------------
(* save_checkpoint reads without locks: each statement sees what is        *)
(* committed when it begins.                                               *)

(* The tasks are read.  head and quiet are history: the head of the ledger *)
(* at this moment, and that no transaction is between flush and commit.    *)
(* An earlier draft of the node belongs to a call that raised.             *)
create_snapshot(node) ==
    /\ saves < MaxSaves
    /\ draft' = [draft EXCEPT ![node] =
           [rows |-> row, head |-> HeadOf(Committed),
            quiet |-> ~lost /\ \A t \in Tasks : open[t] = NoTransaction]]
    /\ saves' = saves + 1
    /\ UNCHANGED <<row, ledger, open, outbox, checkpoint, restores, disasters, exact, lost>>

(* The head of the ledger is read, and the checkpoint is written with the  *)
(* id and the generation that the caller has chosen.                       *)
save_checkpoint(c, generation, node) ==
    LET d == draft[node]
    IN  /\ d # NoDraft
        /\ checkpoint' = [checkpoint EXCEPT ![c] =
               [generation |-> generation, lease_token |-> node, rows |-> d.rows,
                head |-> HeadOf(Committed), quiet |-> d.quiet /\ HeadOf(Committed) = d.head]]
        /\ draft' = [draft EXCEPT ![node] = NoDraft]
        /\ UNCHANGED <<row, ledger, open, outbox, saves, restores, disasters, exact, lost>>

(* Mutant: the entry right behind the boundary marker is passed over.      *)
After_skipping(head, target) ==
    LET tail == {i \in Committed : i > head + 1}
    IN  {i \in tail : \A j \in tail : j <= i => ledger[j].lease <= target}

(* The entries replay_events applies: behind the boundary marker, up to    *)
(* the first one, of whatever task, that is past the target.               *)
After(head, target) ==
    LET tail == {i \in Committed : i > head}
    IN  {i \in tail : \A j \in tail : j <= i => ledger[j].lease <= target}

(* Mutant: replay leaves lease_version as the snapshot has it.             *)
Replayed_unversioned(rows, entries) ==
    [t \in Tasks |->
        LET mine == {i \in entries : ledger[i].task = t}
            e == ledger[Last(mine)]
        IN  IF mine = {} THEN rows[t]
            ELSE [state |-> e.new, attempts |-> rows[t].attempts, max |-> rows[t].max,
                  owner |-> e.worker, lease |-> rows[t].lease]]

(* The rows after load_snapshot and replay_events: the last replayed entry *)
(* of a task decides state, version and owner; attempts and max_attempts   *)
(* are those of the snapshot, 0 and 3 for a task the snapshot does not     *)
(* have.  A row that the entry itself reconstructs keeps the entry's       *)
(* worker also when QUEUED.                                                *)
Replayed(rows, entries) ==
    [t \in Tasks |->
        LET mine == {i \in entries : ledger[i].task = t}
            e == ledger[Last(mine)]
            reconstructed == rows[t] = NoRow /\ Cardinality(mine) = 1
        IN  IF mine = {} THEN rows[t]
            ELSE [state |-> e.new,
                  attempts |-> rows[t].attempts,
                  max |-> IF rows[t] = NoRow THEN ReconstructedMax ELSE rows[t].max,
                  owner |-> IF e.new = "QUEUED" /\ ~reconstructed THEN NoWorker ELSE e.worker,
                  lease |-> e.lease]]

(* tasks.task_id is UNIQUE: without the flush replay_events adds a task    *)
(* that the snapshot does not have once for each of its entries.           *)
ReplayIsUnique(rows, entries) ==
    \A i, j \in entries :
        ~Autoflush /\ ledger[i].task = ledger[j].task /\ rows[ledger[i].task] = NoRow => i = j

(* The deduplication key rebuild_outbox_from_audit gives an entry.         *)
RebuiltKind(e) ==
    CASE <<e.prev, e.new>> \in {<<"NONE", "QUEUED">>, <<"PENDING", "QUEUED">>} -> "task_created"
      [] e.prev = "QUEUED" /\ e.new = "RUNNING" -> "task_assigned"
      [] e.prev = "RUNNING" /\ e.new = "COMPLETED" -> "task_completed"
      [] e.new = "FAILED" -> "task_failure"
      [] OTHER -> "task_transition"

RebuiltEvent(i) == [kind |-> RebuiltKind(ledger[i]), lease |-> ledger[i].lease, rebuilt |-> TRUE]

(* The entries rebuild_outbox_from_audit adds an event for: those whose    *)
(* key is not in the table, where it finds the events it has itself added  *)
(* only if they were flushed.                                              *)
Missing(t) ==
    LET mine == CommittedOf(t)
    IN  {i \in mine :
            /\ \A o \in outbox[t] : ~SameKey(o, RebuiltEvent(i))
            /\ Autoflush => \A j \in mine : j < i => ~SameKey(RebuiltEvent(j), RebuiltEvent(i))}

(* outbox_events has UNIQUE columns: deduplication_key, and event_id,      *)
(* which is evt_<task>_<lease_version> for a rebuilt event.                *)
RebuildIsUnique(t) ==
    LET missing == Missing(t)
    IN  \A i \in missing :
            /\ \A j \in missing :
                   ledger[i].lease = ledger[j].lease \/ SameKey(RebuiltEvent(i), RebuiltEvent(j)) => i = j
            /\ \A o \in outbox[t] : o.rebuilt => o.lease # ledger[i].lease

(* The checks that raise are guards: the caller's session is rolled back.  *)
(* The row locks of open transactions hold up the DELETE of load_snapshot; *)
(* a task that is just being created has no row to lock.                   *)
MayRestore(c, node, target) ==
    /\ restores < MaxRestores
    /\ checkpoint[c] # NoCheckpoint
    /\ checkpoint[c].lease_token = node
    /\ \A d \in Checkpoints : checkpoint[d].generation <= checkpoint[c].generation
    /\ \A t \in Tasks : open[t] # NoTransaction => row[t] = NoRow
    /\ ReplayIsUnique(checkpoint[c].rows, After(checkpoint[c].head, target))
    /\ \A t \in Tasks : RebuildIsUnique(t)

Restore(c, node, target) ==
    /\ MayRestore(c, node, target)
    /\ row' = Replayed(checkpoint[c].rows, After(checkpoint[c].head, target))
    /\ outbox' = [t \in Tasks |-> outbox[t] \cup {RebuiltEvent(i) : i \in Missing(t)}]
    /\ restores' = restores + 1
    /\ lost' = FALSE
    /\ UNCHANGED <<ledger, open, checkpoint, draft, saves, disasters>>

restore_checkpoint(c, node) ==
    /\ Restore(c, node, MaxEntries)    \* no entry is past this target
    /\ exact' = (exact /\ checkpoint[c].quiet)

restore_to_sequence(c, node, target) ==
    /\ Restore(c, node, target)
    /\ exact' = FALSE

-----------------------------------------------------------------------------
Next ==
    \/ \E t \in Tasks : \E m \in Moves(t) : record_transition(t, m)
    \/ \E t \in Tasks : commit(t) \/ rollback(t)
    \/ disaster
    \/ \E n \in Nodes : create_snapshot(n)
    \/ \E c \in Checkpoints, g \in 1..MaxGeneration, n \in Nodes : save_checkpoint(c, g, n)
    \/ \E c \in Checkpoints, n \in Nodes :
          restore_checkpoint(c, n) \/ \E s \in Targets : restore_to_sequence(c, n, s)

Spec == Init /\ [][Next]_vars

-----------------------------------------------------------------------------
(* Properties.                                                             *)

(* INV-F9-AUDIT-03: outside a disaster a task row has the state and the    *)
(* lease_version of the task's last ledger entry, after any number of      *)
(* disasters and restores from whichever checkpoint of the highest         *)
(* generation.  It is stated while the restores are exact: from a          *)
(* checkpoint saved while a transaction committed, or to an earlier        *)
(* sequence, replay_events does lose transitions (snapshot.py:49 and :74). *)
RowFollowsLedger ==
    exact /\ ~lost =>
        \A t \in Tasks :
            LET mine == CommittedOf(t)
                e == ledger[Last(mine)]
            IN  IF mine = {} THEN row[t] = NoRow
                             ELSE row[t].state = e.new /\ row[t].lease = e.lease

(* Outside a disaster and after exact restores every committed transition  *)
(* is announced by an outbox event with its version, and by two at most:   *)
(* the one staged with it, and one that rebuild_outbox_from_audit made     *)
(* up.  The identity of the original is not what comes back, although      *)
(* replay.py:140 says so; what holds is that no transition is silent, and  *)
(* none is rebuilt a second time by a later restore.                       *)
EveryEntryAnnounced ==
    exact /\ ~lost =>
        \A i \in Committed :
            LET events == {o \in outbox[ledger[i].task] : o.lease = ledger[i].lease}
            IN  events # {} /\ \A o, p \in events : o.rebuilt = p.rebuilt => o = p

(* The event ids and keys that rebuild_outbox_from_audit makes up never    *)
(* collide with each other or with those of an earlier restore, with and   *)
(* without autoflush, as long as restores are exact and so never hand out  *)
(* a lease_version twice.  (The rows that replay_events adds can collide,  *)
(* see ReplayIsUnique.)                                                    *)
RebuildNeverCollides ==
    exact => \A t \in Tasks : RebuildIsUnique(t)

(* What assign_task grants of t.                                           *)
GrantsOf(t) == {i \in CommittedOf(t) : ledger[i].new = "RUNNING" /\ ledger[i].worker # NoWorker}

(* Replay does not restore attempts, and a reconstructed task has its own  *)
(* max_attempts, so a restore gives the retry budget back; it never gives  *)
(* back more than one whole budget, whatever is restored from where.       *)
GrantsBounded ==
    \A t \in Tasks : Cardinality(GrantsOf(t)) <= MaxAttempts + Larger * restores

=============================================================================
