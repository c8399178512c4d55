------------------------------ MODULE TaskQueue ------------------------------
(***************************************************************************)
(* The two implementations of TaskQueue: InMemoryTaskQueue (one process,   *)
(* every method under its lock) and RedisTaskQueue (two Redis lists, every *)
(* method one command or one MULTI pipeline).  A method is one atomic step. *)
(***************************************************************************)
EXTENDS Naturals, Sequences, SequencesExt

CONSTANTS
    Tasks,
    Redis,       \* TRUE: RedisTaskQueue, FALSE: InMemoryTaskQueue
    QueueDepth   \* max_queue_depth; Redis lists have no bound

VARIABLES
    queue,       \* main queue, head first
    processing   \* processing[t]: how often the processing list holds t

QueueTypeOK ==
    /\ queue \in Seq(Tasks)
    /\ processing \in [Tasks -> Nat]

QueueInit ==
    /\ queue = <<>>
    /\ processing = [t \in Tasks |-> 0]

HasRoom == Redis \/ Len(queue) < QueueDepth

(* append / RPUSH.  Without room the memory queue raises and changes       *)
(* nothing (QueueCapacityExceededError).                                   *)
enqueue(t) ==
    /\ HasRoom
    /\ queue' = Append(queue, t)
    /\ UNCHANGED processing

(* The id that dequeue returns: popleft takes the head, BRPOPLPUSH the     *)
(* tail, which is the end that RPUSH adds to.                              *)
NextId == IF Redis THEN Last(queue) ELSE Head(queue)

(* Mutant: dequeue looks at the next id and leaves it on the queue.        *)
dequeue_peek ==
    /\ queue # <<>>
    /\ processing' = [processing EXCEPT ![NextId] = @ + 1]
    /\ UNCHANGED queue

dequeue ==
    /\ queue # <<>>
    /\ queue' = IF Redis THEN Front(queue) ELSE Tail(queue)
    /\ processing' = [processing EXCEPT ![NextId] = @ + 1]

(* list.remove takes one occurrence, LREM 0 every one.                     *)
Removed(t) ==
    [processing EXCEPT ![t] = IF Redis \/ @ = 0 THEN 0 ELSE @ - 1]

acknowledge(t) ==
    /\ processing' = Removed(t)
    /\ UNCHANGED queue

(* appendleft / LPUSH, whatever the depth is.                              *)
requeue(t) ==
    /\ processing' = Removed(t)
    /\ queue' = <<t>> \o queue
=============================================================================
