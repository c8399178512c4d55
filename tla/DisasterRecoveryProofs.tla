----------------------- MODULE DisasterRecoveryProofs -----------------------
(***************************************************************************)
(* Proofs about checkpoints, disasters and restores, for every set of      *)
(* tasks, workers, checkpoints and nodes and every bound.                  *)
(*                                                                         *)
(* The inductive invariant has two halves.  Shape holds whatever is        *)
(* restored: an open transaction fits the row it found, nothing exists for *)
(* a task without a committed entry, the first two versions of a task      *)
(* belong to its first two entries, and no version is ahead of the ledger. *)
(* Faithful holds while the restores are exact: the versions rise along    *)
(* the ledger, a task is either up to date or lost with everything it had, *)
(* and a checkpoint saved while nothing was in flight is the ledger up to  *)
(* its boundary marker.                                                    *)
(***************************************************************************)
EXTENDS DisasterRecovery, FiniteSetTheorems, WellFoundedInduction, TLAPS

(* A transaction between its flush and its commit: its entry is the last   *)
(* one of the task and continues the row it will overwrite.                *)
OpenFits(t) ==
    open[t] # NoTransaction =>
        LET e == ledger[open[t].at]
        IN  /\ open[t].at \in DOMAIN ledger
            /\ e.task = t /\ e.prev = row[t].state /\ e.lease = row[t].lease + 1
            /\ \A i \in DOMAIN ledger : ledger[i].task = t => i <= open[t].at
            /\ e.prev = "NONE" => \A i \in DOMAIN ledger : ledger[i].task = t => i = open[t].at
            /\ open[t].kind = "task_created" => e.prev = "NONE"
            /\ e.new = "RUNNING" /\ e.worker # NoWorker => row[t].attempts < row[t].max

(* A row that is there, in the table or in a checkpoint, has a state; a    *)
(* task that is still PENDING has the version create_task gave it, and no  *)
(* version is ahead of the ledger.                                         *)
RowFits(r) ==
    /\ r.state = "NONE" => r = NoRow
    /\ r.state = "PENDING" => r.lease = 1
    /\ r.lease <= Len(ledger)

(* create_task makes the first version, what leaves PENDING the second.    *)
EntryFits(e) ==
    e # Void =>
        /\ e.prev = "NONE" <=> e.new = "PENDING"
        /\ e.new = "PENDING" => e.lease = 1
        /\ e.prev = "PENDING" => e.lease = 2
        /\ e.lease <= Len(ledger)

Nothing(t) == row[t] = NoRow /\ outbox[t] = {}

(* k is a checkpoint, or a draft of one.                                   *)
CheckpointFits(k) ==
    k # NoCheckpoint =>
        /\ k.head <= Len(ledger)
        /\ \A t \in Tasks : RowFits(k.rows[t]) /\ (CommittedOf(t) = {} => k.rows[t] = NoRow)

(* An outbox event has the version of a committed entry, which a rebuilt   *)
(* one is the image of.                                                    *)
EventFits(t, o) ==
    \E i \in CommittedOf(t) : o.lease = ledger[i].lease /\ (o.rebuilt => o = RebuiltEvent(i))

Shape ==
    /\ Len(ledger) <= MaxEntries
    /\ \A t \in Tasks : OpenFits(t) /\ RowFits(row[t]) /\ (CommittedOf(t) = {} => Nothing(t))
    /\ \A i \in DOMAIN ledger : EntryFits(ledger[i])
    /\ \A c \in Checkpoints : CheckpointFits(checkpoint[c])
    /\ \A n \in Nodes : CheckpointFits(draft[n])
    /\ \A t \in Tasks : \A o \in outbox[t] : EventFits(t, o)

(* What assign_task may still grant under a row.                           *)
Left(r) == IF r.attempts < r.max THEN r.max - r.attempts ELSE 0

(* Grants, made and still to be made, are paid for by create_task and the  *)
(* restores.                                                               *)
Budgeted ==
    \A t \in Tasks : Cardinality(GrantsOf(t)) + Left(row[t]) <= MaxAttempts + Larger * restores

(* r has the state and the version of the last of the entries S.           *)
Current(r, S) ==
    IF S = {} THEN r = NoRow
              ELSE r.state = ledger[Last(S)].new /\ r.lease = ledger[Last(S)].lease

Announced(t) == \A i \in CommittedOf(t) : \E o \in outbox[t] : o.lease = ledger[i].lease

(* No version was staged twice.                                            *)
StagedOnce(t) == \A o, p \in outbox[t] : ~o.rebuilt /\ ~p.rebuilt /\ o.lease = p.lease => o = p

Rising(t) == \A i, j \in CommittedOf(t) : i < j => ledger[i].lease < ledger[j].lease

(* The checkpoint is the ledger up to its boundary marker.                 *)
Settled(k) ==
    k # NoCheckpoint /\ k.quiet =>
        \A t \in Tasks :
            /\ open[t] # NoTransaction => open[t].at > k.head
            /\ Current(k.rows[t], {i \in CommittedOf(t) : i <= k.head})

UpToDate(t) == Current(row[t], CommittedOf(t)) /\ Announced(t)

Faithful ==
    /\ \A t \in Tasks : Rising(t) /\ StagedOnce(t) /\ (UpToDate(t) \/ (lost /\ Nothing(t)))
    /\ \A c \in Checkpoints : Settled(checkpoint[c])
    /\ \A n \in Nodes : Settled(draft[n])

IInv == TypeOK /\ Shape /\ Budgeted /\ (exact => Faithful)
-----------------------------------------------------------------------------
(* The operators of the model.                                             *)

(* A nonempty set of natural numbers has a least element.                  *)
LEMMA LeastNumber ==
  ASSUME NEW S, S \subseteq Nat, S # {}
  PROVE  \E x \in S : \A y \in S : x <= y
<1> DEFINE below(x) == 1..x
           less == StrictSubsetOrdering(Nat)
           finite == FiniteSubsetsOf(Nat)
           U == {below(x) : x \in S}
<1>1. U \subseteq finite
  <2>1. \A x \in S : IsFiniteSet(below(x)) /\ below(x) \in SUBSET Nat
    BY FS_Interval
  <2> QED
    BY <2>1 DEF FiniteSubsetsOf
<1>2. U # {}
  OBVIOUS
<1>3. IsWellFoundedOn(less, finite)
  BY FS_StrictSubsetOrderingWellFounded
<1>4. \E u \in U : \A v \in U : ~(<<v, u>> \in less)
  <2> HIDE DEF less, finite, U
  <2> QED
    BY <1>1, <1>2, <1>3, WFMin
<1>5. PICK x \in S : \A y \in S : ~(<<below(y), below(x)>> \in less)
  BY <1>4
<1>6. ASSUME NEW y \in S, y < x PROVE FALSE
  <2>1. below(y) \subseteq below(x) /\ x \in below(x) /\ x \notin below(y)
    BY <1>6
  <2>2. below(x) \in SUBSET Nat /\ below(y) \in SUBSET Nat
    OBVIOUS
  <2>3. <<below(y), below(x)>> \in less
    BY <2>1, <2>2 DEF StrictSubsetOrdering
  <2> QED
    BY <2>3, <1>5
<1> QED
  BY <1>6

(* What Last chooses is the greatest of the positions, when there is one.  *)
LEMMA LastIs ==
  ASSUME NEW S, S \subseteq Nat, NEW l \in S, \A j \in S : j <= l
  PROVE  Last(S) = l
<1>1. \E i \in S : \A j \in S : j <= i
  OBVIOUS
<1>2. Last(S) \in S /\ \A j \in S : j <= Last(S)
  BY <1>1 DEF Last
<1> QED
  <2>1. l \in Nat /\ Last(S) \in Nat
    BY <1>2
  <2>2. l <= Last(S) /\ Last(S) <= l
    BY <1>2
  <2> QED
    BY <2>1, <2>2

(* Some positions of the ledger have a last one.                           *)
LEMMA LastExists ==
  ASSUME NEW n \in Nat, NEW S, S \subseteq 1..n, S # {}
  PROVE  Last(S) \in S /\ \A j \in S : j <= Last(S)
<1> DEFINE T == {n - i : i \in S}
<1>1. T \subseteq Nat /\ T # {}
  <2>1. \A i \in S : i \in 1..n /\ n - i \in Nat
    OBVIOUS
  <2> QED
    BY <2>1
<1>2. PICK x \in T : \A y \in T : x <= y
  <2> HIDE DEF T
  <2> QED
    BY <1>1, LeastNumber
<1>3. PICK l \in S : x = n - l
  OBVIOUS
<1>4. \A j \in S : j <= l
  <2> TAKE j \in S
  <2>1. n - j \in T
    OBVIOUS
  <2> QED
    BY <2>1, <1>2, <1>3, j \in 1..n, l \in 1..n
<1> QED
  BY <1>4, LastIs, S \subseteq Nat

(* The entries of a task that other sessions see, of any ledger and any    *)
(* open transactions,                                                      *)
LEMMA EntriesOf ==
  ASSUME NEW l \in Seq(Entry \cup {Void}), NEW p \in [Tasks -> Transaction \cup {NoTransaction}], NEW t \in Tasks
  PROVE  /\ Len(l) \in Nat /\ DOMAIN l = 1..Len(l)
         /\ {i \in {j \in DOMAIN l : l[j] # Void /\ p[l[j].task].at # j} : l[i].task = t}
               = {i \in 1..Len(l) : l[i].task = t /\ p[t].at # i}
         /\ \A i \in 1..Len(l) : l[i].task = t => l[i] \in Entry /\ l[i] # Void
<1>1. Len(l) \in Nat /\ DOMAIN l = 1..Len(l)
  OBVIOUS
<1>2. \A i \in 1..Len(l) : l[i] \in Entry \cup {Void}
  BY <1>1
<1>3. Void.task = NoTask /\ NoTask # t
  BY RecoveryNulls DEF Void
<1>4. \A i \in 1..Len(l) : l[i].task = t => l[i] \in Entry /\ l[i] # Void
  BY <1>2, <1>3
<1> QED
  BY <1>1, <1>4

(* now                                                                     *)
LEMMA CommittedEntries ==
  ASSUME TypeOK, NEW t \in Tasks
  PROVE  /\ Len(ledger) \in Nat /\ DOMAIN ledger = 1..Len(ledger)
         /\ CommittedOf(t) = {i \in 1..Len(ledger) : ledger[i].task = t /\ open[t].at # i}
         /\ \A i \in 1..Len(ledger) : ledger[i].task = t => ledger[i] \in Entry /\ ledger[i] # Void
  BY EntriesOf DEF TypeOK, CommittedOf, Committed

(* and after a step.                                                       *)
LEMMA CommittedEntriesNext ==
  ASSUME TypeOK', NEW t \in Tasks
  PROVE  /\ Len(ledger') \in Nat /\ DOMAIN ledger' = 1..Len(ledger')
         /\ CommittedOf(t)' = {i \in 1..Len(ledger') : ledger'[i].task = t /\ open'[t].at # i}
         /\ \A i \in 1..Len(ledger') : ledger'[i].task = t => ledger'[i] \in Entry /\ ledger'[i] # Void
  BY EntriesOf DEF TypeOK, CommittedOf, Committed

(* What is seen of a task depends only on its committed entries.           *)
LEMMA SameEntries ==
  ASSUME NEW t \in Tasks, CommittedOf(t)' = CommittedOf(t), \A i \in CommittedOf(t) : ledger'[i] = ledger[i]
  PROVE  /\ GrantsOf(t)' = GrantsOf(t)
         /\ Rising(t) => Rising(t)'
         /\ outbox'[t] = outbox[t] /\ Announced(t) => Announced(t)'
         /\ \A i \in CommittedOf(t) : RebuiltEvent(i)' = RebuiltEvent(i)
<1>1. GrantsOf(t)' = GrantsOf(t)
  BY DEF GrantsOf
<1>2. Rising(t) => Rising(t)'
  BY DEF Rising
<1>3. outbox'[t] = outbox[t] /\ Announced(t) => Announced(t)'
  BY DEF Announced
<1>4. \A i \in CommittedOf(t) : RebuiltEvent(i)' = RebuiltEvent(i)
  BY DEF RebuiltEvent, RebuiltKind
<1> QED
  BY <1>1, <1>2, <1>3, <1>4

(* The grants of a task can be counted.                                    *)
LEMMA GrantsAreFinite ==
  ASSUME TypeOK, NEW t \in Tasks
  PROVE  IsFiniteSet(GrantsOf(t)) /\ Cardinality(GrantsOf(t)) \in Nat
<1>1. GrantsOf(t) \subseteq 1..Len(ledger) /\ Len(ledger) \in Int /\ 1 \in Int
  BY CommittedEntries DEF GrantsOf
<1>2. IsFiniteSet(1..Len(ledger))
  BY <1>1, FS_Interval
<1>3. IsFiniteSet(GrantsOf(t))
  BY <1>1, <1>2, FS_Subset
<1> QED
  BY <1>3, FS_CardinalityType

(* What is left under a row is no more than the larger of the budgets.     *)
LEMMA LeftIs ==
  ASSUME NEW r \in Row
  PROVE  /\ r.attempts \in Nat /\ r.max \in Nat
         /\ Left(r) \in Nat /\ Left(r) <= Larger /\ Larger \in Nat /\ MaxAttempts <= Larger
<1>1. MaxAttempts \in Nat /\ r.attempts \in Nat /\ r.max \in {0, MaxAttempts, ReconstructedMax}
  BY RecoveryBounds DEF Row
<1>2. r.max \in Nat /\ Larger \in Nat /\ r.max <= Larger /\ MaxAttempts <= Larger
  BY <1>1 DEF Larger, ReconstructedMax
<1> QED
  BY <1>1, <1>2 DEF Left

(* There is nothing left under no row.                                     *)
LEMMA NoneLeft == NoRow \in Row /\ NoRow.state = "NONE" /\ NoRow.lease = 0 /\ NoRow.attempts = 0 /\ Left(NoRow) = 0
  BY DEF NoRow, Row, Left

(* The invariant at the start.                                             *)
LEMMA InitIInv == Init => IInv
<1> SUFFICES ASSUME Init PROVE IInv
  OBVIOUS
<1>b. {MaxEntries, MaxAttempts, MaxSaves, MaxRestores, MaxDisasters} \subseteq Nat
  BY RecoveryBounds
<1>1. NoRow \in Row /\ NoRow.state = "NONE" /\ NoRow.lease = 0 /\ Left(NoRow) = 0
  BY NoneLeft
<1>2. TypeOK
  <2>1. saves \in 0..MaxSaves /\ restores \in 0..MaxRestores /\ disasters \in 0..MaxDisasters
    BY <1>b DEF Init
  <2>2. ledger \in Seq(Entry \cup {Void})
    BY DEF Init
  <2> QED
    BY <1>1, <2>1, <2>2 DEF Init, TypeOK
<1>3. /\ \A t \in Tasks : CommittedOf(t) = {} /\ row[t] = NoRow /\ outbox[t] = {} /\ open[t] = NoTransaction
      /\ Len(ledger) = 0 /\ DOMAIN ledger = {}
      /\ \A c \in Checkpoints : checkpoint[c] = NoCheckpoint
      /\ \A n \in Nodes : draft[n] = NoCheckpoint
  BY DEF Init, CommittedOf, Committed, NoDraft
<1>4. Shape
  <2>1. \A t \in Tasks : OpenFits(t) /\ RowFits(row[t]) /\ (CommittedOf(t) = {} => Nothing(t))
    BY <1>1, <1>3 DEF OpenFits, RowFits, Nothing
  <2>2. /\ \A c \in Checkpoints : CheckpointFits(checkpoint[c])
        /\ \A n \in Nodes : CheckpointFits(draft[n])
    BY <1>3 DEF CheckpointFits
  <2> QED
    BY <1>b, <1>3, <2>1, <2>2 DEF Shape
<1>5. Budgeted
  <2>1. \A t \in Tasks : GrantsOf(t) = {}
    BY <1>3 DEF GrantsOf
  <2>2. Cardinality({}) = 0
    BY FS_EmptySet
  <2>3. Larger \in Nat /\ restores = 0
    BY <1>1, LeftIs DEF Init
  <2>4. Larger * restores = 0
    BY <2>3
  <2>5. 0 + 0 <= MaxAttempts + Larger * restores
    BY <1>b, <2>4
  <2> QED
    BY <1>1, <1>3, <2>1, <2>2, <2>5 DEF Budgeted
<1>6. Faithful
  BY <1>3 DEF Faithful, Rising, StagedOnce, UpToDate, Current, Announced, Settled
<1> QED
  BY <1>2, <1>4, <1>5, <1>6 DEF IInv
-----------------------------------------------------------------------------
(* A transaction flushes its entry.                                        *)

(* What the repository may do next to a task fits its row.                 *)
LEMMA MoveFits ==
  ASSUME TypeOK, NEW t \in Tasks, NEW m \in Moves(t)
  PROVE  /\ m.new \in TaskState /\ m.worker \in Workers \cup {NoWorker} /\ m.kind \in EventKind
         /\ row[t].state = "NONE" <=> m.new = "PENDING"
         /\ m.kind = "task_created" => row[t].state = "NONE"
         /\ m.new = "RUNNING" /\ m.worker # NoWorker => row[t].attempts < row[t].max
         /\ row[t].state = "NONE" => \A i \in DOMAIN ledger : ledger[i].task # t
<1>1. row[t] \in Row
  BY DEF TypeOK
<1>2. row[t].state \in TaskState \cup {"NONE"} /\ row[t].owner \in Workers \cup {NoWorker}
  BY <1>1 DEF Row
<1>3. ASSUME m \in Assignments(row[t])
      PROVE  m.new = "RUNNING" /\ m.kind = "task_assigned" /\ m.worker \in Workers /\ row[t].attempts < row[t].max
  BY <1>3 DEF Assignments
<1>f. ASSUME m \in Fallbacks(t)
      PROVE  m.new \in {"RUNNING", "COMPLETED"} /\ m.worker = NoWorker /\ m.kind = "task_transition"
  BY <1>f DEF Fallbacks
<1>4. CASE row[t].state = "NONE"
  <2>1. /\ m = [new |-> "PENDING", worker |-> NoWorker, kind |-> "task_created"]
        /\ \A i \in DOMAIN ledger : ledger[i].task # t
    BY <1>4 DEF Moves
  <2> QED
    BY <1>4, <2>1 DEF TaskState, EventKind
<1>5. CASE row[t].state = "PENDING"
  <2>1. \/ m = [new |-> "QUEUED", worker |-> NoWorker, kind |-> "task_transition"]
        \/ m \in Assignments(row[t]) \/ m \in Fallbacks(t)
    BY <1>5 DEF Moves
  <2> QED
    BY <1>3, <1>f, <1>5, <2>1 DEF TaskState, EventKind
<1>6. CASE row[t].state = "QUEUED"
  <2>1. m \in Assignments(row[t]) \/ m \in Fallbacks(t)
    BY <1>6 DEF Moves
  <2> QED
    BY <1>3, <1>f, <1>6, <2>1 DEF TaskState, EventKind
<1>7. CASE row[t].state = "RUNNING"
  <2>1. \/ /\ m.new \in {"COMPLETED", "QUEUED", "FAILED"} /\ m.worker \in {row[t].owner, NoWorker}
           /\ m.kind \in {"task_completed", "task_failure", "task_transition"}
        \/ m \in Fallbacks(t)
    BY <1>7 DEF Moves
  <2> QED
    BY <1>2, <1>f, <1>7, <2>1 DEF TaskState, EventKind
<1>8. CASE row[t].state \notin {"NONE", "PENDING", "QUEUED", "RUNNING"}
  <2>1. m \in Fallbacks(t)
    BY <1>8 DEF Moves
  <2> QED
    BY <1>f, <1>8, <2>1 DEF TaskState, EventKind
<1> QED
  BY <1>4, <1>5, <1>6, <1>7, <1>8

(* The entry is behind the others and nobody else sees it.                 *)
LEMMA RecordEffect ==
  ASSUME TypeOK, NEW t \in Tasks, NEW m \in Moves(t), record_transition(t, m)
  PROVE  LET n == Len(ledger)
             e == [task |-> t, prev |-> row[t].state, new |-> m.new, worker |-> m.worker, lease |-> row[t].lease + 1]
         IN  /\ TypeOK' /\ n \in Nat /\ n < MaxEntries /\ open[t] = NoTransaction
             /\ Len(ledger') = n + 1 /\ ledger'[n + 1] = e /\ \A i \in 1..n : ledger'[i] = ledger[i]
             /\ open'[t] = [at |-> n + 1, kind |-> m.kind] /\ \A u \in Tasks \ {t} : open'[u] = open[u]
             /\ \A u \in Tasks : CommittedOf(u)' = CommittedOf(u)
<1> DEFINE n == Len(ledger)
           e == [task |-> t, prev |-> row[t].state, new |-> m.new, worker |-> m.worker, lease |-> row[t].lease + 1]
<1>1. n \in Nat /\ DOMAIN ledger = 1..n /\ ledger \in Seq(Entry \cup {Void})
  BY DEF TypeOK
<1>2. e \in Entry
  <2>1. row[t] \in Row
    BY DEF TypeOK
  <2>2. row[t].state \in TaskState \cup {"NONE"} /\ row[t].lease + 1 \in Nat
    BY <2>1 DEF Row
  <2> QED
    BY <2>2, MoveFits DEF Entry
<1>3. ledger' = Append(ledger, e) /\ open[t] = NoTransaction /\ n < MaxEntries
  BY DEF record_transition
<1>4. /\ ledger' \in Seq(Entry \cup {Void}) /\ Len(ledger') = n + 1 /\ ledger'[n + 1] = e
      /\ \A i \in 1..n : ledger'[i] = ledger[i]
  <2> HIDE DEF e
  <2> QED
    BY <1>1, <1>2, <1>3
<1>5. [at |-> n + 1, kind |-> m.kind] \in Transaction
  BY <1>1, MoveFits DEF Transaction
<1>6. /\ open' \in [Tasks -> Transaction \cup {NoTransaction}]
      /\ open'[t] = [at |-> n + 1, kind |-> m.kind] /\ \A u \in Tasks \ {t} : open'[u] = open[u]
  BY <1>5 DEF record_transition, TypeOK
<1>7. TypeOK'
  BY <1>4, <1>6 DEF record_transition, TypeOK
<1>8. ASSUME NEW u \in Tasks PROVE CommittedOf(u)' = CommittedOf(u)
  <2>1. /\ CommittedOf(u) = {i \in 1..n : ledger[i].task = u /\ open[u].at # i}
        /\ CommittedOf(u)' = {i \in 1..(n + 1) : ledger'[i].task = u /\ open'[u].at # i}
    BY <1>4, <1>7, CommittedEntries, CommittedEntriesNext
  <2>2. CASE u = t
    <3>1. open[u].at = 0 /\ open'[u].at = n + 1
      BY <1>3, <1>6, <2>2 DEF NoTransaction
    <3> QED
      BY <1>1, <1>4, <2>1, <3>1
  <2>3. CASE u # t
    <3>1. open'[u] = open[u] /\ ledger'[n + 1].task # u
      BY <1>4, <1>6, <2>3
    <3> QED
      BY <1>1, <1>4, <2>1, <3>1
  <2> QED
    BY <2>2, <2>3
<1> QED
  BY <1>1, <1>3, <1>4, <1>6, <1>7, <1>8
(* A step that only touches entries nobody sees and transactions in        *)
(* flight keeps the invariant when these still fit.                        *)
LEMMA UnseenStep ==
  ASSUME IInv, TypeOK', UNCHANGED <<row, outbox, checkpoint, draft, restores, exact, lost>>,
         \A u \in Tasks : CommittedOf(u)' = CommittedOf(u) /\ \A i \in CommittedOf(u) : ledger'[i] = ledger[i],
         Len(ledger) <= Len(ledger'), Len(ledger') <= MaxEntries,
         \A u \in Tasks : OpenFits(u)',
         \A i \in DOMAIN ledger' : EntryFits(ledger[i])',
         \A u \in Tasks : open'[u] # NoTransaction => open'[u] = open[u] \/ open'[u].at > Len(ledger)
  PROVE  IInv'
<1>0. TypeOK /\ Shape /\ Budgeted /\ (exact => Faithful)
  BY DEF IInv
<1>1. Len(ledger) \in Nat /\ Len(ledger') \in Nat
  BY <1>0 DEF TypeOK
<1>2. \A u \in Tasks : /\ GrantsOf(u)' = GrantsOf(u)
                       /\ Rising(u) => Rising(u)'
                       /\ Announced(u) => Announced(u)'
                       /\ \A i \in CommittedOf(u) : RebuiltEvent(i)' = RebuiltEvent(i)
  BY SameEntries
<1>3. ASSUME NEW r \in Row, RowFits(r) PROVE RowFits(r)'
  <2>1. r.lease \in Nat
    BY DEF Row
  <2> QED
    BY <1>1, <1>3, <2>1 DEF RowFits
<1>4. Shape'
  <2>1. \A u \in Tasks : RowFits(row[u])' /\ (CommittedOf(u)' = {} => Nothing(u)')
    <3> TAKE u \in Tasks
    <3>1. RowFits(row[u])'
      BY <1>0, <1>3 DEF TypeOK, Shape
    <3> QED
      BY <1>0, <3>1 DEF Shape, Nothing
  <2>2. ASSUME NEW k \in Checkpoint \cup Draft, CheckpointFits(k) PROVE CheckpointFits(k)'
    <3> SUFFICES ASSUME k # NoCheckpoint PROVE CheckpointFits(k)'
      BY DEF CheckpointFits
    <3>1. k.head \in Nat /\ \A u \in Tasks : k.rows[u] \in Row
      BY DEF Checkpoint, Draft
    <3>2. \A u \in Tasks : RowFits(k.rows[u])'
      BY <1>3, <2>2, <3>1 DEF CheckpointFits
    <3> QED
      BY <1>1, <2>2, <3>1, <3>2 DEF CheckpointFits
  <2>3. /\ \A c \in Checkpoints : CheckpointFits(checkpoint[c])'
        /\ \A d \in Nodes : CheckpointFits(draft[d])'
    <3>1. /\ \A c \in Checkpoints : CheckpointFits(checkpoint[c])
          /\ \A d \in Nodes : CheckpointFits(draft[d])
          /\ \A c \in Checkpoints : checkpoint[c] \in Checkpoint \cup {NoCheckpoint}
          /\ \A d \in Nodes : draft[d] \in Draft \cup {NoCheckpoint}
      BY <1>0 DEF Shape, TypeOK, NoDraft
    <3>3. \A c \in Checkpoints : CheckpointFits(checkpoint[c])'
      <4> TAKE c \in Checkpoints
      <4>1. checkpoint'[c] = checkpoint[c]
        OBVIOUS
      <4>2. CASE checkpoint[c] = NoCheckpoint
        BY <4>1, <4>2 DEF CheckpointFits
      <4>3. CASE checkpoint[c] # NoCheckpoint
        BY <2>2, <3>1, <4>1, <4>3 DEF CheckpointFits
      <4> QED
        BY <4>2, <4>3
    <3>4. \A d \in Nodes : CheckpointFits(draft[d])'
      <4> TAKE d \in Nodes
      <4>1. draft'[d] = draft[d]
        OBVIOUS
      <4>2. CASE draft[d] = NoCheckpoint
        BY <4>1, <4>2 DEF CheckpointFits
      <4>3. CASE draft[d] # NoCheckpoint
        BY <2>2, <3>1, <4>1, <4>3 DEF CheckpointFits
      <4> QED
        BY <4>2, <4>3
    <3> QED
      BY <3>3, <3>4
  <2>4. \A u \in Tasks : \A o \in outbox'[u] : EventFits(u, o)'
    <3> TAKE u \in Tasks
    <3> TAKE o \in outbox'[u]
    <3>1. PICK i \in CommittedOf(u) : o.lease = ledger[i].lease /\ (o.rebuilt => o = RebuiltEvent(i))
      BY <1>0 DEF Shape, EventFits
    <3>2. i \in CommittedOf(u)' /\ ledger'[i] = ledger[i] /\ RebuiltEvent(i)' = RebuiltEvent(i)
      BY <1>2
    <3> QED
      BY <3>1, <3>2 DEF EventFits
  <2> QED
    BY <2>1, <2>3, <2>4 DEF Shape
<1>5. Budgeted'
  BY <1>0, <1>2 DEF Budgeted
<1>6. ASSUME exact PROVE Faithful'
  <2>1. Faithful
    BY <1>0, <1>6
  <2>2. ASSUME NEW u \in Tasks, NEW S \in SUBSET CommittedOf(u), NEW r, Current(r, S)
        PROVE  Current(r, S)'
    <3>1. CASE S = {}
      BY <2>2, <3>1 DEF Current
    <3>2. CASE S # {}
      <4>1. S \subseteq 1..Len(ledger)
        BY <1>0, CommittedEntries
      <4>2. Last(S) \in S
        BY <1>1, <3>2, <4>1, LastExists
      <4> QED
        BY <2>2, <3>2, <4>2 DEF Current
    <3> QED
      BY <3>1, <3>2
  <2>3. ASSUME NEW u \in Tasks PROVE (Rising(u) /\ StagedOnce(u) /\ (UpToDate(u) \/ (lost /\ Nothing(u))))'
    <3>1. Current(row[u], CommittedOf(u)) => Current(row[u], CommittedOf(u))'
      BY <2>2 DEF Current
    <3>2. StagedOnce(u)'
      BY <2>1 DEF Faithful, StagedOnce
    <3> QED
      BY <1>2, <2>1, <3>1, <3>2 DEF Faithful, UpToDate, Nothing
  <2>4. ASSUME NEW k \in Checkpoint \cup Draft, CheckpointFits(k), Settled(k), k # NoCheckpoint, k.quiet, NEW u \in Tasks
        PROVE  /\ open'[u] # NoTransaction => open'[u].at > k.head
               /\ LET S == {i \in CommittedOf(u) : i <= k.head}
                  IN  IF S = {} THEN k.rows[u] = NoRow
                                ELSE k.rows[u].state = ledger'[Last(S)].new /\ k.rows[u].lease = ledger'[Last(S)].lease
    <3>1. k.head <= Len(ledger) /\ k.head \in Nat
      BY <2>4 DEF CheckpointFits, Checkpoint, Draft
    <3>2. open'[u] # NoTransaction => open'[u].at \in Nat
      BY DEF TypeOK, Transaction
    <3>3. open'[u] # NoTransaction => open'[u].at > k.head
      <4>1. open[u] # NoTransaction => open[u].at > k.head
        BY <2>4 DEF Settled
      <4>2. CASE open'[u] = open[u]
        BY <4>1, <4>2
      <4>3. CASE open'[u].at > Len(ledger)
        BY <1>1, <3>1, <3>2, <4>3
      <4> QED
        BY <4>2, <4>3
    <3>4. Current(k.rows[u], {i \in CommittedOf(u) : i <= k.head})
      BY <2>4 DEF Settled
    <3> DEFINE S == {i \in CommittedOf(u) : i <= k.head}
    <3>5. S # {} => Last(S) \in CommittedOf(u)
      <4>1. S \subseteq 1..Len(ledger) /\ S \subseteq CommittedOf(u)
        BY <1>0, CommittedEntries
      <4> HIDE DEF S
      <4> QED
        BY <1>1, <4>1, LastExists
    <3> QED
      BY <3>3, <3>4, <3>5 DEF Current
  <2>5. /\ \A c \in Checkpoints : CheckpointFits(checkpoint[c]) /\ Settled(checkpoint[c])
        /\ \A d \in Nodes : CheckpointFits(draft[d]) /\ Settled(draft[d])
        /\ \A c \in Checkpoints : checkpoint[c] \in Checkpoint \cup {NoCheckpoint}
        /\ \A d \in Nodes : draft[d] \in Draft \cup {NoCheckpoint}
    BY <1>0, <2>1 DEF Shape, Faithful, TypeOK, NoDraft
  <2>6. ASSUME NEW c \in Checkpoints PROVE Settled(checkpoint[c])'
    <3> DEFINE k == checkpoint[c]
               S(u) == {i \in CommittedOf(u) : i <= k.head}
    <3>1. k' = k /\ \A u \in Tasks : S(u)' = S(u)
      OBVIOUS
    <3>2. k \in Checkpoint \cup Draft \cup {NoCheckpoint} /\ CheckpointFits(k) /\ Settled(k)
      BY <2>5
    <3> HIDE DEF k
    <3>3. ASSUME k # NoCheckpoint, k.quiet, NEW u \in Tasks
          PROVE  /\ open'[u] # NoTransaction => open'[u].at > k.head
                 /\ IF S(u) = {} THEN k.rows[u] = NoRow
                                ELSE k.rows[u].state = ledger'[Last(S(u))].new /\ k.rows[u].lease = ledger'[Last(S(u))].lease
      BY <2>4, <3>2, <3>3
    <3> HIDE DEF S
    <3>4. ASSUME k # NoCheckpoint, k.quiet, NEW u \in Tasks
          PROVE  (open[u] # NoTransaction => open[u].at > k.head)' /\ Current(k.rows[u], S(u))'
      BY <3>1, <3>3, <3>4 DEF Current
    <3>5. Settled(k)'
      BY <3>1, <3>4 DEF Settled, S
    <3> QED
      BY <3>5 DEF k
  <2>7. ASSUME NEW d \in Nodes PROVE Settled(draft[d])'
    <3> DEFINE k == draft[d]
               S(u) == {i \in CommittedOf(u) : i <= k.head}
    <3>1. k' = k /\ \A u \in Tasks : S(u)' = S(u)
      OBVIOUS
    <3>2. k \in Checkpoint \cup Draft \cup {NoCheckpoint} /\ CheckpointFits(k) /\ Settled(k)
      BY <2>5
    <3> HIDE DEF k
    <3>3. ASSUME k # NoCheckpoint, k.quiet, NEW u \in Tasks
          PROVE  /\ open'[u] # NoTransaction => open'[u].at > k.head
                 /\ IF S(u) = {} THEN k.rows[u] = NoRow
                                ELSE k.rows[u].state = ledger'[Last(S(u))].new /\ k.rows[u].lease = ledger'[Last(S(u))].lease
      BY <2>4, <3>2, <3>3
    <3> HIDE DEF S
    <3>4. ASSUME k # NoCheckpoint, k.quiet, NEW u \in Tasks
          PROVE  (open[u] # NoTransaction => open[u].at > k.head)' /\ Current(k.rows[u], S(u))'
      BY <3>1, <3>3, <3>4 DEF Current
    <3>5. Settled(k)'
      BY <3>1, <3>4 DEF Settled, S
    <3> QED
      BY <3>5 DEF k
  <2> QED
    BY <2>3, <2>6, <2>7 DEF Faithful
<1> QED
  BY <1>4, <1>5, <1>6 DEF IInv

(* record_transition keeps the invariant.                                  *)
LEMMA RecordStep ==
  ASSUME IInv, NEW t \in Tasks, NEW m \in Moves(t), record_transition(t, m)
  PROVE  IInv'
<1> DEFINE n == Len(ledger)
           e == [task |-> t, prev |-> row[t].state, new |-> m.new, worker |-> m.worker, lease |-> row[t].lease + 1]
<1>0. TypeOK /\ Shape /\ MaxEntries \in Nat
  BY RecoveryBounds DEF IInv
<1>1. /\ TypeOK' /\ n \in Nat /\ n < MaxEntries /\ open[t] = NoTransaction
      /\ Len(ledger') = n + 1 /\ ledger'[n + 1] = e /\ \A i \in 1..n : ledger'[i] = ledger[i]
      /\ open'[t] = [at |-> n + 1, kind |-> m.kind] /\ \A u \in Tasks \ {t} : open'[u] = open[u]
      /\ \A u \in Tasks : CommittedOf(u)' = CommittedOf(u)
  BY <1>0, RecordEffect
<1>2. DOMAIN ledger = 1..n /\ DOMAIN ledger' = 1..(n + 1)
  BY <1>0, <1>1, CommittedEntries, CommittedEntriesNext
<1>3. UNCHANGED <<row, outbox, checkpoint, draft, restores, exact, lost>>
  BY DEF record_transition
<1>4. /\ row[t] \in Row /\ row[t].lease \in Nat /\ RowFits(row[t])
      /\ row[t].state = "NONE" <=> m.new = "PENDING"
      /\ m.kind = "task_created" => row[t].state = "NONE"
      /\ m.new = "RUNNING" /\ m.worker # NoWorker => row[t].attempts < row[t].max
      /\ row[t].state = "NONE" => \A i \in DOMAIN ledger : ledger[i].task # t
  <2>1. row[t] \in Row
    BY <1>0 DEF TypeOK
  <2>2. row[t].lease \in Nat
    BY <2>1 DEF Row
  <2> QED
    BY <1>0, <2>1, <2>2, MoveFits DEF Shape
<1>5. ASSUME NEW u \in Tasks PROVE CommittedOf(u)' = CommittedOf(u) /\ \A i \in CommittedOf(u) : ledger'[i] = ledger[i]
  BY <1>0, <1>1, CommittedEntries
<1>6. ASSUME NEW u \in Tasks PROVE OpenFits(u)'
  <2>1. CASE u = t
    <3>1. open'[t].at = n + 1 /\ open'[t].kind = m.kind
      BY <1>1
    <3>2. \A i \in 1..(n + 1) : i <= n + 1 /\ (i # n + 1 => i \in 1..n)
      BY <1>1
    <3>3. /\ n + 1 \in DOMAIN ledger' /\ ledger'[n + 1].task = t /\ ledger'[n + 1].prev = row[t].state
          /\ ledger'[n + 1].lease = row[t].lease + 1 /\ ledger'[n + 1].new = m.new
          /\ ledger'[n + 1].worker = m.worker
      BY <1>1, <1>2
    <3>4. row[t].state = "NONE" => \A i \in DOMAIN ledger' : ledger'[i].task = t => i = n + 1
      BY <1>1, <1>2, <1>4, <3>2
    <3> QED
      BY <1>2, <1>3, <1>4, <2>1, <3>1, <3>2, <3>3, <3>4 DEF OpenFits
  <2>2. CASE u # t
    <3> SUFFICES ASSUME open'[u] # NoTransaction PROVE OpenFits(u)'
      BY DEF OpenFits
    <3>1. OpenFits(u) /\ open'[u] = open[u]
      BY <1>0, <1>1, <2>2 DEF Shape
    <3>2. open[u].at \in 1..n /\ ledger'[n + 1].task # u
      BY <1>1, <1>2, <2>2, <3>1 DEF OpenFits
    <3>3. \A i \in 1..(n + 1) : ledger'[i].task = u => i \in 1..n /\ ledger'[i] = ledger[i]
      BY <1>1, <3>2
    <3>4. ledger'[open[u].at] = ledger[open[u].at] /\ open[u].at \in DOMAIN ledger'
      BY <1>1, <1>2, <3>2
    <3> QED
      BY <1>2, <1>3, <3>1, <3>3, <3>4 DEF OpenFits
  <2> QED
    BY <2>1, <2>2
<1>7. ASSUME NEW i \in DOMAIN ledger' PROVE EntryFits(ledger[i])'
  <2>1. CASE i = n + 1
    <3>1. row[t].state = "NONE" => row[t].lease = 0
      BY <1>4 DEF RowFits, NoRow
    <3>2. row[t].lease <= n /\ (row[t].state = "PENDING" => row[t].lease = 1)
      BY <1>4 DEF RowFits
    <3> QED
      BY <1>1, <1>4, <2>1, <3>1, <3>2 DEF EntryFits
  <2>2. CASE i # n + 1
    <3>1. i \in 1..n /\ ledger'[i] = ledger[i] /\ EntryFits(ledger[i])
      BY <1>0, <1>1, <1>2, <2>2 DEF Shape
    <3>2. ledger[i] # Void => ledger[i].lease \in Nat
      BY <1>0, <1>2, <3>1 DEF TypeOK, Entry
    <3> QED
      BY <1>1, <3>1, <3>2 DEF EntryFits
  <2> QED
    BY <2>1, <2>2
<1>8. \A u \in Tasks : open'[u] # NoTransaction => open'[u] = open[u] \/ open'[u].at > n
  BY <1>1
<1>9. n <= Len(ledger') /\ Len(ledger') <= MaxEntries
  BY <1>0, <1>1
<1> QED
  BY <1>1, <1>3, <1>5, <1>6, <1>7, <1>8, <1>9, UnseenStep
-----------------------------------------------------------------------------
(* A transaction is rolled back.                                           *)

(* rollback keeps the invariant.                                           *)
LEMMA RollbackStep ==
  ASSUME IInv, NEW t \in Tasks, rollback(t)
  PROVE  IInv'
<1> DEFINE n == Len(ledger)
           a == open[t].at
<1>0. TypeOK /\ Shape
  BY DEF IInv
<1>1. n \in Nat /\ DOMAIN ledger = 1..n
  BY <1>0, CommittedEntries
<1>2. /\ open[t] # NoTransaction /\ a \in 1..n
      /\ ledger' = [ledger EXCEPT ![a] = Void] /\ open' = [open EXCEPT ![t] = NoTransaction]
      /\ ledger[a].task = t
  BY <1>0, <1>1 DEF rollback, Shape, OpenFits
<1>3. UNCHANGED <<row, outbox, checkpoint, draft, saves, restores, disasters, exact, lost>>
  BY DEF rollback
<1>4. /\ ledger' \in Seq(Entry \cup {Void}) /\ Len(ledger') = n
      /\ ledger'[a] = Void /\ \A i \in 1..n : i # a => ledger'[i] = ledger[i]
  <2>1. ledger \in Seq(Entry \cup {Void})
    BY <1>0 DEF TypeOK
  <2> QED
    BY <1>1, <1>2, <2>1
<1>5. open'[t] = NoTransaction /\ \A u \in Tasks \ {t} : open'[u] = open[u]
  BY <1>0, <1>2 DEF TypeOK
<1>6. TypeOK'
  BY <1>0, <1>2, <1>3, <1>4 DEF TypeOK
<1>7. Void.task = NoTask /\ NoTransaction.at = 0
  BY DEF Void, NoTransaction
<1>8. ASSUME NEW u \in Tasks
      PROVE  CommittedOf(u)' = CommittedOf(u) /\ \A i \in CommittedOf(u) : ledger'[i] = ledger[i]
  <2>1. /\ CommittedOf(u) = {i \in 1..n : ledger[i].task = u /\ open[u].at # i}
        /\ CommittedOf(u)' = {i \in 1..n : ledger'[i].task = u /\ open'[u].at # i}
    BY <1>0, <1>4, <1>6, CommittedEntries, CommittedEntriesNext
  <2>2. ledger'[a].task # u
    BY <1>4, <1>7, RecoveryNulls
  <2>3. \A i \in 1..n : ledger[i].task = u /\ open[u].at # i <=> ledger'[i].task = u /\ open'[u].at # i
    <3>1. CASE u = t
      BY <1>4, <1>5, <1>7, <2>2, <3>1
    <3>2. CASE u # t
      BY <1>2, <1>4, <1>5, <2>2, <3>2
    <3> QED
      BY <3>1, <3>2
  <2>4. a \notin CommittedOf(u)
    BY <1>2, <2>1
  <2> QED
    BY <1>4, <2>1, <2>3, <2>4
<1>9. ASSUME NEW u \in Tasks PROVE OpenFits(u)'
  <2> SUFFICES ASSUME open'[u] # NoTransaction PROVE OpenFits(u)'
    BY DEF OpenFits
  <2>1. u # t /\ open'[u] = open[u] /\ OpenFits(u)
    BY <1>0, <1>5 DEF Shape
  <2>2. open[u].at \in 1..n /\ ledger[open[u].at].task = u
    BY <1>1, <2>1 DEF OpenFits
  <2>3. ledger'[open[u].at] = ledger[open[u].at] /\ DOMAIN ledger' = 1..n
    BY <1>2, <1>4, <1>6, <2>1, <2>2, CommittedEntriesNext
  <2>4. \A i \in 1..n : ledger'[i].task = u => ledger[i].task = u
    BY <1>4, <1>7, RecoveryNulls
  <2> QED
    BY <1>1, <1>3, <2>1, <2>2, <2>3, <2>4 DEF OpenFits
<1>10. ASSUME NEW i \in DOMAIN ledger' PROVE EntryFits(ledger[i])'
  <2>1. i \in 1..n
    BY <1>4, <1>6, CommittedEntriesNext
  <2>2. CASE i = a
    BY <1>4, <2>2 DEF EntryFits
  <2>3. CASE i # a
    BY <1>0, <1>1, <1>4, <2>1, <2>3 DEF Shape, EntryFits
  <2> QED
    BY <2>2, <2>3
<1>11. \A u \in Tasks : open'[u] # NoTransaction => open'[u] = open[u] \/ open'[u].at > n
  BY <1>5
<1>12. n <= Len(ledger') /\ Len(ledger') <= MaxEntries
  BY <1>0, <1>1, <1>4 DEF Shape
<1> QED
  BY <1>3, <1>6, <1>8, <1>9, <1>10, <1>11, <1>12, UnseenStep

-----------------------------------------------------------------------------
(* The database is lost.                                                   *)

(* disaster keeps the invariant: every task is lost with all it had.       *)
LEMMA DisasterStep ==
  ASSUME IInv, disaster
  PROVE  IInv'
<1>0. TypeOK /\ Shape /\ Budgeted /\ (exact => Faithful) /\ MaxDisasters \in Nat
  BY RecoveryBounds DEF IInv
<1>1. /\ \A t \in Tasks : row'[t] = NoRow /\ outbox'[t] = {} /\ open[t] = NoTransaction
      /\ row' = [t \in Tasks |-> NoRow] /\ outbox' = [t \in Tasks |-> {}]
      /\ draft' = [n \in Nodes |-> NoDraft] /\ \A n \in Nodes : draft'[n] = NoCheckpoint
      /\ UNCHANGED <<ledger, open, checkpoint, saves, restores, exact>> /\ lost'
      /\ disasters' = disasters + 1 /\ disasters < MaxDisasters
  BY DEF disaster, NoDraft
<1>2. NoRow \in Row /\ NoRow.state = "NONE" /\ NoRow.lease = 0 /\ Left(NoRow) = 0
  BY NoneLeft
<1>3. TypeOK'
  <2>1. row' \in [Tasks -> Row] /\ outbox' \in [Tasks -> SUBSET Event] /\ draft' \in [Nodes -> Draft \cup {NoDraft}]
    BY <1>1, <1>2
  <2>2. disasters' \in 0..MaxDisasters
    BY <1>0, <1>1 DEF TypeOK
  <2>3. {exact', lost'} \subseteq BOOLEAN
    BY <1>0, <1>1 DEF disaster, TypeOK
  <2> QED
    BY <1>0, <1>1, <2>1, <2>2, <2>3 DEF TypeOK
<1>4. \A t \in Tasks : CommittedOf(t)' = CommittedOf(t)
  BY <1>1 DEF CommittedOf, Committed
<1>5. Len(ledger) \in Nat
  BY <1>0 DEF TypeOK
<1>6. Shape'
  <2>1. \A t \in Tasks : OpenFits(t)' /\ RowFits(row[t])' /\ Nothing(t)'
    BY <1>1, <1>2, <1>5 DEF OpenFits, RowFits, Nothing
  <2>2. \A i \in DOMAIN ledger' : EntryFits(ledger[i])'
    BY <1>0, <1>1 DEF Shape, EntryFits
  <2>3. \A c \in Checkpoints : CheckpointFits(checkpoint[c])'
    BY <1>0, <1>1, <1>4 DEF Shape, CheckpointFits, RowFits
  <2>4. \A n \in Nodes : CheckpointFits(draft[n])'
    BY <1>1 DEF CheckpointFits
  <2> QED
    BY <1>0, <1>1, <2>1, <2>2, <2>3, <2>4 DEF Shape
<1>7. Budgeted'
  <2> SUFFICES ASSUME NEW t \in Tasks PROVE Cardinality(GrantsOf(t)) + 0 <= MaxAttempts + Larger * restores
    <3>1. \A t \in Tasks : GrantsOf(t)' = GrantsOf(t) /\ Left(row'[t]) = 0
      BY <1>1, <1>2, <1>4 DEF GrantsOf
    <3> QED
      BY <1>1, <3>1 DEF Budgeted, Left
  <2> DEFINE s == Cardinality(GrantsOf(t))
             b == MaxAttempts + Larger * restores
  <2>1. row[t] \in Row /\ restores \in Nat /\ MaxAttempts \in Nat
    BY <1>0, RecoveryBounds DEF TypeOK
  <2>2. Left(row[t]) \in Nat /\ Larger \in Nat
    BY <2>1, LeftIs
  <2>3. b \in Nat /\ s \in Nat /\ s + Left(row[t]) <= b
    BY <1>0, <2>1, <2>2, GrantsAreFinite DEF Budgeted
  <2> QED
    <3> HIDE DEF s, b
    <3>1. s + 0 <= b
      BY <2>2, <2>3
    <3> QED
      BY <3>1 DEF s, b
<1>8. ASSUME exact PROVE Faithful'
  <2>1. Faithful
    BY <1>0, <1>8
  <2>2. \A t \in Tasks : Rising(t)' /\ StagedOnce(t)' /\ Nothing(t)'
    BY <1>1, <1>4, <2>1 DEF Faithful, Rising, StagedOnce, Nothing
  <2>3. \A c \in Checkpoints : Settled(checkpoint[c])'
    BY <1>1, <1>4, <2>1 DEF Faithful, Settled, Current
  <2>4. \A n \in Nodes : Settled(draft[n])'
    BY <1>1 DEF Settled
  <2> QED
    BY <1>1, <2>2, <2>3, <2>4 DEF Faithful
<1> QED
  BY <1>1, <1>3, <1>6, <1>7, <1>8 DEF IInv
-----------------------------------------------------------------------------
(* A checkpoint is saved.                                                  *)

(* The boundary marker is in the ledger and behind every entry that other  *)
(* sessions see.                                                           *)
LEMMA HeadFits ==
  ASSUME TypeOK
  PROVE  /\ HeadOf(Committed) \in Nat /\ HeadOf(Committed) <= Len(ledger)
         /\ \A i \in Committed : i <= HeadOf(Committed)
<1>1. Len(ledger) \in Nat /\ Committed \subseteq 1..Len(ledger)
  BY DEF TypeOK, Committed
<1>2. CASE Committed = {}
  BY <1>1, <1>2 DEF HeadOf
<1>3. CASE Committed # {}
  <2>1. Last(Committed) \in Committed /\ \A j \in Committed : j <= Last(Committed)
    BY <1>1, <1>3, LastExists
  <2> QED
    <3>1. HeadOf(Committed) = Last(Committed)
      BY <1>3 DEF HeadOf
    <3>2. Last(Committed) \in 1..Len(ledger)
      BY <1>1, <2>1
    <3> QED
      BY <1>1, <2>1, <3>1, <3>2
<1> QED
  BY <1>2, <1>3

(* create_snapshot keeps the invariant: when nothing is in flight or lost, *)
(* the rows are the ledger up to its head.                                 *)
LEMMA SnapshotStep ==
  ASSUME IInv, NEW node \in Nodes, create_snapshot(node)
  PROVE  IInv'
<1> DEFINE q == ~lost /\ \A t \in Tasks : open[t] = NoTransaction
           h == HeadOf(Committed)
           k == [rows |-> row, head |-> h, quiet |-> q]
<1>0. TypeOK /\ Shape /\ Budgeted /\ (exact => Faithful) /\ MaxSaves \in Nat
  BY RecoveryBounds DEF IInv
<1>1. /\ draft' = [draft EXCEPT ![node] = k] /\ saves' = saves + 1 /\ saves < MaxSaves
      /\ UNCHANGED <<row, ledger, open, outbox, checkpoint, restores, disasters, exact, lost>>
  BY DEF create_snapshot
<1>2. k \in Draft /\ k.rows = row /\ k.head = h /\ k.quiet = q
  <2>1. row \in [Tasks -> Row] /\ h \in Nat
    BY <1>0, HeadFits DEF TypeOK
  <2>2. q \in BOOLEAN
    OBVIOUS
  <2> HIDE DEF q, h
  <2> QED
    BY <2>1, <2>2 DEF Draft
<1>3. draft'[node] = k /\ \A d \in Nodes \ {node} : draft'[d] = draft[d]
  BY <1>0, <1>1 DEF TypeOK
<1>4. TypeOK'
  <2>1. draft' \in [Nodes -> Draft \cup {NoDraft}]
    <3> HIDE DEF k
    <3> QED
      BY <1>0, <1>1, <1>2 DEF TypeOK
  <2>2. saves' \in 0..MaxSaves
    BY <1>0, <1>1 DEF TypeOK
  <2> QED
    BY <1>0, <1>1, <2>1, <2>2 DEF TypeOK
<1>5. \A t \in Tasks : CommittedOf(t)' = CommittedOf(t)
  BY <1>1 DEF CommittedOf, Committed
<1> HIDE DEF k
<1>6. Shape'
  <2>1. \A t \in Tasks : OpenFits(t)' /\ RowFits(row[t])' /\ (CommittedOf(t)' = {} => Nothing(t)')
    BY <1>0, <1>1, <1>5 DEF Shape, OpenFits, RowFits, Nothing
  <2>2. \A i \in DOMAIN ledger' : EntryFits(ledger[i])'
    BY <1>0, <1>1 DEF Shape, EntryFits
  <2>3. \A c \in Checkpoints : CheckpointFits(checkpoint[c])'
    BY <1>0, <1>1, <1>5 DEF Shape, CheckpointFits, RowFits
  <2>4. ASSUME NEW d \in Nodes PROVE CheckpointFits(draft[d])'
    <3>1. CASE d # node
      BY <1>0, <1>1, <1>3, <1>5, <3>1 DEF Shape, CheckpointFits, RowFits
    <3>2. CASE d = node
      <4>1. h <= Len(ledger)
        BY <1>0, HeadFits
      <4>2. draft'[d].head <= Len(ledger') /\ draft'[d].rows = row'
        BY <1>1, <1>2, <1>3, <3>2, <4>1
      <4>3. \A t \in Tasks : RowFits(row[t])' /\ (CommittedOf(t)' = {} => row'[t] = NoRow)
        BY <2>1 DEF Nothing
      <4> QED
        BY <4>2, <4>3 DEF CheckpointFits, RowFits
    <3> QED
      BY <3>1, <3>2
  <2>5. \A t \in Tasks : \A o \in outbox'[t] : EventFits(t, o)'
    BY <1>0, <1>1, <1>5 DEF Shape, EventFits, RebuiltEvent, RebuiltKind
  <2> QED
    BY <1>0, <1>1, <2>1, <2>2, <2>3, <2>4, <2>5 DEF Shape
<1>7. Budgeted'
  BY <1>0, <1>1, <1>5 DEF Budgeted, GrantsOf, Left
<1>8. ASSUME exact PROVE Faithful'
  <2>1. Faithful
    BY <1>0, <1>8
  <2>2. \A t \in Tasks : (Rising(t) /\ StagedOnce(t) /\ (UpToDate(t) \/ (lost /\ Nothing(t))))'
    BY <1>1, <1>5, <2>1 DEF Faithful, Rising, StagedOnce, UpToDate, Current, Announced, Nothing
  <2>3. ASSUME NEW c \in Checkpoints PROVE Settled(checkpoint[c])'
    <3>1. Settled(checkpoint[c]) /\ checkpoint'[c] = checkpoint[c]
      BY <1>1, <2>1 DEF Faithful
    <3> QED
      BY <1>1, <1>5, <3>1 DEF Settled, Current
  <2>4. ASSUME NEW d \in Nodes PROVE Settled(draft[d])'
    <3>1. CASE d # node
      <4>1. Settled(draft[d]) /\ draft'[d] = draft[d]
        BY <1>3, <2>1, <3>1 DEF Faithful
      <4> QED
        BY <1>1, <1>5, <4>1 DEF Settled, Current
    <3>2. CASE d = node
      <4> SUFFICES ASSUME q, NEW t \in Tasks
                   PROVE  open'[t] = NoTransaction /\ Current(row[t], {i \in CommittedOf(t) : i <= h})'
        <5>1. draft'[d].rows = row' /\ draft'[d].head = h' /\ draft'[d].quiet = q
          BY <1>1, <1>2, <1>3, <3>2 DEF HeadOf, Committed
        <5> HIDE DEF q, h
        <5> QED
          BY <5>1 DEF Settled
      <4>1. ~lost /\ \A u \in Tasks : open[u] = NoTransaction
        OBVIOUS
      <4>2. Current(row[t], CommittedOf(t))'
        BY <1>1, <2>2, <4>1 DEF UpToDate
      <4>3. {i \in CommittedOf(t) : i <= h} = CommittedOf(t)
        BY <1>0, HeadFits DEF CommittedOf
      <4>4. {i \in CommittedOf(t) : i <= h}' = CommittedOf(t)'
        <5>1. h' = h
          BY <1>1 DEF HeadOf, Committed
        <5> QED
          BY <1>5, <4>3, <5>1
      <4> QED
        BY <1>1, <4>1, <4>2, <4>4 DEF Current
    <3> QED
      BY <3>1, <3>2
  <2> QED
    BY <2>2, <2>3, <2>4 DEF Faithful
<1> QED
  BY <1>1, <1>4, <1>6, <1>7, <1>8 DEF IInv

(* save_checkpoint keeps the invariant: the rows of the draft are still    *)
(* the ledger up to its head when no transaction has committed since.      *)
LEMMA SaveStep ==
  ASSUME IInv, NEW c \in Checkpoints, NEW g \in 1..MaxGeneration, NEW node \in Nodes, save_checkpoint(c, g, node)
  PROVE  IInv'
<1> DEFINE d == draft[node]
           h == HeadOf(Committed)
           q == d.quiet /\ h = d.head
           k == [generation |-> g, lease_token |-> node, rows |-> d.rows, head |-> h, quiet |-> q]
<1>0. TypeOK /\ Shape /\ Budgeted /\ (exact => Faithful)
  BY DEF IInv
<1>1. /\ d # NoCheckpoint /\ checkpoint' = [checkpoint EXCEPT ![c] = k] /\ draft' = [draft EXCEPT ![node] = NoDraft]
      /\ UNCHANGED <<row, ledger, open, outbox, saves, restores, disasters, exact, lost>>
  BY DEF save_checkpoint, NoDraft
<1>2. d \in Draft /\ CheckpointFits(d)
  BY <1>0, <1>1 DEF TypeOK, Shape, NoDraft
<1>3. k \in Checkpoint /\ k.rows = d.rows /\ k.head = h /\ k.quiet = q /\ k # NoCheckpoint
  <2>1. d.rows \in [Tasks -> Row] /\ h \in Nat /\ q \in BOOLEAN
    <3>1. d.rows \in [Tasks -> Row] /\ d.quiet \in BOOLEAN
      BY <1>2 DEF Draft
    <3> QED
      BY <1>0, <3>1, HeadFits
  <2>2. g # 0
    OBVIOUS
  <2> HIDE DEF d, h, q
  <2> QED
    BY <2>1, <2>2 DEF Checkpoint, NoCheckpoint
<1>4. /\ checkpoint'[c] = k /\ \A b \in Checkpoints \ {c} : checkpoint'[b] = checkpoint[b]
      /\ draft'[node] = NoCheckpoint /\ \A n \in Nodes \ {node} : draft'[n] = draft[n]
  BY <1>0, <1>1 DEF TypeOK, NoDraft
<1>5. TypeOK'
  <2>1. checkpoint' \in [Checkpoints -> Checkpoint \cup {NoCheckpoint}] /\ draft' \in [Nodes -> Draft \cup {NoDraft}]
    <3> HIDE DEF k
    <3> QED
      BY <1>0, <1>1, <1>3 DEF TypeOK
  <2> QED
    BY <1>0, <1>1, <2>1 DEF TypeOK
<1>6. \A t \in Tasks : CommittedOf(t)' = CommittedOf(t)
  BY <1>1 DEF CommittedOf, Committed
<1> HIDE DEF k
<1>7. Shape'
  <2>1. \A t \in Tasks : OpenFits(t)' /\ RowFits(row[t])' /\ (CommittedOf(t)' = {} => Nothing(t)')
    BY <1>0, <1>1, <1>6 DEF Shape, OpenFits, RowFits, Nothing
  <2>2. \A i \in DOMAIN ledger' : EntryFits(ledger[i])'
    BY <1>0, <1>1 DEF Shape, EntryFits
  <2>3. ASSUME NEW b \in Checkpoints PROVE CheckpointFits(checkpoint[b])'
    <3>1. CASE b # c
      BY <1>0, <1>1, <1>4, <1>6, <3>1 DEF Shape, CheckpointFits, RowFits
    <3>2. CASE b = c
      <4>1. h <= Len(ledger)
        BY <1>0, HeadFits
      <4>2. checkpoint'[b].head <= Len(ledger') /\ checkpoint'[b].rows = d.rows
        BY <1>1, <1>3, <1>4, <3>2, <4>1
      <4>3. \A t \in Tasks : RowFits(d.rows[t]) /\ (CommittedOf(t)' = {} => d.rows[t] = NoRow)
        BY <1>1, <1>2, <1>6 DEF CheckpointFits
      <4>4. \A t \in Tasks : RowFits(checkpoint[b].rows[t])'
        BY <1>1, <4>2, <4>3 DEF RowFits
      <4> HIDE DEF d
      <4> QED
        BY <4>2, <4>3, <4>4 DEF CheckpointFits
    <3> QED
      BY <3>1, <3>2
  <2>4. ASSUME NEW n \in Nodes PROVE CheckpointFits(draft[n])'
    <3>1. CASE n # node
      BY <1>0, <1>1, <1>4, <1>6, <3>1 DEF Shape, CheckpointFits, RowFits
    <3>2. CASE n = node
      BY <1>4, <3>2 DEF CheckpointFits
    <3> QED
      BY <3>1, <3>2
  <2>5. \A t \in Tasks : \A o \in outbox'[t] : EventFits(t, o)'
    BY <1>0, <1>1, <1>6 DEF Shape, EventFits, RebuiltEvent, RebuiltKind
  <2> QED
    BY <1>0, <1>1, <2>1, <2>2, <2>3, <2>4, <2>5 DEF Shape
<1>8. Budgeted'
  BY <1>0, <1>1, <1>6 DEF Budgeted, GrantsOf, Left
<1>9. ASSUME exact PROVE Faithful'
  <2>1. Faithful
    BY <1>0, <1>9
  <2>2. \A t \in Tasks : (Rising(t) /\ StagedOnce(t) /\ (UpToDate(t) \/ (lost /\ Nothing(t))))'
    BY <1>1, <1>6, <2>1 DEF Faithful, Rising, StagedOnce, UpToDate, Current, Announced, Nothing
  <2>3. ASSUME NEW b \in Checkpoints PROVE Settled(checkpoint[b])'
    <3>1. CASE b # c
      <4>1. Settled(checkpoint[b]) /\ checkpoint'[b] = checkpoint[b]
        BY <1>4, <2>1, <3>1 DEF Faithful
      <4> QED
        BY <1>1, <1>6, <4>1 DEF Settled, Current
    <3>2. CASE b = c
      <4>1. Settled(d)
        BY <2>1 DEF Faithful
      <4>2. checkpoint'[b].rows = d.rows /\ checkpoint'[b].head = h /\ checkpoint'[b].quiet = q
        BY <1>3, <1>4, <3>2
      <4>3. CASE q
        <5>1. checkpoint'[b].head = d.head /\ checkpoint'[b].rows = d.rows
          BY <4>2, <4>3
        <5>2. d.quiet
          BY <4>3
        <5> HIDE DEF q, h, d
        <5>3. ASSUME NEW t \in Tasks
              PROVE  /\ open[t] # NoTransaction => open[t].at > d.head
                     /\ Current(d.rows[t], {i \in CommittedOf(t) : i <= d.head})
          BY <1>1, <4>1, <5>2 DEF Settled
        <5> QED
          BY <1>1, <1>6, <5>1, <5>3 DEF Settled, Current
      <4>4. CASE ~q
        <5> HIDE DEF q, h, d
        <5> QED
          BY <4>2, <4>4 DEF Settled
      <4> QED
        BY <4>3, <4>4
    <3> QED
      BY <3>1, <3>2
  <2>4. ASSUME NEW n \in Nodes PROVE Settled(draft[n])'
    <3>1. CASE n # node
      <4>1. Settled(draft[n]) /\ draft'[n] = draft[n]
        BY <1>4, <2>1, <3>1 DEF Faithful
      <4> QED
        BY <1>1, <1>6, <4>1 DEF Settled, Current
    <3>2. CASE n = node
      BY <1>4, <3>2 DEF Settled
    <3> QED
      BY <3>1, <3>2
  <2> QED
    BY <2>2, <2>3, <2>4 DEF Faithful
<1> QED
  BY <1>1, <1>5, <1>7, <1>8, <1>9 DEF IInv
-----------------------------------------------------------------------------
(* A transaction commits.                                                  *)

(* Its entry becomes the last one of the task that other sessions see.     *)
LEMMA CommitEffect ==
  ASSUME TypeOK, Shape, NEW t \in Tasks, commit(t)
  PROVE  LET a == open[t].at
         IN  /\ TypeOK' /\ a \in 1..Len(ledger) /\ ledger[a] \in Entry /\ ledger[a].task = t
             /\ UNCHANGED <<ledger, checkpoint, draft, restores, exact, lost>>
             /\ row'[t] = Written(row[t], ledger[a]) /\ open'[t] = NoTransaction
             /\ \A u \in Tasks \ {t} : row'[u] = row[u] /\ open'[u] = open[u] /\ outbox'[u] = outbox[u]
             /\ CommittedOf(t)' = CommittedOf(t) \cup {a} /\ \A i \in CommittedOf(t) : i < a
             /\ \A u \in Tasks \ {t} : CommittedOf(u)' = CommittedOf(u)
<1> DEFINE a == open[t].at
           e == ledger[a]
           event == [kind |-> open[t].kind, lease |-> e.lease, rebuilt |-> FALSE]
<1>0. MaxAttempts \in Nat
  BY RecoveryBounds
<1>1. Len(ledger) \in Nat /\ DOMAIN ledger = 1..Len(ledger)
  BY CommittedEntries
<1>2. open[t] # NoTransaction /\ OpenFits(t)
  BY DEF commit, Shape
<1>3. /\ a \in 1..Len(ledger) /\ e.task = t /\ \A i \in 1..Len(ledger) : ledger[i].task = t => i <= a
  BY <1>1, <1>2 DEF OpenFits
<1>4. e \in Entry
  BY <1>3, CommittedEntries
<1>5. row[t] \in Row /\ open[t] \in Transaction
  BY <1>2 DEF TypeOK
<1>6. Written(row[t], e) \in Row
  <2>1. /\ e.new \in TaskState /\ e.worker \in Workers \cup {NoWorker} /\ e.lease \in Nat
        /\ row[t].attempts \in Nat /\ row[t].max \in {0, MaxAttempts, ReconstructedMax}
        /\ row[t].owner \in Workers \cup {NoWorker}
    BY <1>4, <1>5 DEF Entry, Row
  <2>2. (IF e.new = "RUNNING" THEN row[t].attempts + 1 ELSE row[t].attempts) \in Nat
    BY <2>1
  <2>3. (CASE e.new = "RUNNING" /\ e.worker # NoWorker -> e.worker
           [] e.new = "QUEUED" /\ e.worker # NoWorker -> NoWorker
           [] OTHER -> row[t].owner) \in Workers \cup {NoWorker}
    BY <2>1
  <2>4. (IF e.prev = "NONE" THEN MaxAttempts ELSE row[t].max) \in {0, MaxAttempts, ReconstructedMax}
    BY <2>1
  <2> QED
    BY <2>1, <2>2, <2>3, <2>4 DEF Written, Row
<1>7. event \in Event
  BY <1>4, <1>5 DEF Entry, Transaction, Event
<1>8. /\ row' = [row EXCEPT ![t] = Written(@, e)]
      /\ outbox' = [outbox EXCEPT ![t] = IF \E o \in @ : SameKey(o, event) THEN @ ELSE @ \cup {event}]
      /\ open' = [open EXCEPT ![t] = NoTransaction]
      /\ UNCHANGED <<ledger, checkpoint, draft, saves, restores, disasters, exact, lost>>
  BY DEF commit
<1> HIDE DEF event
<1>9. /\ row' \in [Tasks -> Row] /\ row'[t] = Written(row[t], e) /\ \A u \in Tasks \ {t} : row'[u] = row[u]
  <2> HIDE DEF e
  <2> QED
    BY <1>6, <1>8 DEF TypeOK
<1>10. outbox' \in [Tasks -> SUBSET Event] /\ \A u \in Tasks \ {t} : outbox'[u] = outbox[u]
  <2>1. outbox[t] \in SUBSET Event
    BY DEF TypeOK
  <2>2. (IF \E o \in outbox[t] : SameKey(o, event) THEN outbox[t] ELSE outbox[t] \cup {event}) \in SUBSET Event
    BY <1>7, <2>1
  <2> QED
    BY <1>8, <2>2 DEF TypeOK
<1>11. /\ open' \in [Tasks -> Transaction \cup {NoTransaction}]
       /\ open'[t] = NoTransaction /\ \A u \in Tasks \ {t} : open'[u] = open[u]
  BY <1>8 DEF TypeOK
<1>12. TypeOK'
  BY <1>8, <1>9, <1>10, <1>11 DEF TypeOK
<1>13. NoTransaction.at = 0
  BY DEF NoTransaction
<1>14. \A u \in Tasks : /\ CommittedOf(u) = {i \in 1..Len(ledger) : ledger[i].task = u /\ open[u].at # i}
                        /\ CommittedOf(u)' = {i \in 1..Len(ledger) : ledger[i].task = u /\ open'[u].at # i}
  BY <1>8, <1>12, CommittedEntries, CommittedEntriesNext
<1>15. CommittedOf(t)' = CommittedOf(t) \cup {a}
  <2>1. \A i \in 1..Len(ledger) : i # 0
    BY <1>1
  <2>2. CommittedOf(t)' = {i \in 1..Len(ledger) : ledger[i].task = t}
    BY <1>11, <1>13, <1>14, <2>1
  <2> QED
    BY <1>3, <1>14, <2>2
<1>16. \A i \in CommittedOf(t) : i < a
  BY <1>1, <1>3, <1>14
<1>17. \A u \in Tasks \ {t} : CommittedOf(u)' = CommittedOf(u)
  <2> TAKE u \in Tasks \ {t}
  <2>1. open'[u] = open[u] /\ u \in Tasks
    BY <1>11
  <2>2. CommittedOf(u) = {i \in 1..Len(ledger) : ledger[i].task = u /\ open[u].at # i}
    BY <1>14, <2>1
  <2>3. CommittedOf(u)' = {i \in 1..Len(ledger) : ledger[i].task = u /\ open'[u].at # i}
    BY <1>14, <2>1
  <2> QED
    BY <2>1, <2>2, <2>3
<1> QED
  BY <1>3, <1>4, <1>8, <1>9, <1>10, <1>11, <1>12, <1>15, <1>16, <1>17

(* The transaction that creates a task finds nothing of it; any other one  *)
(* finds a row.                                                            *)
LEMMA FirstOrRow ==
  ASSUME TypeOK, Shape, NEW t \in Tasks, open[t] # NoTransaction
  PROVE  LET e == ledger[open[t].at]
         IN  /\ e.prev = "NONE" => CommittedOf(t) = {} /\ Nothing(t) /\ e.new = "PENDING"
             /\ e.prev # "NONE" => row[t] # NoRow /\ open[t].kind # "task_created"
<1> DEFINE e == ledger[open[t].at]
<1>1. OpenFits(t)
  BY DEF Shape
<1>2. /\ open[t].at \in DOMAIN ledger /\ e.task = t /\ e.prev = row[t].state
      /\ open[t].kind = "task_created" => e.prev = "NONE"
      /\ e.prev = "NONE" => \A i \in DOMAIN ledger : ledger[i].task = t => i = open[t].at
  BY <1>1 DEF OpenFits
<1>3. EntryFits(e) /\ e # Void
  BY <1>2, CommittedEntries DEF Shape
<1>4. ASSUME e.prev = "NONE" PROVE CommittedOf(t) = {} /\ Nothing(t) /\ e.new = "PENDING"
  <2>1. CommittedOf(t) = {}
    BY <1>2, <1>4, CommittedEntries
  <2> QED
    BY <1>3, <1>4, <2>1 DEF Shape, EntryFits
<1>5. ASSUME e.prev # "NONE" PROVE row[t] # NoRow /\ open[t].kind # "task_created"
  BY <1>2, <1>5 DEF NoRow
<1> QED
  BY <1>4, <1>5
(* commit keeps what holds whatever is restored.                           *)
LEMMA CommitShape ==
  ASSUME TypeOK, Shape, NEW t \in Tasks, commit(t)
  PROVE  Shape'
<1> DEFINE a == open[t].at
           e == ledger[a]
<1>1. /\ TypeOK' /\ a \in 1..Len(ledger) /\ e \in Entry /\ e.task = t
      /\ UNCHANGED <<ledger, checkpoint, draft, restores, exact, lost>>
      /\ row'[t] = Written(row[t], e) /\ open'[t] = NoTransaction
      /\ \A u \in Tasks \ {t} : row'[u] = row[u] /\ open'[u] = open[u] /\ outbox'[u] = outbox[u]
      /\ CommittedOf(t)' = CommittedOf(t) \cup {a}
      /\ \A u \in Tasks \ {t} : CommittedOf(u)' = CommittedOf(u)
  BY CommitEffect
<1>2. Len(ledger) \in Nat /\ DOMAIN ledger = 1..Len(ledger) /\ e # Void /\ e.new \in TaskState
  BY <1>1, CommittedEntries DEF Entry
<1>3. EntryFits(e)
  BY <1>1, <1>2 DEF Shape
<1>4. \A u \in Tasks : CommittedOf(u) \subseteq CommittedOf(u)'
  BY <1>1
<1>5. row'[t].state = e.new /\ row'[t].lease = e.lease
  BY <1>1 DEF Written
<1>6. ASSUME NEW u \in Tasks PROVE OpenFits(u)' /\ RowFits(row[u])' /\ (CommittedOf(u)' = {} => Nothing(u)')
  <2>1. CASE u = t
    <3>1. OpenFits(u)' /\ CommittedOf(u)' # {}
      BY <1>1, <2>1 DEF OpenFits
    <3>2. e.new # "NONE"
      BY <1>2 DEF TaskState
    <3>3. RowFits(row[u])'
      BY <1>1, <1>2, <1>3, <1>5, <2>1, <3>2 DEF RowFits, EntryFits
    <3> QED
      BY <3>1, <3>3
  <2>2. CASE u # t
    <3>1. row'[u] = row[u] /\ open'[u] = open[u] /\ outbox'[u] = outbox[u] /\ CommittedOf(u)' = CommittedOf(u)
      BY <1>1, <2>2
    <3>2. OpenFits(u) /\ RowFits(row[u]) /\ (CommittedOf(u) = {} => Nothing(u))
      BY DEF Shape
    <3> QED
      BY <1>1, <3>1, <3>2 DEF OpenFits, RowFits, Nothing
  <2> QED
    BY <2>1, <2>2
<1>7. \A i \in DOMAIN ledger' : EntryFits(ledger[i])'
  BY <1>1 DEF Shape, EntryFits
<1>8. ASSUME NEW c \in Checkpoints PROVE CheckpointFits(checkpoint[c])'
  <2>1. CheckpointFits(checkpoint[c])
    BY DEF Shape
  <2> QED
    BY <1>1, <1>4, <2>1 DEF CheckpointFits, RowFits
<1>9. ASSUME NEW n \in Nodes PROVE CheckpointFits(draft[n])'
  <2>1. CheckpointFits(draft[n])
    BY DEF Shape
  <2> QED
    BY <1>1, <1>4, <2>1 DEF CheckpointFits, RowFits
<1>10. ASSUME NEW u \in Tasks, NEW o \in outbox'[u] PROVE EventFits(u, o)'
  <2> DEFINE event == [kind |-> open[t].kind, lease |-> e.lease, rebuilt |-> FALSE]
  <2>1. o \in outbox[u] \/ (u = t /\ o = event)
    <3>1. CASE u # t
      BY <1>1, <3>1
    <3>2. CASE u = t
      <4>1. o \in outbox[t] \cup {event}
        BY <3>2 DEF commit, TypeOK
      <4> QED
        BY <3>2, <4>1
    <3> QED
      BY <3>1, <3>2
  <2>2. CASE o \in outbox[u]
    <3>1. PICK i \in CommittedOf(u) : o.lease = ledger[i].lease /\ (o.rebuilt => o = RebuiltEvent(i))
      BY <2>2 DEF Shape, EventFits
    <3>2. i \in CommittedOf(u)' /\ RebuiltEvent(i)' = RebuiltEvent(i)
      BY <1>1, <1>4 DEF RebuiltEvent, RebuiltKind
    <3> QED
      BY <1>1, <3>1, <3>2 DEF EventFits
  <2>3. CASE u = t /\ o = event
    <3>1. a \in CommittedOf(u)' /\ ledger'[a] = e
      BY <1>1, <2>3
    <3>2. o.lease = e.lease /\ ~o.rebuilt
      BY <2>3
    <3> QED
      BY <3>1, <3>2 DEF EventFits
  <2> QED
    BY <2>1, <2>2, <2>3
<1>11. Len(ledger') <= MaxEntries
  BY <1>1 DEF Shape
<1> QED
  BY <1>6, <1>7, <1>8, <1>9, <1>10, <1>11 DEF Shape

(* commit counts the grant it makes.                                       *)
LEMMA CommitBudget ==
  ASSUME TypeOK, Shape, Budgeted, NEW t \in Tasks, commit(t)
  PROVE  Budgeted'
<1> DEFINE a == open[t].at
           e == ledger[a]
           r == row[t]
           next == row'[t]
           b == MaxAttempts + Larger * restores
           s == Cardinality(GrantsOf(t))
<1>1. /\ TypeOK' /\ a \in 1..Len(ledger) /\ e \in Entry /\ e.task = t
      /\ UNCHANGED <<ledger, checkpoint, draft, restores, exact, lost>>
      /\ next = Written(r, e) /\ open'[t] = NoTransaction
      /\ \A u \in Tasks \ {t} : row'[u] = row[u]
      /\ CommittedOf(t)' = CommittedOf(t) \cup {a} /\ \A i \in CommittedOf(t) : i < a
      /\ \A u \in Tasks \ {t} : CommittedOf(u)' = CommittedOf(u)
  BY CommitEffect
<1>2. r \in Row /\ next \in Row /\ restores \in Nat /\ MaxAttempts \in Nat \ {0}
  BY <1>1, RecoveryBounds DEF TypeOK
<1>3. /\ r.attempts \in Nat /\ r.max \in Nat /\ Left(r) \in Nat
      /\ next.attempts \in Nat /\ next.max \in Nat /\ Left(next) \in Nat /\ Larger \in Nat
  BY <1>2, LeftIs
<1>4. b \in Nat /\ MaxAttempts <= b /\ s \in Nat /\ IsFiniteSet(GrantsOf(t))
  <2>1. Larger * restores \in Nat
    BY <1>2, <1>3
  <2> QED
    BY <1>2, <2>1, GrantsAreFinite
<1>5. s + Left(r) <= b
  BY DEF Budgeted
<1>6. /\ next.attempts = IF e.new = "RUNNING" THEN r.attempts + 1 ELSE r.attempts
      /\ next.max = IF e.prev = "NONE" THEN MaxAttempts ELSE r.max
  BY <1>1 DEF Written
<1>7. /\ open[t] # NoTransaction
      /\ e.new = "RUNNING" /\ e.worker # NoWorker => r.attempts < r.max
      /\ e.prev = "NONE" => CommittedOf(t) = {} /\ r = NoRow /\ e.new = "PENDING"
  <2>1. open[t] # NoTransaction /\ OpenFits(t)
    BY DEF commit, Shape
  <2> QED
    BY <2>1, FirstOrRow DEF OpenFits, Nothing
<1>8. GrantsOf(t)' = IF e.new = "RUNNING" /\ e.worker # NoWorker THEN GrantsOf(t) \cup {a} ELSE GrantsOf(t)
  BY <1>1 DEF GrantsOf
<1>9. a \notin GrantsOf(t)
  BY <1>1 DEF GrantsOf
<1>10. Cardinality(GrantsOf(t)') + Left(next) <= b
  <2>1. CASE e.new = "RUNNING" /\ e.worker # NoWorker
    <3>1. Cardinality(GrantsOf(t)') = s + 1
      BY <1>4, <1>8, <1>9, <2>1, FS_AddElement
    <3>2. r.attempts < r.max /\ next.attempts = r.attempts + 1 /\ next.max = r.max
      BY <1>6, <1>7, <2>1
    <3>3. Left(next) + 1 = Left(r)
      <4> HIDE DEF r, next
      <4> QED
        BY <1>3, <3>2 DEF Left
    <3> HIDE DEF s, b, r, next
    <3> QED
      BY <1>3, <1>4, <1>5, <3>1, <3>3
  <2>2. CASE ~(e.new = "RUNNING" /\ e.worker # NoWorker) /\ e.prev # "NONE"
    <3>1. Cardinality(GrantsOf(t)') = s
      BY <1>8, <2>2
    <3>2. next.attempts \in {r.attempts, r.attempts + 1} /\ next.max = r.max
      BY <1>6, <2>2
    <3>3. Left(next) <= Left(r)
      <4> HIDE DEF r, next
      <4> QED
        BY <1>3, <3>2 DEF Left
    <3> HIDE DEF s, b, r, next
    <3> QED
      BY <1>3, <1>4, <1>5, <3>1, <3>3
  <2>3. CASE e.prev = "NONE"
    <3>1. GrantsOf(t)' = {}
      BY <1>7, <1>8, <2>3 DEF GrantsOf
    <3>2. Cardinality(GrantsOf(t)') = 0
      BY <3>1, FS_EmptySet
    <3>3. next.attempts = 0 /\ next.max = MaxAttempts
      BY <1>6, <1>7, <2>3 DEF NoRow
    <3>4. Left(next) = MaxAttempts
      <4> HIDE DEF next
      <4> QED
        BY <1>2, <3>3 DEF Left
    <3> HIDE DEF b, next
    <3> QED
      BY <1>2, <1>4, <3>2, <3>4
  <2> QED
    BY <2>1, <2>2, <2>3
<1>11. ASSUME NEW u \in Tasks PROVE Cardinality(GrantsOf(u)') + Left(row'[u]) <= b
  <2>1. CASE u = t
    BY <1>10, <2>1
  <2>2. CASE u # t
    <3>1. row'[u] = row[u] /\ GrantsOf(u)' = GrantsOf(u)
      BY <1>1, <2>2 DEF GrantsOf
    <3> QED
      BY <3>1 DEF Budgeted
  <2> QED
    BY <2>1, <2>2
<1> QED
  BY <1>1, <1>11 DEF Budgeted, Left
(* commit keeps the task up to date, and every checkpoint as it was.       *)
LEMMA CommitFaithful ==
  ASSUME TypeOK, Shape, Faithful, NEW t \in Tasks, commit(t)
  PROVE  Faithful'
<1> DEFINE a == open[t].at
           e == ledger[a]
           event == [kind |-> open[t].kind, lease |-> e.lease, rebuilt |-> FALSE]
<1>1. /\ TypeOK' /\ a \in 1..Len(ledger) /\ e \in Entry /\ e.task = t
      /\ UNCHANGED <<ledger, checkpoint, draft, restores, exact, lost>>
      /\ row'[t] = Written(row[t], e) /\ open'[t] = NoTransaction
      /\ \A u \in Tasks \ {t} : row'[u] = row[u] /\ open'[u] = open[u] /\ outbox'[u] = outbox[u]
      /\ CommittedOf(t)' = CommittedOf(t) \cup {a} /\ \A i \in CommittedOf(t) : i < a
      /\ \A u \in Tasks \ {t} : CommittedOf(u)' = CommittedOf(u)
  BY CommitEffect
<1>2. /\ Len(ledger) \in Nat /\ CommittedOf(t) \subseteq 1..Len(ledger)
      /\ \A i \in CommittedOf(t) : ledger[i].lease \in Nat
  BY CommittedEntries DEF Entry
<1>3. open[t] # NoTransaction /\ e.prev = row[t].state /\ e.lease = row[t].lease + 1
  BY DEF commit, Shape, OpenFits
<1>4. row[t].lease \in Nat
  <2>1. row[t] \in Row
    BY DEF TypeOK
  <2> QED
    BY <2>1 DEF Row
<1>5. CommittedOf(t) # {} => UpToDate(t) /\ e.prev # "NONE"
  <2> SUFFICES ASSUME CommittedOf(t) # {} PROVE UpToDate(t) /\ e.prev # "NONE"
    OBVIOUS
  <2>1. e.prev # "NONE"
    BY <1>3, FirstOrRow
  <2>2. row[t] # NoRow
    BY <1>3, <2>1, FirstOrRow
  <2> QED
    BY <2>1, <2>2 DEF Faithful, Nothing
<1>6. ASSUME NEW i \in CommittedOf(t) PROVE ledger[i].lease < e.lease
  <2> DEFINE l == Last(CommittedOf(t))
  <2>1. l \in CommittedOf(t) /\ i <= l
    BY <1>2, LastExists
  <2>2. row[t].lease = ledger[l].lease
    BY <1>5 DEF UpToDate, Current
  <2>3. i = l \/ ledger[i].lease < ledger[l].lease
    <3>1. i \in Nat /\ l \in Nat
      BY <1>2, <2>1
    <3>2. i = l \/ i < l
      <4> HIDE DEF l
      <4> QED
        BY <2>1, <3>1
    <3> QED
      BY <2>1, <3>2 DEF Faithful, Rising
  <2>4. ledger[i].lease \in Nat /\ ledger[l].lease \in Nat
    BY <1>2, <2>1
  <2> QED
    BY <1>3, <1>4, <2>2, <2>3, <2>4
<1>7. Rising(t)'
  <2> SUFFICES ASSUME NEW i \in CommittedOf(t) \cup {a}, NEW j \in CommittedOf(t) \cup {a}, i < j
               PROVE  ledger[i].lease < ledger[j].lease
    BY <1>1 DEF Rising
  <2>1. i \in Nat /\ j \in Nat /\ a \in Nat
    BY <1>1, <1>2
  <2>2. i # a
    <3> SUFFICES ASSUME i = a PROVE FALSE
      OBVIOUS
    <3>1. j <= a
      BY <1>1, <2>1
    <3> QED
      BY <2>1, <3>1
  <2>3. CASE j = a
    BY <1>6, <2>2, <2>3
  <2>4. CASE j # a
    BY <2>2, <2>4 DEF Faithful, Rising
  <2> QED
    BY <2>3, <2>4
<1>8. Current(row[t], CommittedOf(t))'
  <2>1. Last(CommittedOf(t) \cup {a}) = a
    <3> DEFINE S == CommittedOf(t) \cup {a}
    <3>1. S \subseteq Nat /\ a \in S
      BY <1>1, <1>2
    <3>2. \A j \in S : j <= a
      BY <1>1, <3>1
    <3> HIDE DEF S
    <3>3. Last(S) = a
      BY <3>1, <3>2, LastIs
    <3> QED
      BY <3>3 DEF S
  <2>2. row'[t].state = e.new /\ row'[t].lease = e.lease
    BY <1>1 DEF Written
  <2> QED
    BY <1>1, <2>1, <2>2 DEF Current
<1>9. Announced(t)'
  <2>1. outbox'[t] = IF \E o \in outbox[t] : SameKey(o, event) THEN outbox[t] ELSE outbox[t] \cup {event}
    BY DEF commit, TypeOK
  <2>2. event.kind = open[t].kind /\ event.lease = e.lease
    OBVIOUS
  <2> HIDE DEF event
  <2>3. outbox[t] \subseteq outbox'[t]
    BY <2>1
  <2>4. \E o \in outbox'[t] : o.lease = e.lease
    <3>1. CASE event \in outbox'[t]
      BY <2>2, <3>1
    <3>2. CASE \E o \in outbox[t] : SameKey(o, event)
      <4>1. PICK o \in outbox[t] : SameKey(o, event)
        BY <3>2
      <4>2. e.prev # "NONE"
        BY <1>3, <4>1, FirstOrRow DEF Nothing
      <4>3. open[t].kind # "task_created"
        BY <1>3, <4>2, FirstOrRow
      <4>4. o.lease = e.lease
        BY <2>2, <4>1, <4>3 DEF SameKey
      <4> QED
        BY <2>3, <4>1, <4>4
    <3> QED
      BY <2>1, <3>1, <3>2
  <2>5. ASSUME NEW i \in CommittedOf(t) PROVE \E o \in outbox'[t] : o.lease = ledger[i].lease
    BY <1>5, <2>3 DEF UpToDate, Announced
  <2> QED
    BY <1>1, <2>4, <2>5 DEF Announced
<1>10. StagedOnce(t)'
  <2>1. outbox'[t] \subseteq outbox[t] \cup {event}
    BY DEF commit, TypeOK
  <2>2. event.lease = e.lease
    OBVIOUS
  <2>3. \A o \in outbox[t] : o.lease # e.lease
    <3> TAKE o \in outbox[t]
    <3>1. PICK i \in CommittedOf(t) : o.lease = ledger[i].lease
      BY DEF Shape, EventFits
    <3>2. ledger[i].lease < e.lease /\ ledger[i].lease \in Nat
      BY <1>2, <1>6
    <3> QED
      BY <3>1, <3>2
  <2> HIDE DEF event
  <2> QED
    BY <2>1, <2>2, <2>3 DEF Faithful, StagedOnce
<1>11. ASSUME NEW u \in Tasks PROVE (Rising(u) /\ StagedOnce(u) /\ (UpToDate(u) \/ (lost /\ Nothing(u))))'
  <2>1. CASE u = t
    BY <1>7, <1>8, <1>9, <1>10, <2>1 DEF UpToDate
  <2>2. CASE u # t
    <3>1. /\ row'[u] = row[u] /\ outbox'[u] = outbox[u] /\ CommittedOf(u)' = CommittedOf(u)
          /\ ledger' = ledger /\ lost' = lost
      BY <1>1, <2>2
    <3>2. Rising(u) /\ StagedOnce(u) /\ (UpToDate(u) \/ (lost /\ Nothing(u)))
      BY DEF Faithful
    <3> QED
      BY <3>1, <3>2 DEF Rising, StagedOnce, UpToDate, Current, Announced, Nothing
  <2> QED
    BY <2>1, <2>2
<1>12. ASSUME NEW k, k # NoCheckpoint, k.quiet, Settled(k), k.head \in Nat, NEW u \in Tasks
      PROVE  /\ open'[u] # NoTransaction => open'[u].at > k.head
             /\ Current(k.rows[u], {i \in CommittedOf(u)' : i <= k.head})
  <2>1. /\ \A v \in Tasks : open[v] # NoTransaction => open[v].at > k.head
        /\ Current(k.rows[u], {i \in CommittedOf(u) : i <= k.head})
    BY <1>12 DEF Settled
  <2>2. open'[u] # NoTransaction => open'[u].at > k.head
    BY <1>1, <2>1
  <2>3. {i \in CommittedOf(u)' : i <= k.head} = {i \in CommittedOf(u) : i <= k.head}
    <3>1. CASE u # t
      BY <1>1, <3>1
    <3>2. CASE u = t
      <4>1. a > k.head /\ a \in Nat
        BY <1>1, <1>3, <2>1
      <4>2. ~(a <= k.head)
        BY <1>12, <4>1
      <4> QED
        BY <1>1, <3>2, <4>2
    <3> QED
      BY <3>1, <3>2
  <2> QED
    BY <2>1, <2>2, <2>3
<1>13. ASSUME NEW c \in Checkpoints PROVE Settled(checkpoint[c])'
  <2> DEFINE k == checkpoint[c]
  <2>1. k' = k /\ Settled(k)
    BY <1>1 DEF Faithful
  <2>2. k # NoCheckpoint => k.head \in Nat
    BY DEF TypeOK, Checkpoint
  <2> HIDE DEF k
  <2>3. ASSUME k # NoCheckpoint, k.quiet, NEW u \in Tasks
        PROVE  /\ open'[u] # NoTransaction => open'[u].at > k.head
               /\ Current(k.rows[u], {i \in CommittedOf(u)' : i <= k.head})
    BY <1>12, <2>1, <2>2, <2>3
  <2> DEFINE S(u) == {i \in CommittedOf(u) : i <= k.head}
  <2>4. k' = k /\ ledger' = ledger /\ \A u \in Tasks : S(u)' = {i \in CommittedOf(u)' : i <= k.head}
    BY <1>1, <2>1
  <2> HIDE DEF S
  <2>5. ASSUME k # NoCheckpoint, k.quiet, NEW u \in Tasks
        PROVE  (open[u] # NoTransaction => open[u].at > k.head)' /\ Current(k.rows[u], S(u))'
    BY <2>3, <2>4, <2>5 DEF Current
  <2>6. Settled(k)'
    BY <2>4, <2>5 DEF Settled, S
  <2> QED
    BY <2>6 DEF k
<1>14. ASSUME NEW n \in Nodes PROVE Settled(draft[n])'
  <2> DEFINE k == draft[n]
  <2>1. k' = k /\ Settled(k)
    BY <1>1 DEF Faithful
  <2>2. k # NoCheckpoint => k.head \in Nat
    BY DEF TypeOK, Draft, NoDraft
  <2> HIDE DEF k
  <2>3. ASSUME k # NoCheckpoint, k.quiet, NEW u \in Tasks
        PROVE  /\ open'[u] # NoTransaction => open'[u].at > k.head
               /\ Current(k.rows[u], {i \in CommittedOf(u)' : i <= k.head})
    BY <1>12, <2>1, <2>2, <2>3
  <2> DEFINE S(u) == {i \in CommittedOf(u) : i <= k.head}
  <2>4. k' = k /\ ledger' = ledger /\ \A u \in Tasks : S(u)' = {i \in CommittedOf(u)' : i <= k.head}
    BY <1>1, <2>1
  <2> HIDE DEF S
  <2>5. ASSUME k # NoCheckpoint, k.quiet, NEW u \in Tasks
        PROVE  (open[u] # NoTransaction => open[u].at > k.head)' /\ Current(k.rows[u], S(u))'
    BY <2>3, <2>4, <2>5 DEF Current
  <2>6. Settled(k)'
    BY <2>4, <2>5 DEF Settled, S
  <2> QED
    BY <2>6 DEF k
<1> QED
  BY <1>11, <1>13, <1>14 DEF Faithful

(* commit keeps the invariant.                                             *)
LEMMA CommitStep ==
  ASSUME IInv, NEW t \in Tasks, commit(t)
  PROVE  IInv'
<1>1. TypeOK /\ Shape /\ Budgeted /\ (exact => Faithful)
  BY DEF IInv
<1>2. TypeOK' /\ exact' = exact
  BY <1>1, CommitEffect
<1>3. Shape' /\ Budgeted' /\ (exact => Faithful')
  BY <1>1, CommitShape, CommitBudget, CommitFaithful
<1> QED
  BY <1>2, <1>3 DEF IInv
-----------------------------------------------------------------------------
(* The rebuilt events.                                                     *)

(* rebuild_outbox_from_audit knows the kinds of event.                     *)
LEMMA RebuiltType ==
  ASSUME NEW e PROVE RebuiltKind(e) \in EventKind
  BY DEF RebuiltKind, EventKind

(* Only the entry that leaves PENDING for QUEUED is rebuilt as the         *)
(* creation of the task, and it has version 2.                             *)
LEMMA RebuiltCreation ==
  ASSUME TypeOK, Shape, NEW t \in Tasks, NEW i \in CommittedOf(t), RebuiltKind(ledger[i]) = "task_created"
  PROVE  ledger[i].lease = 2
<1>1. i \in DOMAIN ledger /\ ledger[i] # Void
  BY CommittedEntries
<1>2. EntryFits(ledger[i])
  BY <1>1 DEF Shape
<1>3. <<ledger[i].prev, ledger[i].new>> \in {<<"NONE", "QUEUED">>, <<"PENDING", "QUEUED">>}
  BY DEF RebuiltKind
<1>4. ledger[i].new = "QUEUED" /\ ledger[i].prev \in {"NONE", "PENDING"}
  BY <1>3
<1> QED
  BY <1>1, <1>2, <1>4 DEF EntryFits

(* When the versions rise along the ledger, a version identifies an entry  *)
LEMMA VersionIdentifies ==
  ASSUME TypeOK, NEW t \in Tasks, Rising(t), NEW i \in CommittedOf(t), NEW j \in CommittedOf(t),
         ledger[i].lease = ledger[j].lease
  PROVE  i = j
<1>1. i \in Nat /\ j \in Nat /\ ledger[i].lease \in Nat /\ ledger[j].lease \in Nat
  BY CommittedEntries DEF Entry
<1>2. i < j \/ j < i \/ i = j
  BY <1>1
<1> QED
  BY <1>1, <1>2 DEF Rising

(* and so does the deduplication key of the rebuilt event.                 *)
LEMMA KeyIdentifies ==
  ASSUME TypeOK, Shape, NEW t \in Tasks, Rising(t), NEW i \in CommittedOf(t), NEW j \in CommittedOf(t),
         SameKey(RebuiltEvent(j), RebuiltEvent(i))
  PROVE  i = j
<1>1. /\ RebuiltEvent(i).kind = RebuiltKind(ledger[i]) /\ RebuiltEvent(i).lease = ledger[i].lease
      /\ RebuiltEvent(j).kind = RebuiltKind(ledger[j]) /\ RebuiltEvent(j).lease = ledger[j].lease
  BY DEF RebuiltEvent
<1>2. CASE RebuiltKind(ledger[j]) = "task_created"
  <2>1. RebuiltKind(ledger[i]) = "task_created"
    BY <1>1, <1>2 DEF SameKey
  <2>2. ledger[i].lease = 2 /\ ledger[j].lease = 2
    BY <1>2, <2>1, RebuiltCreation
  <2> QED
    BY <2>2, VersionIdentifies
<1>3. CASE RebuiltKind(ledger[j]) # "task_created"
  <2>1. ledger[i].lease = ledger[j].lease
    BY <1>1, <1>3 DEF SameKey
  <2> QED
    BY <2>1, VersionIdentifies
<1> QED
  BY <1>2, <1>3

(* So the ids and keys rebuild_outbox_from_audit makes up are new ones,    *)
LEMMA RebuildUnique ==
  ASSUME TypeOK, Shape, NEW t \in Tasks, Rising(t)
  PROVE  RebuildIsUnique(t)
<1>1. Missing(t) \subseteq CommittedOf(t)
  BY DEF Missing
<1>2. ASSUME NEW i \in Missing(t), NEW o \in outbox[t], o.rebuilt PROVE o.lease # ledger[i].lease
  <2> SUFFICES ASSUME o.lease = ledger[i].lease PROVE FALSE
    OBVIOUS
  <2>1. PICK j \in CommittedOf(t) : o = RebuiltEvent(j)
    BY <1>2 DEF Shape, EventFits
  <2>2. ledger[j].lease = ledger[i].lease
    BY <2>1 DEF RebuiltEvent
  <2>3. i = j
    BY <1>1, <2>2, VersionIdentifies
  <2>4. SameKey(o, RebuiltEvent(i))
    BY <2>1, <2>3 DEF SameKey
  <2>5. ~SameKey(o, RebuiltEvent(i))
    BY <1>2 DEF Missing
  <2> QED
    BY <2>4, <2>5
<1>3. ASSUME NEW i \in Missing(t), NEW j \in Missing(t),
             ledger[i].lease = ledger[j].lease \/ SameKey(RebuiltEvent(i), RebuiltEvent(j))
      PROVE  i = j
  BY <1>1, <1>3, VersionIdentifies, KeyIdentifies
<1> QED
  BY <1>2, <1>3 DEF RebuildIsUnique

(* and into an empty outbox it puts an event for every entry.              *)
LEMMA RebuildComplete ==
  ASSUME TypeOK, Shape, NEW t \in Tasks, Rising(t), outbox[t] = {}
  PROVE  Missing(t) = CommittedOf(t)
<1>1. ASSUME NEW i \in CommittedOf(t), NEW j \in CommittedOf(t), j < i, SameKey(RebuiltEvent(j), RebuiltEvent(i))
      PROVE  FALSE
  <2>1. i = j
    BY <1>1, KeyIdentifies
  <2>2. i \in Nat
    BY CommittedEntries
  <2> QED
    BY <1>1, <2>1, <2>2
<1> QED
  BY <1>1 DEF Missing
-----------------------------------------------------------------------------
(* A checkpoint is restored.                                               *)

(* replay_events applies entries that are committed and behind the         *)
(* boundary marker, all of them when no version is past the target.        *)
LEMMA ReplayedEntries ==
  ASSUME TypeOK, NEW t \in Tasks, NEW head \in Nat, NEW target \in Nat
  PROVE  LET mine == {i \in After(head, target) : ledger[i].task = t}
         IN  /\ mine \subseteq {i \in CommittedOf(t) : i > head}
             /\ (\A i \in Committed : ledger[i].lease <= target) => mine = {i \in CommittedOf(t) : i > head}
  BY DEF After, CommittedOf

(* The row after load_snapshot and replay_events.                          *)
LEMMA ReplayedRow ==
  ASSUME TypeOK, Shape, NEW rows \in [Tasks -> Row], NEW E \in SUBSET Committed, NEW t \in Tasks,
         RowFits(rows[t])
  PROVE  LET mine == {i \in E : ledger[i].task = t}
             r == Replayed(rows, E)[t]
         IN  /\ r \in Row /\ RowFits(r)
             /\ IF mine = {} THEN r = rows[t]
                ELSE Last(mine) \in mine /\ r.state = ledger[Last(mine)].new /\ r.lease = ledger[Last(mine)].lease
<1> DEFINE mine == {i \in E : ledger[i].task = t}
           e == ledger[Last(mine)]
           r == Replayed(rows, E)[t]
           w == IF e.new = "QUEUED" /\ ~(rows[t] = NoRow /\ Cardinality(mine) = 1) THEN NoWorker ELSE e.worker
           x == IF rows[t] = NoRow THEN ReconstructedMax ELSE rows[t].max
<1>1. r = IF mine = {} THEN rows[t]
          ELSE [state |-> e.new, attempts |-> rows[t].attempts, max |-> x, owner |-> w, lease |-> e.lease]
  BY DEF Replayed
<1>2. mine \subseteq CommittedOf(t)
  BY DEF CommittedOf
<1>3. CASE mine = {}
  BY <1>1, <1>3
<1>4. CASE mine # {}
  <2>1. Last(mine) \in mine
    <3>1. mine \subseteq 1..Len(ledger) /\ Len(ledger) \in Nat
      BY <1>2, CommittedEntries
    <3> HIDE DEF mine
    <3> QED
      BY <1>4, <3>1, LastExists
  <2>2. e \in Entry /\ e # Void /\ EntryFits(e)
    BY <1>2, <2>1, CommittedEntries DEF Shape
  <2>3. /\ e.new \in TaskState /\ e.worker \in Workers \cup {NoWorker} /\ e.lease \in Nat
        /\ rows[t].attempts \in Nat /\ rows[t].max \in {0, MaxAttempts, ReconstructedMax}
    BY <2>2 DEF Entry, Row
  <2>4. w \in Workers \cup {NoWorker} /\ x \in {0, MaxAttempts, ReconstructedMax}
    BY <2>3
  <2> HIDE DEF w, x, e, mine
  <2>5. r = [state |-> e.new, attempts |-> rows[t].attempts, max |-> x, owner |-> w, lease |-> e.lease]
    BY <1>1, <1>4
  <2>6. r \in Row /\ r.state = e.new /\ r.lease = e.lease
    BY <2>3, <2>4, <2>5 DEF Row
  <2>7. RowFits(r)
    BY <2>2, <2>3, <2>6 DEF RowFits, EntryFits, TaskState
  <2> QED
    BY <1>4, <2>1, <2>6, <2>7 DEF e, mine
<1> QED
  BY <1>3, <1>4

(* What restore_checkpoint and restore_to_sequence do to the tables.       *)
LEMMA RestoreEffect ==
  ASSUME TypeOK, Shape, NEW c \in Checkpoints, NEW node \in Nodes, NEW target \in Nat,
         Restore(c, node, target), exact' \in BOOLEAN
  PROVE  LET k == checkpoint[c]
             mine(t) == {i \in After(k.head, target) : ledger[i].task = t}
         IN  /\ TypeOK' /\ k \in Checkpoint /\ k.head \in Nat
             /\ UNCHANGED <<ledger, open, checkpoint, draft>> /\ restores' = restores + 1 /\ ~lost'
             /\ \A t \in Tasks : CommittedOf(t)' = CommittedOf(t)
             /\ \A t \in Tasks : outbox'[t] = outbox[t] \cup {RebuiltEvent(i) : i \in Missing(t)}
             /\ \A t \in Tasks : RowFits(row'[t])
             /\ \A t \in Tasks : IF mine(t) = {} THEN row'[t] = k.rows[t]
                                 ELSE /\ Last(mine(t)) \in mine(t)
                                      /\ row'[t].state = ledger[Last(mine(t))].new
                                      /\ row'[t].lease = ledger[Last(mine(t))].lease
<1> DEFINE k == checkpoint[c]
           E == After(k.head, target)
           mine(t) == {i \in E : ledger[i].task = t}
<1>0. MaxRestores \in Nat
  BY RecoveryBounds
<1>1. k \in Checkpoint /\ CheckpointFits(k) /\ k # NoCheckpoint /\ restores < MaxRestores
  BY DEF Restore, MayRestore, TypeOK, Shape
<1>2. k.head \in Nat /\ k.rows \in [Tasks -> Row] /\ \A t \in Tasks : RowFits(k.rows[t])
  BY <1>1 DEF Checkpoint, CheckpointFits
<1>3. /\ row' = Replayed(k.rows, E) /\ restores' = restores + 1 /\ lost' = FALSE
      /\ outbox' = [t \in Tasks |-> outbox[t] \cup {RebuiltEvent(i) : i \in Missing(t)}]
      /\ UNCHANGED <<ledger, open, checkpoint, draft, saves, disasters>>
  BY DEF Restore
<1>4. E \in SUBSET Committed
  BY DEF After
<1>5. \A t \in Tasks : /\ row'[t] \in Row /\ RowFits(row'[t])
                       /\ IF mine(t) = {} THEN row'[t] = k.rows[t]
                          ELSE /\ Last(mine(t)) \in mine(t)
                               /\ row'[t].state = ledger[Last(mine(t))].new
                               /\ row'[t].lease = ledger[Last(mine(t))].lease
  <2> TAKE t \in Tasks
  <2> HIDE DEF E, k
  <2>1. RowFits(k.rows[t])
    BY <1>2
  <2>2. LET r == Replayed(k.rows, E)[t]
        IN  /\ r \in Row /\ RowFits(r)
            /\ IF {i \in E : ledger[i].task = t} = {} THEN r = k.rows[t]
               ELSE /\ Last({i \in E : ledger[i].task = t}) \in {i \in E : ledger[i].task = t}
                    /\ r.state = ledger[Last({i \in E : ledger[i].task = t})].new
                    /\ r.lease = ledger[Last({i \in E : ledger[i].task = t})].lease
    BY <1>2, <1>4, <2>1, ReplayedRow
  <2>3. row'[t] = Replayed(k.rows, E)[t]
    BY <1>3
  <2> QED
    BY <2>2, <2>3
<1>6. row' \in [Tasks -> Row]
  <2> HIDE DEF E
  <2>1. row' = [t \in Tasks |-> row'[t]]
    BY <1>3 DEF Replayed
  <2> QED
    BY <1>5, <2>1
<1>7. outbox' \in [Tasks -> SUBSET Event]
  <2>1. ASSUME NEW t \in Tasks PROVE outbox[t] \cup {RebuiltEvent(i) : i \in Missing(t)} \in SUBSET Event
    <3>1. outbox[t] \in SUBSET Event
      BY DEF TypeOK
    <3>2. ASSUME NEW i \in Missing(t) PROVE RebuiltEvent(i) \in Event
      <4>1. i \in CommittedOf(t)
        BY DEF Missing
      <4>2. ledger[i].lease \in Nat
        BY <4>1, CommittedEntries DEF Entry
      <4> QED
        BY <4>2, RebuiltType DEF RebuiltEvent, Event
    <3> QED
      BY <3>1, <3>2
  <2> QED
    BY <1>3, <2>1
<1>8. restores' \in 0..MaxRestores
  BY <1>0, <1>1, <1>3 DEF TypeOK
<1>9. TypeOK'
  BY <1>3, <1>6, <1>7, <1>8 DEF TypeOK
<1>10. \A t \in Tasks : CommittedOf(t)' = CommittedOf(t)
  BY <1>3 DEF CommittedOf, Committed
<1>11. \A t \in Tasks : outbox'[t] = outbox[t] \cup {RebuiltEvent(i) : i \in Missing(t)}
  BY <1>3
<1> HIDE DEF E, k
<1> QED
  BY <1>1, <1>2, <1>3, <1>5, <1>9, <1>10, <1>11 DEF E, k
(* A restore from any checkpoint to any target keeps what holds whatever   *)
(* is restored, and gives back at most one whole budget.                   *)
LEMMA RestoreShape ==
  ASSUME TypeOK, Shape, Budgeted, NEW c \in Checkpoints, NEW node \in Nodes, NEW target \in Nat,
         Restore(c, node, target), exact' \in BOOLEAN
  PROVE  TypeOK' /\ Shape' /\ Budgeted'
<1> DEFINE k == checkpoint[c]
           mine(t) == {i \in After(k.head, target) : ledger[i].task = t}
<1>1. /\ TypeOK' /\ k.head \in Nat
      /\ UNCHANGED <<ledger, open, checkpoint, draft>> /\ restores' = restores + 1
      /\ \A t \in Tasks : CommittedOf(t)' = CommittedOf(t)
      /\ \A t \in Tasks : outbox'[t] = outbox[t] \cup {RebuiltEvent(i) : i \in Missing(t)}
      /\ \A t \in Tasks : RowFits(row'[t])
      /\ \A t \in Tasks : mine(t) = {} => row'[t] = k.rows[t]
  BY RestoreEffect
<1>2. ASSUME NEW t \in Tasks, CommittedOf(t) = {} PROVE row'[t] = NoRow /\ outbox'[t] = {}
  <2>1. k.rows[t] = NoRow /\ row[t] = NoRow /\ outbox[t] = {}
    BY <1>2 DEF Shape, CheckpointFits, Restore, MayRestore, Nothing
  <2>2. mine(t) = {} /\ Missing(t) = {}
    <3>1. mine(t) \subseteq CommittedOf(t)
      BY <1>1, ReplayedEntries
    <3> QED
      BY <1>2, <3>1 DEF Missing
  <2> QED
    BY <1>1, <2>1, <2>2
<1>3. ASSUME NEW t \in Tasks PROVE OpenFits(t)' /\ RowFits(row[t])' /\ (CommittedOf(t)' = {} => Nothing(t)')
  <2>1. ASSUME open[t] # NoTransaction PROVE row'[t] = row[t]
    <3>1. row[t] = NoRow
      BY <2>1 DEF Restore, MayRestore
    <3>2. CommittedOf(t) = {}
      BY <2>1, <3>1, FirstOrRow
    <3> QED
      BY <1>2, <3>1, <3>2
  <2>2. OpenFits(t)
    BY DEF Shape
  <2>3. OpenFits(t)'
    BY <1>1, <2>1, <2>2 DEF OpenFits
  <2>4. RowFits(row[t])'
    BY <1>1 DEF RowFits
  <2> QED
    BY <1>1, <1>2, <2>3, <2>4 DEF Nothing
<1>4. \A i \in DOMAIN ledger' : EntryFits(ledger[i])'
  BY <1>1 DEF Shape, EntryFits
<1>5. ASSUME NEW d \in Checkpoints PROVE CheckpointFits(checkpoint[d])'
  <2>1. CheckpointFits(checkpoint[d])
    BY DEF Shape
  <2> QED
    BY <1>1, <2>1 DEF CheckpointFits, RowFits
<1>6. ASSUME NEW n \in Nodes PROVE CheckpointFits(draft[n])'
  <2>1. CheckpointFits(draft[n])
    BY DEF Shape
  <2> QED
    BY <1>1, <2>1 DEF CheckpointFits, RowFits
<1>7. ASSUME NEW t \in Tasks, NEW o \in outbox'[t] PROVE EventFits(t, o)'
  <2>1. Missing(t) \subseteq CommittedOf(t)
    BY DEF Missing
  <2>2. PICK i \in CommittedOf(t) : o.lease = ledger[i].lease /\ (o.rebuilt => o = RebuiltEvent(i))
    <3>1. CASE o \in outbox[t]
      BY <3>1 DEF Shape, EventFits
    <3>2. CASE o \notin outbox[t]
      <4>1. PICK i \in Missing(t) : o = RebuiltEvent(i)
        BY <1>1, <3>2
      <4> QED
        BY <2>1, <4>1 DEF RebuiltEvent
    <3> QED
      BY <3>1, <3>2
  <2>3. RebuiltEvent(i)' = RebuiltEvent(i)
    BY <1>1 DEF RebuiltEvent, RebuiltKind
  <2> QED
    BY <1>1, <2>2, <2>3 DEF EventFits
<1>8. Shape'
  BY <1>1, <1>3, <1>4, <1>5, <1>6, <1>7 DEF Shape
<1>9. Budgeted'
  <2> SUFFICES ASSUME NEW t \in Tasks
               PROVE  Cardinality(GrantsOf(t)) + Left(row'[t]) <= MaxAttempts + Larger * (restores + 1)
    <3>1. \A t \in Tasks : GrantsOf(t)' = GrantsOf(t)
      BY <1>1 DEF GrantsOf
    <3> QED
      BY <1>1, <3>1 DEF Budgeted, Left
  <2> DEFINE s == Cardinality(GrantsOf(t))
             b == MaxAttempts + Larger * restores
             l == Left(row[t])
             next == Left(row'[t])
  <2>1. row[t] \in Row /\ row'[t] \in Row /\ restores \in Nat /\ MaxAttempts \in Nat
    BY <1>1, RecoveryBounds DEF TypeOK
  <2>2. l \in Nat /\ next \in Nat /\ next <= Larger /\ Larger \in Nat
    BY <2>1, LeftIs
  <2>3. b \in Nat /\ MaxAttempts + Larger * (restores + 1) = b + Larger
    BY <2>1, <2>2
  <2>4. s \in Nat /\ s + l <= b
    BY GrantsAreFinite DEF Budgeted
  <2>5. s + next <= b + Larger
    <3> HIDE DEF s, b, l, next
    <3> QED
      BY <2>2, <2>3, <2>4
  <2> QED
    BY <2>3, <2>5
<1> QED
  BY <1>1, <1>8, <1>9

(* A restore from a checkpoint that was saved while nothing was in flight  *)
(* leaves every task up to date.                                           *)
LEMMA RestoreFaithful ==
  ASSUME TypeOK, Shape, Faithful, NEW c \in Checkpoints, NEW node \in Nodes,
         Restore(c, node, MaxEntries), exact' \in BOOLEAN, checkpoint[c].quiet
  PROVE  Faithful'
<1> DEFINE k == checkpoint[c]
           mine(t) == {i \in After(k.head, MaxEntries) : ledger[i].task = t}
<1>0. MaxEntries \in Nat
  BY RecoveryBounds
<1>1. /\ TypeOK' /\ k.head \in Nat
      /\ UNCHANGED <<ledger, open, checkpoint, draft>> /\ ~lost'
      /\ \A t \in Tasks : CommittedOf(t)' = CommittedOf(t)
      /\ \A t \in Tasks : outbox'[t] = outbox[t] \cup {RebuiltEvent(i) : i \in Missing(t)}
      /\ \A t \in Tasks : IF mine(t) = {} THEN row'[t] = k.rows[t]
                          ELSE /\ Last(mine(t)) \in mine(t)
                               /\ row'[t].state = ledger[Last(mine(t))].new
                               /\ row'[t].lease = ledger[Last(mine(t))].lease
  BY <1>0, RestoreEffect
<1>2. \A i \in Committed : ledger[i].lease <= MaxEntries
  <2> SUFFICES ASSUME NEW i \in Committed PROVE ledger[i].lease <= MaxEntries
    OBVIOUS
  <2>1. i \in DOMAIN ledger /\ ledger[i] # Void
    BY DEF Committed
  <2>2. ledger[i].lease \in Nat /\ Len(ledger) \in Nat
    BY <2>1 DEF TypeOK, Entry
  <2>3. ledger[i].lease <= Len(ledger) /\ Len(ledger) <= MaxEntries
    BY <2>1 DEF Shape, EntryFits
  <2> QED
    BY <1>0, <2>2, <2>3
<1>3. ASSUME NEW t \in Tasks PROVE Current(row[t], CommittedOf(t))'
  <2> DEFINE old == {i \in CommittedOf(t) : i <= k.head}
             new == {i \in CommittedOf(t) : i > k.head}
  <2>1. mine(t) = new
    BY <1>0, <1>1, <1>2, ReplayedEntries
  <2>2. Len(ledger) \in Nat /\ CommittedOf(t) \subseteq 1..Len(ledger)
    BY CommittedEntries
  <2>3. Current(k.rows[t], old)
    BY DEF Faithful, Settled, Restore, MayRestore
  <2>4. CASE new = {}
    <3>1. old = CommittedOf(t)
      <4>1. \A i \in CommittedOf(t) : i \in Nat /\ ~(i > k.head)
        BY <2>2, <2>4
      <4>2. \A i \in CommittedOf(t) : i <= k.head
        <5> HIDE DEF k, new, old
        <5> QED
          BY <1>1, <4>1
      <4> QED
        BY <4>2
    <3>2. row'[t] = k.rows[t]
      BY <1>1, <2>1, <2>4
    <3> HIDE DEF k, old
    <3> QED
      BY <1>1, <2>3, <3>1, <3>2 DEF Current
  <2>5. CASE new # {}
    <3> DEFINE l == Last(new)
    <3>1. l \in new /\ \A j \in new : j <= l
      <4>1. new \subseteq 1..Len(ledger)
        BY <2>2
      <4> HIDE DEF new
      <4> QED
        BY <2>2, <2>5, <4>1, LastExists
    <3>2. row'[t].state = ledger[l].new /\ row'[t].lease = ledger[l].lease
      BY <1>1, <2>1, <2>5
    <3>3. l \in CommittedOf(t) /\ l \in Nat /\ l > k.head
      <4> HIDE DEF l, k
      <4> QED
        BY <2>2, <3>1
    <3>4. \A j \in CommittedOf(t) : j <= l
      <4> TAKE j \in CommittedOf(t)
      <4>1. j \in Nat
        BY <2>2
      <4>2. CASE j > k.head
        BY <3>1, <4>2
      <4>3. CASE ~(j > k.head)
        <5> HIDE DEF l, k
        <5> QED
          BY <1>1, <3>3, <4>1, <4>3
      <4> QED
        BY <4>2, <4>3
    <3>5. Last(CommittedOf(t)) = l
      <4> HIDE DEF l
      <4> QED
        BY <2>2, <3>3, <3>4, LastIs
    <3> QED
      BY <1>1, <3>2, <3>3, <3>5 DEF Current
  <2> QED
    BY <2>4, <2>5
<1>4. ASSUME NEW t \in Tasks PROVE Announced(t)'
  <2>1. CASE Announced(t)
    BY <1>1, <2>1 DEF Announced
  <2>2. CASE outbox[t] = {}
    <3>1. Missing(t) = CommittedOf(t)
      BY <2>2, RebuildComplete DEF Faithful
    <3>2. \A i \in CommittedOf(t) : RebuiltEvent(i) \in outbox'[t] /\ RebuiltEvent(i).lease = ledger[i].lease
      BY <1>1, <3>1 DEF RebuiltEvent
    <3> QED
      BY <1>1, <3>2 DEF Announced
  <2> QED
    BY <2>1, <2>2 DEF Faithful, UpToDate, Nothing
<1>5. \A t \in Tasks : Rising(t)'
  BY <1>1 DEF Faithful, Rising
<1>6. ASSUME NEW t \in Tasks PROVE StagedOnce(t)'
  <2>1. \A o \in outbox'[t] : ~o.rebuilt => o \in outbox[t]
    BY <1>1 DEF RebuiltEvent
  <2> QED
    BY <2>1 DEF Faithful, StagedOnce
<1>7. /\ ledger' = ledger /\ open' = open /\ checkpoint' = checkpoint /\ draft' = draft
      /\ \A t \in Tasks : CommittedOf(t)' = CommittedOf(t)
  BY <1>1
<1>8. ASSUME NEW d \in Checkpoints PROVE Settled(checkpoint[d])'
  <2>1. Settled(checkpoint[d]) /\ checkpoint'[d] = checkpoint[d]
    BY <1>7 DEF Faithful
  <2> QED
    BY <1>7, <2>1 DEF Settled, Current
<1>9. ASSUME NEW n \in Nodes PROVE Settled(draft[n])'
  <2>1. Settled(draft[n]) /\ draft'[n] = draft[n]
    BY <1>7 DEF Faithful
  <2> QED
    BY <1>7, <2>1 DEF Settled, Current
<1> QED
  BY <1>3, <1>4, <1>5, <1>6, <1>8, <1>9 DEF Faithful, UpToDate

(* restore_checkpoint and restore_to_sequence keep the invariant.          *)
LEMMA RestoreStep ==
  ASSUME IInv, NEW c \in Checkpoints, NEW node \in Nodes,
         restore_checkpoint(c, node) \/ \E s \in Targets : restore_to_sequence(c, node, s)
  PROVE  IInv'
<1>0. TypeOK /\ Shape /\ Budgeted /\ (exact => Faithful) /\ MaxEntries \in Nat /\ Targets \subseteq Nat
  BY RecoveryBounds DEF IInv
<1>1. CASE restore_checkpoint(c, node)
  <2>1. Restore(c, node, MaxEntries) /\ exact' = (exact /\ checkpoint[c].quiet)
    BY <1>1 DEF restore_checkpoint
  <2>2. exact' \in BOOLEAN
    BY <2>1
  <2>3. TypeOK' /\ Shape' /\ Budgeted'
    BY <1>0, <2>1, <2>2, RestoreShape
  <2>4. ASSUME exact' PROVE Faithful'
    BY <1>0, <2>1, <2>2, <2>4, RestoreFaithful
  <2> QED
    BY <2>3, <2>4 DEF IInv
<1>2. ASSUME NEW s \in Targets, restore_to_sequence(c, node, s) PROVE IInv'
  <2>1. Restore(c, node, s) /\ exact' = FALSE
    BY <1>2 DEF restore_to_sequence
  <2>2. TypeOK' /\ Shape' /\ Budgeted'
    BY <1>0, <2>1, RestoreShape
  <2> QED
    BY <2>1, <2>2 DEF IInv
<1> QED
  BY <1>1, <1>2

-----------------------------------------------------------------------------
(* The results.                                                            *)

(* The invariant holds in every reachable state.                           *)
THEOREM InvariantHolds == Spec => []IInv
<1>1. Init => IInv
  BY InitIInv
<1>2. IInv /\ [Next]_vars => IInv'
  <2> SUFFICES ASSUME IInv, [Next]_vars PROVE IInv'
    OBVIOUS
  <2>1. CASE \E t \in Tasks : \E m \in Moves(t) : record_transition(t, m)
    BY <2>1, RecordStep
  <2>2. CASE \E t \in Tasks : commit(t)
    BY <2>2, CommitStep
  <2>3. CASE \E t \in Tasks : rollback(t)
    BY <2>3, RollbackStep
  <2>4. CASE disaster
    BY <2>4, DisasterStep
  <2>s. CASE \E n \in Nodes : create_snapshot(n)
    BY <2>s, SnapshotStep
  <2>5. CASE \E c \in Checkpoints, g \in 1..MaxGeneration, n \in Nodes : save_checkpoint(c, g, n)
    BY <2>5, SaveStep
  <2>6. CASE \E c \in Checkpoints, n \in Nodes :
                restore_checkpoint(c, n) \/ \E s \in Targets : restore_to_sequence(c, n, s)
    BY <2>6, RestoreStep
  <2>7. CASE UNCHANGED vars
    <3>0. UNCHANGED <<row, ledger, open, outbox, checkpoint, draft, saves, restores, disasters, exact, lost>>
      BY <2>7 DEF vars
    <3>1. TypeOK' /\ TypeOK /\ Shape
      BY <3>0 DEF IInv, TypeOK
    <3>2. \A u \in Tasks : CommittedOf(u)' = CommittedOf(u)
      BY <3>0 DEF CommittedOf, Committed
    <3>3. \A u \in Tasks : OpenFits(u)'
      BY <3>0, <3>1 DEF Shape, OpenFits
    <3>4. \A i \in DOMAIN ledger' : EntryFits(ledger[i])'
      BY <3>0, <3>1 DEF Shape, EntryFits
    <3>5. Len(ledger) <= Len(ledger') /\ Len(ledger') <= MaxEntries
      BY <3>0, <3>1 DEF Shape, TypeOK
    <3> QED
      BY <3>0, <3>1, <3>2, <3>3, <3>4, <3>5, UnseenStep
  <2> QED
    BY <2>1, <2>2, <2>3, <2>4, <2>s, <2>5, <2>6, <2>7 DEF Next
<1> QED
  BY <1>1, <1>2, PTL DEF Spec

(* Rows, ledger, outbox, checkpoints and the drafts of checkpoints have    *)
(* their types, whatever is lost and restored.                             *)
THEOREM TypeCorrect == Spec => []TypeOK
<1>1. IInv => TypeOK
  BY DEF IInv
<1> QED
  BY <1>1, InvariantHolds, PTL

(* Outside a disaster a task row has the state and the lease_version of    *)
(* the last entry of its audit ledger, after any number of disasters and   *)
(* exact restores.                                                         *)
THEOREM RowsFollow == Spec => []RowFollowsLedger
<1>1. IInv => RowFollowsLedger
  BY DEF IInv, Faithful, UpToDate, Current, RowFollowsLedger
<1> QED
  BY <1>1, InvariantHolds, PTL

(* Outside a disaster every committed transition has an outbox event with  *)
(* its version, and at most the original one and one that a restore        *)
(* rebuilt.                                                                *)
THEOREM EntriesAnnounced == Spec => []EveryEntryAnnounced
<1>1. IInv => EveryEntryAnnounced
  <2> SUFFICES ASSUME IInv, exact, ~lost, NEW i \in Committed
               PROVE  LET events == {o \in outbox[ledger[i].task] : o.lease = ledger[i].lease}
                      IN  events # {} /\ \A o, p \in events : o.rebuilt = p.rebuilt => o = p
    BY DEF EveryEntryAnnounced
  <2> DEFINE t == ledger[i].task
             events == {o \in outbox[t] : o.lease = ledger[i].lease}
  <2>1. t \in Tasks /\ TypeOK /\ Shape
    BY DEF IInv, TypeOK, Committed, Entry
  <2>2. i \in CommittedOf(t)
    BY DEF CommittedOf
  <2>3. UpToDate(t) /\ Rising(t) /\ StagedOnce(t)
    BY <2>1 DEF IInv, Faithful
  <2> HIDE DEF t
  <2>4. events # {}
    BY <2>2, <2>3 DEF UpToDate, Announced
  <2>5. ASSUME NEW o \in events, NEW p \in events, o.rebuilt = p.rebuilt PROVE o = p
    <3>1. CASE o.rebuilt
      <4>1. PICK j \in CommittedOf(t) : o = RebuiltEvent(j)
        BY <2>1, <3>1 DEF Shape, EventFits
      <4>2. PICK k \in CommittedOf(t) : p = RebuiltEvent(k)
        BY <2>1, <2>5, <3>1 DEF Shape, EventFits
      <4>3. ledger[j].lease = ledger[i].lease /\ ledger[k].lease = ledger[i].lease
        BY <4>1, <4>2 DEF RebuiltEvent
      <4>4. j = k
        BY <2>1, <2>3, <4>3, VersionIdentifies
      <4> QED
        BY <4>1, <4>2, <4>4
    <3>2. CASE ~o.rebuilt
      <4>1. o.rebuilt \in BOOLEAN /\ p.rebuilt \in BOOLEAN
        BY <2>1 DEF TypeOK, Event
      <4> QED
        BY <2>3, <2>5, <3>2, <4>1 DEF StagedOnce
    <3> QED
      BY <3>1, <3>2
  <2> QED
    BY <2>4, <2>5 DEF t
<1> QED
  BY <1>1, InvariantHolds, PTL

(* The ids and keys that rebuild_outbox_from_audit makes up never collide  *)
(* while the restores are exact.                                           *)
THEOREM RebuildsUnique == Spec => []RebuildNeverCollides
<1>1. IInv => RebuildNeverCollides
  BY RebuildUnique DEF IInv, Faithful, RebuildNeverCollides
<1> QED
  BY <1>1, InvariantHolds, PTL

(* assign_task grants a task at most max_attempts times, and at most one   *)
(* more whole budget for each restore, whatever was restored.              *)
THEOREM GrantsAreBounded == Spec => []GrantsBounded
<1>1. IInv => GrantsBounded
  <2> SUFFICES ASSUME IInv, NEW t \in Tasks
               PROVE  Cardinality(GrantsOf(t)) <= MaxAttempts + Larger * restores
    BY DEF GrantsBounded
  <2> DEFINE s == Cardinality(GrantsOf(t))
             b == MaxAttempts + Larger * restores
  <2>1. TypeOK /\ MaxAttempts \in Nat /\ restores \in Nat /\ row[t] \in Row
    BY RecoveryBounds DEF IInv, TypeOK
  <2>2. Left(row[t]) \in Nat /\ Larger \in Nat
    BY <2>1, LeftIs
  <2>3. s \in Nat /\ b \in Nat /\ s + Left(row[t]) <= b
    BY <2>1, <2>2, GrantsAreFinite DEF IInv, Budgeted
  <2>4. s <= b
    <3> HIDE DEF s, b
    <3> QED
      BY <2>2, <2>3
  <2> QED
    BY <2>4
<1> QED
  BY <1>1, InvariantHolds, PTL

(* What other sessions have seen of the audit ledger stays: no step takes  *)
(* a committed entry away or rewrites it, not the rollback of another      *)
(* transaction, a disaster or a restore to an earlier point in time.       *)
HistoryKept == [][\A t \in Tasks : \A i \in CommittedOf(t) : i \in CommittedOf(t)' /\ ledger'[i] = ledger[i]]_vars

(* The audit ledger is append-only: HistoryKept holds of every behaviour.  *)
THEOREM HistoryStays == Spec => HistoryKept
<1> DEFINE Kept(t) == \A i \in CommittedOf(t) : i \in CommittedOf(t)' /\ ledger'[i] = ledger[i]
<1>1. IInv /\ IInv' /\ [Next]_vars => [\A t \in Tasks : Kept(t)]_vars
  <2> SUFFICES ASSUME IInv, IInv', Next, NEW u \in Tasks PROVE Kept(u)
    OBVIOUS
  <2> DEFINE n == Len(ledger)
  <2>0. TypeOK /\ Shape /\ TypeOK'
    BY DEF IInv
  <2>1. /\ n \in Nat /\ DOMAIN ledger = 1..n
        /\ CommittedOf(u) = {i \in 1..n : ledger[i].task = u /\ open[u].at # i}
        /\ CommittedOf(u)' = {i \in 1..Len(ledger') : ledger'[i].task = u /\ open'[u].at # i}
    BY <2>0, CommittedEntries, CommittedEntriesNext
  <2>2. CASE \E t \in Tasks : \E m \in Moves(t) : record_transition(t, m)
    BY <2>0, <2>1, <2>2, RecordEffect
  <2>3. CASE \E t \in Tasks : commit(t)
    <3>1. ledger' = ledger /\ (open'[u] = open[u] \/ open'[u] = NoTransaction)
      BY <2>0, <2>3 DEF commit, TypeOK
    <3> QED
      BY <2>1, <3>1 DEF NoTransaction
  <2>4. ASSUME NEW t \in Tasks, rollback(t) PROVE Kept(u)
    <3>1. /\ open[t].at \in 1..n /\ ledger[open[t].at].task = t
          /\ ledger' = [ledger EXCEPT ![open[t].at] = Void] /\ open' = [open EXCEPT ![t] = NoTransaction]
      BY <2>0, <2>1, <2>4 DEF rollback, Shape, OpenFits
    <3>2. Len(ledger') = n /\ \A i \in 1..n : i # open[t].at => ledger'[i] = ledger[i]
      BY <2>0, <3>1 DEF TypeOK
    <3>3. open'[u] = open[u] \/ open'[u].at = 0
      BY <2>0, <3>1 DEF TypeOK, NoTransaction
    <3>4. \A i \in CommittedOf(u) : i # open[t].at
      BY <2>1, <3>1
    <3> QED
      BY <2>1, <3>2, <3>3, <3>4
  <2>5. CASE UNCHANGED <<ledger, open>>
    BY <2>1, <2>5
  <2>6. disaster \/ (\E k \in Nodes : create_snapshot(k)) \/ (\E c \in Checkpoints, g \in 1..MaxGeneration, k \in Nodes : save_checkpoint(c, g, k))
          \/ (\E c \in Checkpoints, k \in Nodes :
                restore_checkpoint(c, k) \/ \E s \in Targets : restore_to_sequence(c, k, s))
        => UNCHANGED <<ledger, open>>
    BY DEF disaster, create_snapshot, save_checkpoint, restore_checkpoint, restore_to_sequence, Restore
  <2> QED
    BY <2>2, <2>3, <2>4, <2>5, <2>6 DEF Next
<1> QED
  BY <1>1, InvariantHolds, PTL DEF Spec, HistoryKept
=============================================================================
