--------------------------- MODULE ConsensusProofs ---------------------------
(***************************************************************************)
(* The safety of MultiNodeConsensusEngine for every number of nodes,       *)
(* resources, grants, events and snapshots.                                *)
(***************************************************************************)
EXTENDS Consensus, TLAPS

(* What is on the network can be trusted: an event announces a lease that  *)
(* was granted.                                                            *)
EventsWereGranted ==
    \A e \in events :
        [resource |-> e.resource, lease |-> [holder |-> e.source, epoch |-> e.epoch, token |-> e.token]] \in grants

(* A snapshot lists granted leases, none ahead of its own counters.        *)
SnapshotsAreSound ==
    \A s \in snapshots, r \in Resources :
        /\ s.leases[r].epoch <= s.epoch
        /\ s.leases[r].token <= s.token
        /\ s.leases[r] # NoLease => [resource |-> r, lease |-> s.leases[r]] \in grants

(* The inductive invariant: what engines believe is sound because what     *)
(* they can receive is.                                                    *)
ConsensusInv ==
    /\ TypeOK
    /\ LeaseWithinEngine
    /\ LeasesWereGranted
    /\ EventsWereGranted
    /\ SnapshotsAreSound

(* Max2 is the larger of two numbers.                                      *)
LEMMA Max2Bounds ==
    ASSUME NEW a \in Nat, NEW b \in Nat
    PROVE  /\ Max2(a, b) \in {a, b}
           /\ Max2(a, b) >= a
           /\ Max2(a, b) >= b
BY DEF Max2

(* What a proposal that passes the checks of request_authority grants: the *)
(* epoch and the token it asked for.                                       *)
LEMMA GrantedGeneration ==
    ASSUME TypeOK, NEW n \in Nodes, NEW r \in Resources, NEW p \in Nodes, NEW e \in Epoch, NEW k \in Token,
           MayGrant(n, r, p, e, k)
    PROVE  Max2(epoch[n], e) = e /\ Max2(token[n] + 1, k) = k
<1>1. e \in Nat /\ k \in Nat /\ epoch[n] \in Nat /\ token[n] \in Nat
    BY ConsensusBounds DEF TypeOK, Epoch, Token
<1>2. e >= epoch[n] /\ k > token[n]
    BY DEF MayGrant
<1> QED
    BY <1>1, <1>2 DEF Max2

(* An event that is in order is taken over with its own generation.        *)
LEMMA AppliedGeneration ==
    ASSUME TypeOK, NEW n \in Nodes, NEW e \in Event, InOrder(n, e)
    PROVE  /\ Max2(epoch[n], e.epoch) = e.epoch
           /\ Max2(token[n], e.token) = e.token
           /\ Max2(sequence[n], e.sequence) = e.sequence
<1>1. /\ e.epoch \in Nat /\ e.token \in Nat /\ e.sequence \in Nat
      /\ epoch[n] \in Nat /\ token[n] \in Nat /\ sequence[n] \in Nat
    BY ConsensusBounds DEF TypeOK, Epoch, Token, Event
<1>2. e.epoch >= epoch[n] /\ e.token >= token[n] /\ e.sequence > sequence[n]
    BY DEF InOrder
<1> QED
    BY <1>1, <1>2 DEF Max2

(* The merge of two lease tables takes each lease from one of them.        *)
LEMMA MergedIsFromOne ==
    ASSUME NEW mine \in [Resources -> Lease \cup {NoLease}], NEW theirs \in [Resources -> Lease \cup {NoLease}]
    PROVE  /\ Merged(mine, theirs) \in [Resources -> Lease \cup {NoLease}]
           /\ \A r \in Resources :
                 \/ Merged(mine, theirs)[r] = mine[r]
                 \/ /\ Merged(mine, theirs)[r] = theirs[r]
                    /\ theirs[r] # NoLease
                    /\ mine[r] = NoLease \/ Newer(theirs[r], mine[r])
BY DEF Merged

-----------------------------------------------------------------------------
(* No engine has granted anything yet.                                     *)
LEMMA InitEstablishes == Init => ConsensusInv
<1> SUFFICES ASSUME Init PROVE ConsensusInv
    OBVIOUS
<1>1. TypeOK
    BY ConsensusBounds DEF Init, TypeOK, Epoch, Token
<1>2. LeaseWithinEngine
    BY DEF Init, LeaseWithinEngine, NoLease
<1>3. LeasesWereGranted
    BY DEF Init, LeasesWereGranted
<1>4. EventsWereGranted
    BY DEF Init, EventsWereGranted
<1>5. SnapshotsAreSound
    BY DEF Init, SnapshotsAreSound
<1> QED
    BY <1>1, <1>2, <1>3, <1>4, <1>5 DEF ConsensusInv

(* request_authority: the new lease is the grant.                          *)
LEMMA RequestPreserves ==
    ASSUME ConsensusInv, NEW n \in Nodes, NEW r \in Resources, NEW p \in Nodes, NEW e \in Epoch, NEW k \in Token,
           NEW votes \in SUBSET Nodes, NEW members \in Views,
           request_authority(n, r, p, e, k, votes, members)
    PROVE  ConsensusInv'
<1> DEFINE new == [holder |-> p, epoch |-> e, token |-> k]
           sent == [granter |-> n, source |-> p, resource |-> r, epoch |-> e, token |-> k, sequence |-> sequence[n] + 1]
<1>0. TypeOK /\ MayGrant(n, r, p, e, k)
    BY DEF ConsensusInv, request_authority
<1>1. Max2(epoch[n], e) = e /\ Max2(token[n] + 1, k) = k
    BY <1>0, GrantedGeneration
<1>2. /\ epoch' = [epoch EXCEPT ![n] = e]
      /\ token' = [token EXCEPT ![n] = k]
      /\ sequence' = [sequence EXCEPT ![n] = @ + 1]
      /\ lease' = [lease EXCEPT ![n][r] = new]
      /\ grants' = grants \cup {[resource |-> r, lease |-> new]}
      /\ events' = events \cup {sent}
      /\ UNCHANGED <<processed, snapshots>>
    BY <1>1 DEF request_authority
<1>3. new \in Lease /\ sent \in Event
    BY <1>0 DEF Lease, Event, TypeOK
<1>4. e \in Nat /\ k \in Nat /\ e >= epoch[n] /\ k > token[n]
    BY <1>0, ConsensusBounds DEF MayGrant, Epoch, Token
<1>5. new.holder = p /\ new.epoch = e /\ new.token = k
    OBVIOUS
<1> HIDE DEF new
<1>6. TypeOK'
    BY <1>0, <1>2, <1>3 DEF TypeOK, Grant
<1>7. LeaseWithinEngine'
    <2> SUFFICES ASSUME NEW m \in Nodes, NEW q \in Resources
                 PROVE  (lease[m][q].epoch <= epoch[m] /\ lease[m][q].token <= token[m])'
        BY DEF LeaseWithinEngine
    <2>1. CASE m = n /\ q = r
        <3>1. lease'[m][q] = new /\ epoch'[m] = e /\ token'[m] = k
            BY <1>0, <1>2, <2>1 DEF TypeOK
        <3> QED
            BY <3>1, <1>4, <1>5
    <2>2. CASE m = n /\ q # r
        <3>1. lease'[m][q] = lease[m][q] /\ epoch'[m] = e /\ token'[m] = k
            BY <1>0, <1>2, <2>2 DEF TypeOK
        <3>2. lease[m][q].epoch <= epoch[m] /\ lease[m][q].token <= token[m]
            BY DEF ConsensusInv, LeaseWithinEngine
        <3>3. lease[m][q] \in Lease \cup {NoLease} /\ epoch[m] \in Epoch /\ token[m] \in Token
            BY <1>0 DEF TypeOK
        <3>4. lease[m][q].epoch \in Nat /\ lease[m][q].token \in Nat /\ epoch[m] \in Nat /\ token[m] \in Nat
            BY <3>3, ConsensusBounds DEF Lease, NoLease, Epoch, Token
        <3> QED
            BY <3>1, <3>2, <3>4, <1>4, <2>2
    <2>3. CASE m # n
        <3>1. lease'[m][q] = lease[m][q] /\ epoch'[m] = epoch[m] /\ token'[m] = token[m]
            BY <1>0, <1>2, <2>3 DEF TypeOK
        <3> QED
            BY <3>1 DEF ConsensusInv, LeaseWithinEngine
    <2> QED
        BY <2>1, <2>2, <2>3
<1>8. LeasesWereGranted'
    <2> SUFFICES ASSUME NEW m \in Nodes, NEW q \in Resources, (lease[m][q] # NoLease)'
                 PROVE  [resource |-> q, lease |-> lease'[m][q]] \in grants'
        BY DEF LeasesWereGranted
    <2>1. CASE m = n /\ q = r
        <3>1. lease'[m][q] = new
            BY <1>0, <1>2, <2>1 DEF TypeOK
        <3> QED
            BY <3>1, <1>2, <2>1
    <2>2. CASE ~ (m = n /\ q = r)
        <3>1. lease'[m][q] = lease[m][q]
            BY <1>0, <1>2, <2>2 DEF TypeOK
        <3> QED
            BY <3>1, <1>2 DEF ConsensusInv, LeasesWereGranted
    <2> QED
        BY <2>1, <2>2
<1>9. EventsWereGranted'
    <2> SUFFICES ASSUME NEW x \in events'
                 PROVE  [resource |-> x.resource,
                         lease |-> [holder |-> x.source, epoch |-> x.epoch, token |-> x.token]] \in grants'
        BY DEF EventsWereGranted
    <2>1. CASE x \in events
        BY <2>1, <1>2 DEF ConsensusInv, EventsWereGranted
    <2>2. CASE x = sent
        BY <2>2, <1>2 DEF new
    <2> QED
        BY <2>1, <2>2, <1>2
<1>10. SnapshotsAreSound'
    BY <1>2 DEF ConsensusInv, SnapshotsAreSound
<1> QED
    BY <1>6, <1>7, <1>8, <1>9, <1>10 DEF ConsensusInv

(* apply_event: the guard makes both max() calls return the event's        *)
(* values.                                                                 *)
LEMMA ApplyPreserves ==
    ASSUME ConsensusInv, NEW n \in Nodes, NEW e \in events, apply_event(n, e)
    PROVE  ConsensusInv'
<1> DEFINE new == [holder |-> e.source, epoch |-> e.epoch, token |-> e.token]
<1>0. TypeOK /\ e \in Event /\ InOrder(n, e)
    BY DEF ConsensusInv, apply_event, TypeOK
<1>1. /\ Max2(epoch[n], e.epoch) = e.epoch
      /\ Max2(token[n], e.token) = e.token
      /\ Max2(sequence[n], e.sequence) = e.sequence
    BY <1>0, AppliedGeneration
<1>2. /\ epoch' = [epoch EXCEPT ![n] = e.epoch]
      /\ token' = [token EXCEPT ![n] = e.token]
      /\ sequence' = [sequence EXCEPT ![n] = e.sequence]
      /\ lease' = [lease EXCEPT ![n][e.resource] = new]
      /\ processed' = [processed EXCEPT ![n] = @ \cup {e}]
      /\ UNCHANGED <<events, snapshots, grants>>
    BY <1>1, <1>0 DEF apply_event, TypeOK
<1>3. /\ new \in Lease /\ e.resource \in Resources
      /\ e.epoch \in Epoch /\ e.token \in Token /\ e.sequence \in Nat
    BY <1>0 DEF Lease, Event
<1>4. e.epoch \in Nat /\ e.token \in Nat /\ e.epoch >= epoch[n] /\ e.token >= token[n]
    BY <1>0, <1>3, ConsensusBounds DEF InOrder, Epoch, Token
<1>5. /\ new.epoch = e.epoch /\ new.token = e.token
      /\ [resource |-> e.resource, lease |-> new] \in grants
    BY DEF ConsensusInv, EventsWereGranted
<1> HIDE DEF new
<1>6. TypeOK'
    BY <1>0, <1>2, <1>3 DEF TypeOK
<1>7. LeaseWithinEngine'
    <2> SUFFICES ASSUME NEW m \in Nodes, NEW q \in Resources
                 PROVE  (lease[m][q].epoch <= epoch[m] /\ lease[m][q].token <= token[m])'
        BY DEF LeaseWithinEngine
    <2>1. CASE m = n /\ q = e.resource
        <3>1. lease'[m][q] = new /\ epoch'[m] = e.epoch /\ token'[m] = e.token
            BY <1>0, <1>2, <2>1 DEF TypeOK
        <3> QED
            BY <3>1, <1>4, <1>5
    <2>2. CASE m = n /\ q # e.resource
        <3>1. lease'[m][q] = lease[m][q] /\ epoch'[m] = e.epoch /\ token'[m] = e.token
            BY <1>0, <1>2, <2>2 DEF TypeOK
        <3>2. lease[m][q].epoch <= epoch[m] /\ lease[m][q].token <= token[m]
            BY DEF ConsensusInv, LeaseWithinEngine
        <3>3. lease[m][q] \in Lease \cup {NoLease} /\ epoch[m] \in Epoch /\ token[m] \in Token
            BY <1>0 DEF TypeOK
        <3>4. lease[m][q].epoch \in Nat /\ lease[m][q].token \in Nat /\ epoch[m] \in Nat /\ token[m] \in Nat
            BY <3>3, ConsensusBounds DEF Lease, NoLease, Epoch, Token
        <3> QED
            BY <3>1, <3>2, <3>4, <1>4, <2>2
    <2>3. CASE m # n
        <3>1. lease'[m][q] = lease[m][q] /\ epoch'[m] = epoch[m] /\ token'[m] = token[m]
            BY <1>0, <1>2, <2>3 DEF TypeOK
        <3> QED
            BY <3>1 DEF ConsensusInv, LeaseWithinEngine
    <2> QED
        BY <2>1, <2>2, <2>3
<1>8. LeasesWereGranted'
    <2> SUFFICES ASSUME NEW m \in Nodes, NEW q \in Resources, (lease[m][q] # NoLease)'
                 PROVE  [resource |-> q, lease |-> lease'[m][q]] \in grants'
        BY DEF LeasesWereGranted
    <2>1. CASE m = n /\ q = e.resource
        <3>1. lease'[m][q] = new
            BY <1>0, <1>2, <2>1 DEF TypeOK
        <3> QED
            BY <3>1, <1>2, <1>5, <2>1
    <2>2. CASE ~ (m = n /\ q = e.resource)
        <3>1. lease'[m][q] = lease[m][q]
            BY <1>0, <1>2, <2>2 DEF TypeOK
        <3> QED
            BY <3>1, <1>2 DEF ConsensusInv, LeasesWereGranted
    <2> QED
        BY <2>1, <2>2
<1>9. EventsWereGranted' /\ SnapshotsAreSound'
    BY <1>2 DEF ConsensusInv, EventsWereGranted, SnapshotsAreSound
<1> QED
    BY <1>6, <1>7, <1>8, <1>9 DEF ConsensusInv

(* get_snapshot copies what the engine has.                                *)
LEMMA SnapshotPreserves ==
    ASSUME ConsensusInv, NEW n \in Nodes, get_snapshot(n)
    PROVE  ConsensusInv'
<1> DEFINE new == [epoch |-> epoch[n], token |-> token[n], sequence |-> sequence[n], leases |-> lease[n]]
<1>0. TypeOK
    BY DEF ConsensusInv
<1>1. new \in Snapshot
    BY <1>0 DEF TypeOK, Snapshot
<1>2. snapshots' = snapshots \cup {new} /\ UNCHANGED <<engineVars, events, grants>>
    BY DEF get_snapshot
<1>3. TypeOK'
    BY <1>0, <1>1, <1>2 DEF TypeOK, engineVars
<1>4. LeaseWithinEngine' /\ LeasesWereGranted' /\ EventsWereGranted'
    BY <1>2 DEF ConsensusInv, LeaseWithinEngine, LeasesWereGranted, EventsWereGranted, engineVars
<1>5. SnapshotsAreSound'
    <2> SUFFICES ASSUME NEW s \in snapshots', NEW r \in Resources
                 PROVE  /\ s.leases[r].epoch <= s.epoch
                        /\ s.leases[r].token <= s.token
                        /\ s.leases[r] # NoLease => [resource |-> r, lease |-> s.leases[r]] \in grants'
        BY DEF SnapshotsAreSound
    <2>1. CASE s \in snapshots
        BY <2>1, <1>2 DEF ConsensusInv, SnapshotsAreSound
    <2>2. CASE s = new
        BY <2>2, <1>2 DEF ConsensusInv, LeaseWithinEngine, LeasesWereGranted
    <2> QED
        BY <2>1, <2>2, <1>2
<1> QED
    BY <1>3, <1>4, <1>5 DEF ConsensusInv

(* reconcile_partition_healing: maximum of two counters, merge of two      *)
(* tables.                                                                 *)
LEMMA HealingPreserves ==
    ASSUME ConsensusInv, NEW n \in Nodes, NEW S \in SUBSET snapshots, reconcile_partition_healing(n, S)
    PROVE  ConsensusInv'
<1>0. TypeOK
    BY DEF ConsensusInv
<1>1. PICK best \in Best(S) :
          /\ epoch' = [epoch EXCEPT ![n] = Max2(@, best.epoch)]
          /\ token' = [token EXCEPT ![n] = Max2(@, best.token)]
          /\ sequence' = [sequence EXCEPT ![n] = Max2(@, best.sequence)]
          /\ lease' = [lease EXCEPT ![n] = Merged(@, best.leases)]
          /\ UNCHANGED <<processed, events, snapshots, grants>>
    BY DEF reconcile_partition_healing
<1>2. best \in snapshots /\ best \in Snapshot
    BY <1>0 DEF Best, TypeOK
<1> DEFINE theirs == best.leases
<1>3. /\ best.epoch \in Epoch /\ best.token \in Token /\ best.sequence \in Nat
      /\ theirs \in [Resources -> Lease \cup {NoLease}]
      /\ epoch[n] \in Epoch /\ token[n] \in Token /\ sequence[n] \in Nat
      /\ lease[n] \in [Resources -> Lease \cup {NoLease}]
    BY <1>0, <1>2 DEF Snapshot, TypeOK
<1>4. /\ best.epoch \in Nat /\ best.token \in Nat /\ epoch[n] \in Nat /\ token[n] \in Nat
    BY <1>3, ConsensusBounds DEF Epoch, Token
<1> DEFINE E == Max2(epoch[n], best.epoch)
           K == Max2(token[n], best.token)
           Q == Max2(sequence[n], best.sequence)
           L == Merged(lease[n], theirs)
<1>5. /\ E \in {epoch[n], best.epoch} /\ E >= epoch[n] /\ E >= best.epoch
      /\ K \in {token[n], best.token} /\ K >= token[n] /\ K >= best.token
      /\ Q \in {sequence[n], best.sequence}
    BY <1>3, <1>4, Max2Bounds
<1>6. /\ L \in [Resources -> Lease \cup {NoLease}]
      /\ \A r \in Resources : L[r] = lease[n][r] \/ (L[r] = theirs[r] /\ theirs[r] # NoLease)
    BY <1>3, MergedIsFromOne
<1>7. /\ epoch' = [epoch EXCEPT ![n] = E]
      /\ token' = [token EXCEPT ![n] = K]
      /\ sequence' = [sequence EXCEPT ![n] = Q]
      /\ lease' = [lease EXCEPT ![n] = L]
      /\ UNCHANGED <<processed, events, snapshots, grants>>
    BY <1>0, <1>1 DEF TypeOK
<1>8. \A r \in Resources : /\ theirs[r].epoch <= best.epoch /\ theirs[r].token <= best.token
                           /\ theirs[r] # NoLease => [resource |-> r, lease |-> theirs[r]] \in grants
    BY <1>2 DEF ConsensusInv, SnapshotsAreSound
<1> HIDE DEF theirs, E, K, Q, L
<1>9. TypeOK'
    BY <1>0, <1>3, <1>5, <1>6, <1>7 DEF TypeOK
<1>10. LeaseWithinEngine'
    <2> SUFFICES ASSUME NEW m \in Nodes, NEW q \in Resources
                 PROVE  (lease[m][q].epoch <= epoch[m] /\ lease[m][q].token <= token[m])'
        BY DEF LeaseWithinEngine
    <2>1. CASE m = n
        <3>1. lease'[m][q] = L[q] /\ epoch'[m] = E /\ token'[m] = K
            BY <1>0, <1>7, <2>1 DEF TypeOK
        <3>2. L[q] \in Lease \cup {NoLease}
            BY <1>6
        <3>3. L[q].epoch \in Nat /\ L[q].token \in Nat
            BY <3>2, ConsensusBounds DEF Lease, NoLease, Epoch, Token
        <3>4. CASE L[q] = lease[n][q]
            <4>1. lease[n][q].epoch <= epoch[n] /\ lease[n][q].token <= token[n]
                BY DEF ConsensusInv, LeaseWithinEngine
            <4> QED
                BY <4>1, <3>1, <3>3, <3>4, <1>4, <1>5
        <3>5. CASE L[q] = theirs[q]
            <4>1. theirs[q].epoch <= best.epoch /\ theirs[q].token <= best.token
                BY <1>8
            <4> QED
                BY <4>1, <3>1, <3>3, <3>5, <1>4, <1>5
        <3> QED
            BY <3>4, <3>5, <1>6
    <2>2. CASE m # n
        <3>1. lease'[m][q] = lease[m][q] /\ epoch'[m] = epoch[m] /\ token'[m] = token[m]
            BY <1>0, <1>7, <2>2 DEF TypeOK
        <3> QED
            BY <3>1 DEF ConsensusInv, LeaseWithinEngine
    <2> QED
        BY <2>1, <2>2
<1>11. LeasesWereGranted'
    <2> SUFFICES ASSUME NEW m \in Nodes, NEW q \in Resources, (lease[m][q] # NoLease)'
                 PROVE  [resource |-> q, lease |-> lease'[m][q]] \in grants'
        BY DEF LeasesWereGranted
    <2>1. CASE m = n
        <3>1. lease'[m][q] = L[q] /\ grants' = grants
            BY <1>0, <1>7, <2>1 DEF TypeOK
        <3>2. lease[n][q] # NoLease => [resource |-> q, lease |-> lease[n][q]] \in grants
            BY DEF ConsensusInv, LeasesWereGranted
        <3> QED
            BY <3>1, <3>2, <1>6, <1>8
    <2>2. CASE m # n
        <3>1. lease'[m][q] = lease[m][q]
            BY <1>0, <1>7, <2>2 DEF TypeOK
        <3> QED
            BY <3>1, <1>7 DEF ConsensusInv, LeasesWereGranted
    <2> QED
        BY <2>1, <2>2
<1>12. EventsWereGranted' /\ SnapshotsAreSound'
    BY <1>7 DEF ConsensusInv, EventsWereGranted, SnapshotsAreSound
<1> QED
    BY <1>9, <1>10, <1>11, <1>12 DEF ConsensusInv

(* The invariant is inductive.                                             *)
LEMMA ConsensusInductive == ConsensusInv /\ [Next]_vars => ConsensusInv'
<1> SUFFICES ASSUME ConsensusInv, [Next]_vars PROVE ConsensusInv'
    OBVIOUS
<1>1. CASE Next
    BY <1>1, RequestPreserves, ApplyPreserves, SnapshotPreserves, HealingPreserves DEF Next
<1>2. CASE UNCHANGED vars
    BY <1>2 DEF vars, engineVars, ConsensusInv, TypeOK, LeaseWithinEngine, LeasesWereGranted,
                EventsWereGranted, SnapshotsAreSound
<1> QED
    BY <1>1, <1>2

(* The inductive invariant holds always.                                   *)
THEOREM ConsensusSafe == Spec => []ConsensusInv
BY InitEstablishes, ConsensusInductive, PTL DEF Spec

(* Every engine keeps its types, and its epoch and token are always ones   *)
(* that some proposal asked for.                                           *)
THEOREM ConsensusTypes == Spec => []TypeOK
<1>1. ConsensusInv => TypeOK
    BY DEF ConsensusInv
<1> QED
    BY <1>1, ConsensusSafe, PTL

(* No engine lists a lease ahead of its own counters.                      *)
THEOREM LeasesAreFenced == Spec => []LeaseWithinEngine
<1>1. ConsensusInv => LeaseWithinEngine
    BY DEF ConsensusInv
<1> QED
    BY <1>1, ConsensusSafe, PTL

(* No engine ever lists a lease that was not granted by a quorum.          *)
THEOREM NoLeaseInvented == Spec => []LeasesWereGranted
<1>1. ConsensusInv => LeasesWereGranted
    BY DEF ConsensusInv
<1> QED
    BY <1>1, ConsensusSafe, PTL

-----------------------------------------------------------------------------
(* The counters of an engine are numbers.                                  *)
LEMMA CountersAreNat ==
    ASSUME TypeOK, NEW n \in Nodes
    PROVE  epoch[n] \in Nat /\ token[n] \in Nat /\ sequence[n] \in Nat
BY ConsensusBounds DEF TypeOK, Epoch, Token

(* So are the generations of its leases.                                   *)
LEMMA GenerationsAreNat ==
    ASSUME TypeOK, NEW n \in Nodes, NEW r \in Resources
    PROVE  /\ epoch[n] \in Nat /\ token[n] \in Nat /\ sequence[n] \in Nat
           /\ lease[n][r].epoch \in Nat /\ lease[n][r].token \in Nat
<1>1. lease[n][r] \in Lease \cup {NoLease}
    BY DEF TypeOK
<1>2. lease[n][r].epoch \in Nat /\ lease[n][r].token \in Nat
    BY <1>1, ConsensusBounds DEF Lease, NoLease, Epoch, Token
<1> QED
    BY <1>2, CountersAreNat

(* INV-F15-CONS-07: a grant older than the lease in force never validates. *)
THEOREM StaleGrantsRejected == Spec => []StaleGrantNeverValidates
<1>1. ConsensusInv => StaleGrantNeverValidates
    <2> SUFFICES ASSUME ConsensusInv, NEW n \in Nodes, NEW g \in grants, NEW members \in Views,
                        validate_authority(n, g.resource, g.lease.holder, g.lease.epoch, g.lease.token, members)
                 PROVE  ~Newer(lease[n][g.resource], g.lease)
        BY DEF StaleGrantNeverValidates
    <2>1. TypeOK /\ g \in Grant
        BY DEF ConsensusInv, TypeOK
    <2>2. g.resource \in Resources /\ g.lease \in Lease
        BY <2>1 DEF Grant
    <2>3. g.lease.epoch \in Nat /\ g.lease.token \in Nat
        BY <2>2, ConsensusBounds DEF Lease, Epoch, Token
    <2>4. ~ (g.lease.epoch < epoch[n] \/ g.lease.token < token[n])
        BY DEF validate_authority
    <2>5. lease[n][g.resource].epoch <= epoch[n] /\ lease[n][g.resource].token <= token[n]
        BY <2>2 DEF ConsensusInv, LeaseWithinEngine
    <2> QED
        BY <2>1, <2>2, <2>3, <2>4, <2>5, GenerationsAreNat DEF Newer
<1> QED
    BY <1>1, ConsensusSafe, PTL

(* What GenerationNeverRegresses says of one engine.                       *)
Advances(n) ==
    /\ epoch'[n] >= epoch[n] /\ token'[n] >= token[n] /\ sequence'[n] >= sequence[n]
    /\ \A r \in Resources : ~Newer(lease[n][r], lease'[n][r])

(* An engine that a step leaves alone advances trivially.                  *)
LEMMA UntouchedAdvances ==
    ASSUME TypeOK, NEW n \in Nodes,
           epoch'[n] = epoch[n], token'[n] = token[n], sequence'[n] = sequence[n], lease'[n] = lease[n]
    PROVE  Advances(n)
<1>1. \A r \in Resources : ~Newer(lease[n][r], lease[n][r])
    BY GenerationsAreNat DEF Newer
<1>2. epoch[n] \in Nat /\ token[n] \in Nat /\ sequence[n] \in Nat
    BY CountersAreNat
<1> QED
    BY <1>1, <1>2 DEF Advances

(* No generation goes back in request_authority,                           *)
LEMMA RequestAdvances ==
    ASSUME ConsensusInv, NEW n \in Nodes, NEW r \in Resources, NEW p \in Nodes, NEW e \in Epoch, NEW k \in Token,
           NEW votes \in SUBSET Nodes, NEW members \in Views,
           request_authority(n, r, p, e, k, votes, members), NEW m \in Nodes
    PROVE  Advances(m)
<1>0. TypeOK /\ MayGrant(n, r, p, e, k)
    BY DEF ConsensusInv, request_authority
<1>1. Max2(epoch[n], e) = e /\ Max2(token[n] + 1, k) = k
    BY <1>0, GrantedGeneration
<1>2. /\ epoch' = [epoch EXCEPT ![n] = e]
      /\ token' = [token EXCEPT ![n] = k]
      /\ sequence' = [sequence EXCEPT ![n] = @ + 1]
      /\ lease' = [lease EXCEPT ![n][r] = [holder |-> p, epoch |-> e, token |-> k]]
    BY <1>1 DEF request_authority
<1>3. e \in Nat /\ k \in Nat /\ e >= epoch[n] /\ k > token[n]
    BY <1>0, ConsensusBounds DEF MayGrant, Epoch, Token
<1>4. CASE m = n
    <2>1. epoch'[n] = e /\ token'[n] = k /\ sequence'[n] = sequence[n] + 1
        BY <1>0, <1>2 DEF TypeOK
    <2>2. ASSUME NEW q \in Resources
          PROVE  ~Newer(lease[n][q], lease'[n][q])
        <3>1. CASE q = r
            <4>1. lease'[n][q].epoch = e /\ lease'[n][q].token = k
                BY <1>0, <1>2, <3>1 DEF TypeOK
            <4>2. lease[n][q].epoch <= epoch[n] /\ lease[n][q].token <= token[n]
                BY DEF ConsensusInv, LeaseWithinEngine
            <4> QED
                BY <1>0, <1>3, <4>1, <4>2, GenerationsAreNat DEF Newer
        <3>2. CASE q # r
            <4>1. lease'[n][q] = lease[n][q]
                BY <1>0, <1>2, <3>2 DEF TypeOK
            <4> QED
                BY <1>0, <4>1, GenerationsAreNat DEF Newer
        <3> QED
            BY <3>1, <3>2
    <2>3. epoch'[n] >= epoch[n] /\ token'[n] >= token[n] /\ sequence'[n] >= sequence[n]
        <3>1. epoch[n] \in Nat /\ token[n] \in Nat /\ sequence[n] \in Nat
            BY <1>0, CountersAreNat
        <3> QED
            BY <2>1, <1>3, <3>1
    <2> QED
        BY <2>2, <2>3, <1>4 DEF Advances
<1>5. CASE m # n
    <2>1. epoch'[m] = epoch[m] /\ token'[m] = token[m] /\ sequence'[m] = sequence[m] /\ lease'[m] = lease[m]
        BY <1>0, <1>2, <1>5 DEF TypeOK
    <2> QED
        BY <1>0, <2>1, UntouchedAdvances
<1> QED
    BY <1>4, <1>5

(* in apply_event                                                          *)
LEMMA ApplyAdvances ==
    ASSUME ConsensusInv, NEW n \in Nodes, NEW e \in events, apply_event(n, e), NEW m \in Nodes
    PROVE  Advances(m)
<1>0. TypeOK /\ e \in Event /\ InOrder(n, e)
    BY DEF ConsensusInv, apply_event, TypeOK
<1>1. /\ Max2(epoch[n], e.epoch) = e.epoch
      /\ Max2(token[n], e.token) = e.token
      /\ Max2(sequence[n], e.sequence) = e.sequence
    BY <1>0, AppliedGeneration
<1>2. /\ epoch' = [epoch EXCEPT ![n] = e.epoch]
      /\ token' = [token EXCEPT ![n] = e.token]
      /\ sequence' = [sequence EXCEPT ![n] = e.sequence]
      /\ lease' = [lease EXCEPT ![n][e.resource] = [holder |-> e.source, epoch |-> e.epoch, token |-> e.token]]
    BY <1>1, <1>0 DEF apply_event, TypeOK
<1>3. /\ e.epoch \in Nat /\ e.token \in Nat /\ e.sequence \in Nat /\ e.resource \in Resources
      /\ e.epoch >= epoch[n] /\ e.token >= token[n] /\ e.sequence > sequence[n]
    BY <1>0, ConsensusBounds DEF InOrder, Epoch, Token, Event
<1>4. CASE m = n
    <2>1. epoch'[n] = e.epoch /\ token'[n] = e.token /\ sequence'[n] = e.sequence
        BY <1>0, <1>2 DEF TypeOK
    <2>2. ASSUME NEW q \in Resources
          PROVE  ~Newer(lease[n][q], lease'[n][q])
        <3>1. CASE q = e.resource
            <4>1. lease'[n][q].epoch = e.epoch /\ lease'[n][q].token = e.token
                BY <1>0, <1>2, <3>1 DEF TypeOK
            <4>2. lease[n][q].epoch <= epoch[n] /\ lease[n][q].token <= token[n]
                BY DEF ConsensusInv, LeaseWithinEngine
            <4> QED
                BY <1>0, <1>3, <4>1, <4>2, GenerationsAreNat DEF Newer
        <3>2. CASE q # e.resource
            <4>1. lease'[n][q] = lease[n][q]
                BY <1>0, <1>2, <3>2 DEF TypeOK
            <4> QED
                BY <1>0, <4>1, GenerationsAreNat DEF Newer
        <3> QED
            BY <3>1, <3>2
    <2>3. epoch'[n] >= epoch[n] /\ token'[n] >= token[n] /\ sequence'[n] >= sequence[n]
        <3>1. epoch[n] \in Nat /\ token[n] \in Nat /\ sequence[n] \in Nat
            BY <1>0, CountersAreNat
        <3> QED
            BY <2>1, <1>3, <3>1
    <2> QED
        BY <2>2, <2>3, <1>4 DEF Advances
<1>5. CASE m # n
    <2>1. epoch'[m] = epoch[m] /\ token'[m] = token[m] /\ sequence'[m] = sequence[m] /\ lease'[m] = lease[m]
        BY <1>0, <1>2, <1>5 DEF TypeOK
    <2> QED
        BY <1>0, <2>1, UntouchedAdvances
<1> QED
    BY <1>4, <1>5

(* or in reconcile_partition_healing.                                      *)
LEMMA HealingAdvances ==
    ASSUME ConsensusInv, NEW n \in Nodes, NEW S \in SUBSET snapshots, reconcile_partition_healing(n, S), NEW m \in Nodes
    PROVE  Advances(m)
<1>0. TypeOK
    BY DEF ConsensusInv
<1>1. PICK best \in Best(S) :
          /\ epoch' = [epoch EXCEPT ![n] = Max2(@, best.epoch)]
          /\ token' = [token EXCEPT ![n] = Max2(@, best.token)]
          /\ sequence' = [sequence EXCEPT ![n] = Max2(@, best.sequence)]
          /\ lease' = [lease EXCEPT ![n] = Merged(@, best.leases)]
    BY DEF reconcile_partition_healing
<1>2. best \in Snapshot
    BY <1>0 DEF Best, TypeOK
<1> DEFINE theirs == best.leases
<1>3. /\ best.epoch \in Nat /\ best.token \in Nat /\ best.sequence \in Nat
      /\ epoch[n] \in Nat /\ token[n] \in Nat /\ sequence[n] \in Nat
      /\ theirs \in [Resources -> Lease \cup {NoLease}]
      /\ lease[n] \in [Resources -> Lease \cup {NoLease}]
    BY <1>0, <1>2, ConsensusBounds DEF Snapshot, TypeOK, Epoch, Token
<1>4. CASE m = n
    <2>1. /\ epoch'[n] = Max2(epoch[n], best.epoch)
          /\ token'[n] = Max2(token[n], best.token)
          /\ sequence'[n] = Max2(sequence[n], best.sequence)
          /\ lease'[n] = Merged(lease[n], theirs)
        BY <1>0, <1>1 DEF TypeOK
    <2>2. epoch'[n] >= epoch[n] /\ token'[n] >= token[n] /\ sequence'[n] >= sequence[n]
        BY <2>1, <1>3, Max2Bounds
    <2> HIDE DEF theirs
    <2>3. ASSUME NEW q \in Resources
          PROVE  ~Newer(lease[n][q], lease'[n][q])
        <3>1. \/ lease'[n][q] = lease[n][q]
              \/ /\ lease'[n][q] = theirs[q]
                 /\ lease[n][q] = NoLease \/ Newer(theirs[q], lease[n][q])
            BY <2>1, <1>3, MergedIsFromOne
        <3>2. theirs[q] \in Lease \cup {NoLease}
            BY <1>3
        <3>3. theirs[q].epoch \in Nat /\ theirs[q].token \in Nat
            BY <3>2, ConsensusBounds DEF Lease, NoLease, Epoch, Token
        <3>4. lease[n][q].epoch \in Nat /\ lease[n][q].token \in Nat
            BY <1>0, GenerationsAreNat
        <3>5. CASE lease'[n][q] = lease[n][q]
            BY <3>4, <3>5 DEF Newer
        <3>6. CASE lease'[n][q] = theirs[q] /\ lease[n][q] = NoLease
            <4>1. lease[n][q].epoch = 0 /\ lease[n][q].token = 0
                BY <3>6 DEF NoLease
            <4> QED
                BY <3>3, <3>6, <4>1 DEF Newer
        <3>7. CASE lease'[n][q] = theirs[q] /\ Newer(theirs[q], lease[n][q])
            BY <3>3, <3>4, <3>7 DEF Newer
        <3> QED
            BY <3>1, <3>5, <3>6, <3>7
    <2> QED
        BY <2>2, <2>3, <1>4 DEF Advances
<1>5. CASE m # n
    <2>1. epoch'[m] = epoch[m] /\ token'[m] = token[m] /\ sequence'[m] = sequence[m] /\ lease'[m] = lease[m]
        BY <1>0, <1>1, <1>5 DEF TypeOK
    <2> QED
        BY <1>0, <2>1, UntouchedAdvances
<1> QED
    BY <1>4, <1>5

(* No step of any node, and no message however stale, takes an engine or   *)
(* one of its leases back.                                                 *)
THEOREM GenerationsAdvance == Spec => GenerationNeverRegresses
<1>1. ASSUME ConsensusInv, [Next]_vars, NEW m \in Nodes
      PROVE  Advances(m)
    <2>0. TypeOK
        BY <1>1 DEF ConsensusInv
    <2>1. CASE \E n \in Nodes, r \in Resources, p \in Nodes, e \in Epoch, k \in Token,
                  votes \in SUBSET Nodes, members \in Views : request_authority(n, r, p, e, k, votes, members)
        BY <1>1, <2>1, RequestAdvances
    <2>2. CASE \E n \in Nodes, e \in events : apply_event(n, e)
        BY <1>1, <2>2, ApplyAdvances
    <2>3. CASE \E n \in Nodes, S \in SUBSET snapshots : reconcile_partition_healing(n, S)
        BY <1>1, <2>3, HealingAdvances
    <2>4. CASE UNCHANGED engineVars
        BY <2>0, <2>4, UntouchedAdvances DEF engineVars
    <2> QED
        BY <1>1, <2>1, <2>2, <2>3, <2>4 DEF Next, vars, get_snapshot
<1>2. ConsensusInv /\ [Next]_vars =>
          [\A n \in Nodes :
              /\ epoch'[n] >= epoch[n] /\ token'[n] >= token[n] /\ sequence'[n] >= sequence[n]
              /\ \A r \in Resources : ~Newer(lease[n][r], lease'[n][r])]_vars
    BY <1>1 DEF Advances
<1> QED
    BY <1>2, ConsensusSafe, PTL DEF Spec, GenerationNeverRegresses

(* INV-F15-CONS-02 for an engine's own grants: it never gives a resource   *)
(* to a second node within one epoch.                                      *)
THEOREM OneHolderPerEpoch == Spec => NoDualGrant
<1>1. ASSUME ConsensusInv, [Next]_vars, grants' # grants, NEW m \in Nodes, NEW q \in Resources,
             lease[m][q] # NoLease, lease'[m][q].holder # lease[m][q].holder
      PROVE  lease'[m][q].epoch > lease[m][q].epoch
    <2>0. TypeOK
        BY <1>1 DEF ConsensusInv
    <2>1. PICK n \in Nodes, r \in Resources, p \in Nodes, e \in Epoch, k \in Token,
               votes \in SUBSET Nodes, members \in Views : request_authority(n, r, p, e, k, votes, members)
        BY <1>1 DEF Next, vars, apply_event, get_snapshot, reconcile_partition_healing
    <2>2. MayGrant(n, r, p, e, k)
        BY <2>1 DEF request_authority
    <2>3. Max2(epoch[n], e) = e
        BY <2>0, <2>2, GrantedGeneration
    <2>4. lease' = [lease EXCEPT ![n][r] = [holder |-> p, epoch |-> e, token |-> Max2(token[n] + 1, k)]]
        BY <2>1, <2>3 DEF request_authority
    <2>5. m = n /\ q = r
        BY <2>0, <2>4, <1>1 DEF TypeOK
    <2>6. lease'[m][q].holder = p /\ lease'[m][q].epoch = e
        BY <2>0, <2>4, <2>5 DEF TypeOK
    <2>7. lease[m][q].epoch # e /\ epoch[m] <= e
        BY <2>2, <2>5, <2>6, <1>1 DEF MayGrant, SplitBrain
    <2>8. lease[m][q].epoch <= epoch[m]
        BY <1>1 DEF ConsensusInv, LeaseWithinEngine
    <2>9. e \in Nat
        BY ConsensusBounds DEF Epoch
    <2> QED
        BY <2>0, <2>6, <2>7, <2>8, <2>9, GenerationsAreNat
<1>2. ConsensusInv /\ [Next]_vars =>
          [\A n \in Nodes, r \in Resources :
              /\ grants' # grants
              /\ lease[n][r] # NoLease
              /\ lease'[n][r].holder # lease[n][r].holder
              => lease'[n][r].epoch > lease[n][r].epoch]_vars
    BY <1>1
<1> QED
    BY <1>2, ConsensusSafe, PTL DEF Spec, NoDualGrant
=============================================================================
