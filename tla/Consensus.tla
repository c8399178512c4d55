------------------------------ MODULE Consensus ------------------------------
(***************************************************************************)
(* MultiNodeConsensusEngine: one engine per node, each with its own epoch, *)
(* fencing token, sequence and table of leases.  request_authority grants  *)
(* a lease from a proposal that carries its votes, apply_event takes over  *)
(* a grant that another engine announced, reconcile_partition_healing      *)
(* takes over the best of several snapshots.  Events and snapshots travel  *)
(* on a network that loses, repeats, delays and reorders them: events and  *)
(* snapshots hold everything ever sent, and any engine may handle any      *)
(* member at any time or never.                                            *)
(*                                                                         *)
(* Who sends is outside the code: each grant is announced in one           *)
(* AUTHORITY_GRANT event, and a snapshot is what get_snapshot returns at   *)
(* some moment.  grants is history: the leases request_authority granted.  *)
(***************************************************************************)
EXTENDS Naturals, FiniteSets

CONSTANTS
    Nodes,         \* an engine each; also the proposers and voters
    Resources,
    Views,         \* the member sets proposals may carry
    MaxEpoch,      \* bound: target_epoch of a proposal
    MaxToken,      \* bound: target_fencing_token of a proposal
    MaxGrants,     \* bound: leases granted
    MaxSnapshots   \* bound: snapshots sent

ASSUME ConsensusBounds ==
    /\ MaxEpoch \in Nat \ {0}
    /\ MaxToken \in Nat \ {0}
    /\ MaxGrants \in Nat
    /\ MaxSnapshots \in Nat
    /\ Views \subseteq SUBSET Nodes

NoNode == "NoNode"
ASSUME NoNodeIsFresh == NoNode \notin Nodes

VARIABLES
    epoch,      \* current_epoch of each engine
    token,      \* current_fencing_token
    sequence,
    lease,      \* lease[n][r]: active_leases, NoLease where there is none
    processed,  \* processed_event_ids
    events,     \* the events sent
    snapshots,  \* the snapshots sent
    grants      \* history: what was granted

engineVars == <<epoch, token, sequence, lease, processed>>
vars == <<engineVars, events, snapshots, grants>>

NoLease == [holder |-> NoNode, epoch |-> 0, token |-> 0]
Epoch == 1..MaxEpoch
Token == 1..MaxToken
Lease == [holder : Nodes, epoch : Epoch, token : Token]
Event == [granter : Nodes, source : Nodes, resource : Resources, epoch : Epoch, token : Token, sequence : Nat]
Snapshot == [epoch : Epoch, token : Token, sequence : Nat, leases : [Resources -> Lease \cup {NoLease}]]
Grant == [resource : Resources, lease : Lease]

(* Epochs and tokens are always ones that some proposal asked for.         *)
TypeOK ==
    /\ epoch \in [Nodes -> Epoch]
    /\ token \in [Nodes -> Token]
    /\ sequence \in [Nodes -> Nat]
    /\ lease \in [Nodes -> [Resources -> Lease \cup {NoLease}]]
    /\ processed \in [Nodes -> SUBSET Event]
    /\ events \in SUBSET Event
    /\ snapshots \in SUBSET Snapshot
    /\ grants \in SUBSET Grant

Init ==
    /\ epoch = [n \in Nodes |-> 1]
    /\ token = [n \in Nodes |-> 1]
    /\ sequence = [n \in Nodes |-> 0]
    /\ lease = [n \in Nodes |-> [r \in Resources |-> NoLease]]
    /\ processed = [n \in Nodes |-> {}]
    /\ events = {}
    /\ snapshots = {}
    /\ grants = {}

Max2(a, b) == IF a >= b THEN a ELSE b

(* Python's comparison of (epoch, fencing_token) pairs.                    *)
Newer(a, b) == a.epoch > b.epoch \/ (a.epoch = b.epoch /\ a.token > b.token)

-----------------------------------------------------------------------------
(* calculate_quorum, without the override.                                 *)
HasQuorum(votes, members) == Cardinality(votes \cap members) >= (Cardinality(members) \div 2) + 1

(* Mutant: no check for a holder in the proposed epoch.                    *)
SplitBrain_never(n, r, proposer, target_epoch) == FALSE

(* Another node holds the resource in the proposed epoch.                  *)
SplitBrain(n, r, proposer, target_epoch) ==
    /\ lease[n][r] # NoLease
    /\ lease[n][r].holder # proposer
    /\ lease[n][r].epoch = target_epoch

(* Epoch, fencing token and split-brain checks of request_authority.       *)
MayGrant(n, r, proposer, e, k) ==
    /\ e >= epoch[n]
    /\ k > token[n]
    /\ ~SplitBrain(n, r, proposer, e)

(* request_authority on engine n, when it grants; every rejection leaves   *)
(* the engine as it is.  The proposal's connectivity is not UNKNOWN.       *)
request_authority(n, r, proposer, e, k, votes, members) ==
    LET new == [holder |-> proposer, epoch |-> Max2(epoch[n], e), token |-> Max2(token[n] + 1, k)]
    IN  /\ Cardinality(grants) < MaxGrants
        /\ proposer \in members
        /\ MayGrant(n, r, proposer, e, k)
        /\ HasQuorum(votes, members)
        /\ epoch' = [epoch EXCEPT ![n] = new.epoch]
        /\ token' = [token EXCEPT ![n] = new.token]
        /\ sequence' = [sequence EXCEPT ![n] = @ + 1]
        /\ lease' = [lease EXCEPT ![n][r] = new]
        /\ grants' = grants \cup {[resource |-> r, lease |-> new]}
        /\ events' = events \cup {[granter |-> n, source |-> proposer, resource |-> r,
                                   epoch |-> new.epoch, token |-> new.token, sequence |-> sequence[n] + 1]}
        /\ UNCHANGED <<processed, snapshots>>

(* Mutant: the epoch of the event is not compared.                         *)
InOrder_any_epoch(n, e) ==
    /\ e.token >= token[n]
    /\ e.sequence > sequence[n]

(* Neither stale nor out of order for engine n.                            *)
InOrder(n, e) ==
    /\ e.epoch >= epoch[n]
    /\ e.token >= token[n]
    /\ e.sequence > sequence[n]

apply_event(n, e) ==
    LET new == [holder |-> e.source, epoch |-> Max2(epoch[n], e.epoch), token |-> Max2(token[n], e.token)]
    IN  /\ e \notin processed[n]
        /\ InOrder(n, e)
        /\ processed' = [processed EXCEPT ![n] = @ \cup {e}]
        /\ epoch' = [epoch EXCEPT ![n] = new.epoch]
        /\ token' = [token EXCEPT ![n] = new.token]
        /\ sequence' = [sequence EXCEPT ![n] = Max2(@, e.sequence)]
        /\ lease' = [lease EXCEPT ![n][e.resource] = new]
        /\ UNCHANGED <<events, snapshots, grants>>

-----------------------------------------------------------------------------
get_snapshot(n) ==
    /\ Cardinality(snapshots) < MaxSnapshots
    /\ snapshots' = snapshots \cup {[epoch |-> epoch[n], token |-> token[n],
                                     sequence |-> sequence[n], leases |-> lease[n]]}
    /\ UNCHANGED <<engineVars, events, grants>>

(* The best snapshots: greatest by (epoch, fencing_token, sequence).       *)
Best(S) ==
    {s \in S : \A u \in S : ~ (Newer(u, s) \/ (u.epoch = s.epoch /\ u.token = s.token /\ u.sequence > s.sequence))}

(* Mutant: the leases of the snapshot win whatever their generation.       *)
Merged_overwrite(mine, theirs) ==
    [r \in Resources |-> IF theirs[r] # NoLease THEN theirs[r] ELSE mine[r]]

(* Active leases after the merge, favouring the higher generation.         *)
Merged(mine, theirs) ==
    [r \in Resources |->
        IF theirs[r] # NoLease /\ (mine[r] = NoLease \/ Newer(theirs[r], mine[r])) THEN theirs[r] ELSE mine[r]]

reconcile_partition_healing(n, S) ==
    \E best \in Best(S) :
        /\ epoch' = [epoch EXCEPT ![n] = Max2(@, best.epoch)]
        /\ token' = [token EXCEPT ![n] = Max2(@, best.token)]
        /\ sequence' = [sequence EXCEPT ![n] = Max2(@, best.sequence)]
        /\ lease' = [lease EXCEPT ![n] = Merged(@, best.leases)]
        /\ UNCHANGED <<processed, events, snapshots, grants>>

-----------------------------------------------------------------------------
(* Mutant: a caller is stale only when epoch and token are both behind.    *)
validate_authority_lenient(n, r, node, e, k, members) ==
    /\ node \in members
    /\ ~ (e < epoch[n] /\ k < token[n])
    /\ lease[n][r] # NoLease
    /\ lease[n][r].holder = node

(* validate_authority answers AUTHORITY_GRANTED; it changes nothing.       *)
validate_authority(n, r, node, e, k, members) ==
    /\ node \in members
    /\ ~ (e < epoch[n] \/ k < token[n])
    /\ lease[n][r] # NoLease
    /\ lease[n][r].holder = node

-----------------------------------------------------------------------------
Next ==
    \/ \E n \in Nodes, r \in Resources, proposer \in Nodes, e \in Epoch, k \in Token,
          votes \in SUBSET Nodes, members \in Views :
          request_authority(n, r, proposer, e, k, votes, members)
    \/ \E n \in Nodes, e \in events : apply_event(n, e)
    \/ \E n \in Nodes : get_snapshot(n)
    \/ \E n \in Nodes, S \in SUBSET snapshots : reconcile_partition_healing(n, S)

Spec == Init /\ [][Next]_vars

-----------------------------------------------------------------------------
(* Properties.                                                             *)

(* No lease is ever ahead of the engine that lists it, so the comparison   *)
(* with current_epoch and current_fencing_token fences every lease.        *)
LeaseWithinEngine ==
    \A n \in Nodes, r \in Resources : lease[n][r].epoch <= epoch[n] /\ lease[n][r].token <= token[n]

(* Every lease any engine lists, however it came there through lost,       *)
(* repeated, delayed and reordered events and snapshots, is exactly one    *)
(* that request_authority granted for that resource by quorum: the max()   *)
(* of apply_event never invents a generation.                              *)
LeasesWereGranted ==
    \A n \in Nodes, r \in Resources :
        lease[n][r] # NoLease => [resource |-> r, lease |-> lease[n][r]] \in grants

(* INV-F15-CONS-07: an authority older than the lease in force never       *)
(* validates, whichever engine granted it and whenever it is presented.    *)
StaleGrantNeverValidates ==
    \A n \in Nodes, g \in grants, members \in Views :
        validate_authority(n, g.resource, g.lease.holder, g.lease.epoch, g.lease.token, members)
            => ~Newer(lease[n][g.resource], g.lease)

(* INV-F15-CONS-03, 04, 09 and 11: no message, however late or stale,      *)
(* takes an engine or one of its leases back to an older generation.       *)
GenerationNeverRegresses ==
    [][\A n \in Nodes :
          /\ epoch'[n] >= epoch[n] /\ token'[n] >= token[n] /\ sequence'[n] >= sequence[n]
          /\ \A r \in Resources : ~Newer(lease[n][r], lease'[n][r])]_vars

(* INV-F15-CONS-02 and 14, for the engine's own decisions: it moves a      *)
(* resource to another holder within an epoch only on another engine's     *)
(* word, never by granting a proposal of its own.                          *)
NoDualGrant ==
    [][\A n \in Nodes, r \in Resources :
          /\ grants' # grants
          /\ lease[n][r] # NoLease
          /\ lease'[n][r].holder # lease[n][r].holder
          => lease'[n][r].epoch > lease[n][r].epoch]_vars
=============================================================================
