--------------------------- MODULE EventPublisher ---------------------------
(***************************************************************************)
(* ReliableEventPublisher.poll_and_publish over outbox_events.             *)
(*                                                                         *)
(* A poll is ONE transaction: claim_pending_events locks PENDING rows with *)
(* FOR UPDATE SKIP LOCKED, the handler is called for each of them, and     *)
(* mark_published or mark_failed writes the outcome; all of it becomes     *)
(* visible at the commit.  draft[p] is what the open transaction of        *)
(* publisher p has written: a row p holds locked is one it has a draft of. *)
(* The handler's effect and _processed_event_ids are outside the           *)
(* transaction and survive its rollback.                                   *)
(*                                                                         *)
(* The handler is an argument of the poll and may be None, its default: a  *)
(* poll without one publishes and remembers what nobody has taken.         *)
(* `unheard` keeps the events this has happened to.                        *)
(*                                                                         *)
(* Events are numbered in the order of created_at, which within a task is  *)
(* the order of aggregate_sequence.                                        *)
(***************************************************************************)
EXTENDS Naturals, FiniteSets

CONSTANTS
    Events,
    TaskOf,        \* aggregate_id of each event
    Publishers,
    Limit,         \* limit of a poll
    MaxAttempts,   \* max_attempts of mark_failed
    MaxFaults      \* bound: how many transactions roll back or processes die

ASSUME PublisherAssumption ==
    /\ Events \subseteq Nat
    /\ IsFiniteSet(Publishers)
    /\ Limit \in Nat \ {0}
    /\ MaxAttempts \in Nat \ {0}
    /\ MaxFaults \in Nat

VARIABLES
    status,     \* committed status of the row, "NONE" before it is staged
    count,      \* attempt_count
    draft,      \* the uncommitted status of each row in p's transaction
    handler,    \* whether the poll of publisher p was given a handler
    processed,  \* _processed_event_ids of publisher p's process
    delivered,  \* how often a handler has taken the event
    unheard,    \* events that a poll without a handler has gone through
    aborts,     \* rollbacks so far
    crashes     \* process deaths so far

vars == <<status, count, draft, handler, processed, delivered, unheard, aborts, crashes>>

Committed == {"NONE", "PENDING", "PUBLISHED", "FAILED"}
Draft == {"none", "CLAIMED", "PENDING", "PUBLISHED", "FAILED"}

TypeOK ==
    /\ status \in [Events -> Committed]
    /\ count \in [Events -> Nat]
    /\ draft \in [Publishers -> [Events -> Draft]]
    /\ handler \in [Publishers -> BOOLEAN]
    /\ processed \in [Publishers -> SUBSET Events]
    /\ delivered \in [Events -> Nat]
    /\ unheard \subseteq Events
    /\ aborts \in Nat
    /\ crashes \in Nat

NoDraft == [e \in Events |-> "none"]

Init ==
    /\ status = [e \in Events |-> "NONE"]
    /\ count = [e \in Events |-> 0]
    /\ draft = [p \in Publishers |-> NoDraft]
    /\ handler = [p \in Publishers |-> FALSE]
    /\ processed = [p \in Publishers |-> {}]
    /\ delivered = [e \in Events |-> 0]
    /\ unheard = {}
    /\ aborts = 0
    /\ crashes = 0

Locked(e) == \E p \in Publishers : draft[p][e] # "none"

(* The transaction of a task transition commits its event.                 *)
stage_event(e) ==
    /\ status[e] = "NONE"
    /\ \A f \in Events : f < e => status[f] # "NONE"
    /\ status' = [status EXCEPT ![e] = "PENDING"]
    /\ UNCHANGED <<count, draft, handler, processed, delivered, unheard, aborts, crashes>>

(* Mutant: the rows are read without a lock.                               *)
Claimable_unlocked == {e \in Events : status[e] = "PENDING"}

Claimable == {e \in Events : status[e] = "PENDING" /\ ~Locked(e)}

(* The oldest rows that are free, at most Limit of them.                   *)
claim_pending_events(p) ==
    /\ draft[p] = NoDraft
    /\ \E S \in SUBSET Claimable :
          /\ S # {}
          /\ Cardinality(S) <= Limit
          /\ Cardinality(S) = Limit \/ S = Claimable
          /\ \A e \in S, f \in Claimable \ S : e < f
          /\ draft' = [draft EXCEPT ![p] = [e \in Events |-> IF e \in S THEN "CLAIMED" ELSE "none"]]
    /\ \E given \in BOOLEAN : handler' = [handler EXCEPT ![p] = given]
    /\ UNCHANGED <<status, count, processed, delivered, unheard, aborts, crashes>>

(* The event that the loop of poll_and_publish reaches next.               *)
NextEvent(p, e) ==
    /\ draft[p][e] = "CLAIMED"
    /\ \A f \in Events : draft[p][f] = "CLAIMED" => e <= f

Write(p, e, new) == draft' = [draft EXCEPT ![p][e] = new]

(* Already handled by this process: published without calling the handler. *)
skip_processed(p, e) ==
    /\ NextEvent(p, e)
    /\ e \in processed[p]
    /\ Write(p, e, "PUBLISHED")
    /\ UNCHANGED <<status, count, handler, processed, delivered, unheard, aborts, crashes>>

(* The handler takes the event; without one there is nothing to call.      *)
Hand(p, e) ==
    \/ /\ handler[p]
       /\ delivered' = [delivered EXCEPT ![e] = @ + 1]
       /\ UNCHANGED unheard
    \/ /\ ~handler[p]
       /\ unheard' = unheard \cup {e}
       /\ UNCHANGED delivered

(* Mutant: the event is not remembered as processed.                       *)
publish_forgetful(p, e) ==
    /\ NextEvent(p, e)
    /\ e \notin processed[p]
    /\ Hand(p, e)
    /\ Write(p, e, "PUBLISHED")
    /\ UNCHANGED <<status, count, handler, processed, aborts, crashes>>

publish(p, e) ==
    /\ NextEvent(p, e)
    /\ e \notin processed[p]
    /\ Hand(p, e)
    /\ processed' = [processed EXCEPT ![p] = @ \cup {e}]
    /\ Write(p, e, "PUBLISHED")
    /\ UNCHANGED <<status, count, handler, aborts, crashes>>

(* Mutant: one attempt too many.                                           *)
AfterFailure_late(e) == IF count[e] + 1 > MaxAttempts THEN "FAILED" ELSE "PENDING"

AfterFailure(e) == IF count[e] + 1 >= MaxAttempts THEN "FAILED" ELSE "PENDING"

(* Mutant: the event is remembered before the handler has taken it.        *)
mark_failed_remembers(p, e) ==
    /\ NextEvent(p, e)
    /\ handler[p]
    /\ e \notin processed[p]
    /\ processed' = [processed EXCEPT ![p] = @ \cup {e}]
    /\ Write(p, e, AfterFailure(e))
    /\ UNCHANGED <<status, count, handler, delivered, unheard, aborts, crashes>>

(* The handler raises: attempt_count + 1, and PENDING again or FAILED.     *)
mark_failed(p, e) ==
    /\ NextEvent(p, e)
    /\ handler[p]
    /\ e \notin processed[p]
    /\ Write(p, e, AfterFailure(e))
    /\ UNCHANGED <<status, count, handler, processed, delivered, unheard, aborts, crashes>>

(* The argument is gone with the call.                                     *)
EndPoll(p) ==
    /\ draft' = [draft EXCEPT ![p] = NoDraft]
    /\ handler' = [handler EXCEPT ![p] = FALSE]

commit(p) ==
    /\ draft[p] # NoDraft
    /\ \A e \in Events : draft[p][e] # "CLAIMED"
    /\ status' = [e \in Events |-> IF draft[p][e] = "none" THEN status[e] ELSE draft[p][e]]
    /\ count' = [e \in Events |-> IF draft[p][e] \in {"PENDING", "FAILED"} THEN count[e] + 1 ELSE count[e]]
    /\ EndPoll(p)
    /\ UNCHANGED <<processed, delivered, unheard, aborts, crashes>>

(* session_scope rolls back; the process and what it remembers live on.    *)
rollback(p) ==
    /\ draft[p] # NoDraft
    /\ aborts + crashes < MaxFaults
    /\ EndPoll(p)
    /\ aborts' = aborts + 1
    /\ UNCHANGED <<status, count, processed, delivered, unheard, crashes>>

(* The publisher process dies and is started again.                        *)
crash(p) ==
    /\ aborts + crashes < MaxFaults
    /\ EndPoll(p)
    /\ processed' = [processed EXCEPT ![p] = {}]
    /\ crashes' = crashes + 1
    /\ UNCHANGED <<status, count, delivered, unheard, aborts>>

PublisherNext(p) ==
    \/ claim_pending_events(p) \/ commit(p) \/ rollback(p) \/ crash(p)
    \/ \E e \in Events : skip_processed(p, e) \/ publish(p, e) \/ mark_failed(p, e)

Next ==
    \/ \E e \in Events : stage_event(e)
    \/ \E p \in Publishers : PublisherNext(p)

Spec == Init /\ [][Next]_vars

-----------------------------------------------------------------------------
(* Properties.                                                             *)

(* publisher.py:4 (INV-F8-EVENT-02), as far as it goes: an event is        *)
(* PUBLISHED only if a handler took it or a poll without a handler went    *)
(* through it, also when that poll was rolled back and a later one found   *)
(* the event in _processed_event_ids: a failure, a rollback or a crash     *)
(* alone never makes an undelivered event PUBLISHED.                       *)
DeliveredUnlessUnheard ==
    \A e \in Events : status[e] = "PUBLISHED" => delivered[e] > 0 \/ e \in unheard

(* The deduplication half: a process hands an event to the handler once,   *)
(* however often its polls are rolled back.                                *)
OncePerProcess ==
    \A e \in Events : delivered[e] <= Cardinality(Publishers) + crashes

(* An event is given up after exactly max_attempts failures, and none that *)
(* failed that often is tried again (mark_failed).                         *)
GivenUpWhenExhausted ==
    \A e \in Events : /\ status[e] = "FAILED" => count[e] = MaxAttempts
                      /\ status[e] = "PENDING" => count[e] < MaxAttempts

(* PUBLISHED and FAILED rows are never written again.  mark_failed asks    *)
(* neither for the claim nor for the status, so this rests on the row      *)
(* locks of claim_pending_events (INV-F8-PUBLISH-04).                      *)
SettledIsFinal ==
    [][\A e \in Events : status[e] \in {"PUBLISHED", "FAILED"} => UNCHANGED <<status[e], count[e]>>]_vars
=============================================================================
