------------------------ MODULE EventPublisherProofs ------------------------
(***************************************************************************)
(* What poll_and_publish guarantees for every set of events, every number  *)
(* of publishers and every limit.                                          *)
(*                                                                         *)
(* The properties are about committed rows, and a commit copies a draft    *)
(* into them, so the inductive invariant says the same of the drafts and   *)
(* of what a process remembers, and that a drafted row is PENDING and      *)
(* locked by one publisher: that is what makes a stale mark_failed         *)
(* impossible.  How often a handler can see an event is counted by the     *)
(* processes that remember it and the ones that died.                      *)
(***************************************************************************)
EXTENDS EventPublisher, FiniteSetTheorems, TLAPS

RowsAreLocked ==
    /\ \A p \in Publishers, e \in Events : draft[p][e] # "none" => status[e] = "PENDING"
    /\ \A p, q \in Publishers, e \in Events : draft[p][e] # "none" /\ draft[q][e] # "none" => p = q

(* What can have put e among the processed events of some publisher.       *)
Passed(e) == delivered[e] > 0 \/ e \in unheard

PassedFirst ==
    /\ \A p \in Publishers, e \in Events : e \in processed[p] => Passed(e)
    /\ \A p \in Publishers, e \in Events : draft[p][e] = "PUBLISHED" => Passed(e)
    /\ DeliveredUnlessUnheard

AttemptsCounted ==
    /\ \A e \in Events : status[e] = "NONE" => count[e] = 0
    /\ \A p \in Publishers, e \in Events : /\ draft[p][e] = "PENDING" => count[e] + 1 < MaxAttempts
                                           /\ draft[p][e] = "FAILED" => count[e] + 1 = MaxAttempts
    /\ GivenUpWhenExhausted

IInv == TypeOK /\ RowsAreLocked /\ PassedFirst /\ AttemptsCounted

USE PublisherAssumption

(* The invariant holds at the start,                                       *)
LEMMA InitIInv == Init => IInv
  BY DEF Init, IInv, TypeOK, RowsAreLocked, PassedFirst, AttemptsCounted, DeliveredUnlessUnheard,
         GivenUpWhenExhausted, NoDraft, Committed, Draft

(* in every step                                                           *)
LEMMA StepIInv == IInv /\ [Next]_vars => IInv'
  <1> SUFFICES ASSUME IInv, [Next]_vars PROVE IInv'
    OBVIOUS
  <1> USE DEF IInv, TypeOK, Committed, Draft
  <1>1. ASSUME NEW e \in Events, stage_event(e) PROVE IInv'
    <2> USE <1>1 DEF stage_event
    <2>1. TypeOK'
      OBVIOUS
    <2>2. RowsAreLocked'
      BY DEF RowsAreLocked
    <2>3. PassedFirst'
      BY DEF PassedFirst, Passed, DeliveredUnlessUnheard
    <2>4. AttemptsCounted'
      BY DEF AttemptsCounted, GivenUpWhenExhausted
    <2> QED BY <2>1, <2>2, <2>3, <2>4
  <1>2. ASSUME NEW p \in Publishers, claim_pending_events(p) PROVE IInv'
    <2>1. PICK S \in SUBSET Claimable :
            draft' = [draft EXCEPT ![p] = [e \in Events |-> IF e \in S THEN "CLAIMED" ELSE "none"]]
      BY <1>2 DEF claim_pending_events
    <2>2. UNCHANGED <<status, count, processed, delivered, unheard, aborts, crashes>> /\ handler' \in [Publishers -> BOOLEAN]
      BY <1>2 DEF claim_pending_events
    <2>3. TypeOK'
      BY <2>1, <2>2
    <2>4. \A e \in S : status[e] = "PENDING" /\ \A q \in Publishers : draft[q][e] = "none"
      BY DEF Claimable, Locked
    <2>5. \A q \in Publishers, e \in Events :
            draft'[q][e] = draft[q][e] \/ (q = p /\ e \in S /\ draft'[q][e] = "CLAIMED") \/ draft'[q][e] = "none"
      BY <2>1
    <2>6. RowsAreLocked'
      BY <2>2, <2>4, <2>5 DEF RowsAreLocked
    <2>7. PassedFirst'
      BY <2>2, <2>5 DEF PassedFirst, Passed, DeliveredUnlessUnheard
    <2>8. AttemptsCounted'
      BY <2>2, <2>5 DEF AttemptsCounted, GivenUpWhenExhausted
    <2> QED BY <2>3, <2>6, <2>7, <2>8
  <1>3. ASSUME NEW p \in Publishers, NEW e \in Events,
               skip_processed(p, e) \/ publish(p, e) \/ mark_failed(p, e)
        PROVE  IInv'
    <2>1. PICK new \in {"PUBLISHED", "PENDING", "FAILED"} : Write(p, e, new)
      BY <1>3 DEF skip_processed, publish, mark_failed, AfterFailure
    <2>2. NextEvent(p, e) /\ UNCHANGED <<status, count, aborts, crashes>>
      BY <1>3 DEF skip_processed, publish, mark_failed
    <2>3. /\ draft[p][e] = "CLAIMED"
          /\ draft' = [draft EXCEPT ![p][e] = new]
      BY <2>1, <2>2 DEF NextEvent, Write
    <2>4. /\ processed' \in [Publishers -> SUBSET Events]
          /\ delivered' \in [Events -> Nat] /\ unheard' \subseteq Events /\ handler' = handler
          /\ \A f \in Events : Passed(f) => Passed(f)'
          /\ \A q \in Publishers, f \in Events : f \in processed'[q] => f \in processed[q] \/ Passed(f)'
      <3>1. CASE UNCHANGED <<processed, delivered, unheard, handler>>
        BY <3>1 DEF Passed
      <3>2. ASSUME publish(p, e), handler[p]
            PROVE  /\ processed' = [processed EXCEPT ![p] = @ \cup {e}] /\ handler' = handler
                   /\ delivered' = [delivered EXCEPT ![e] = @ + 1] /\ unheard' = unheard
        BY <3>2 DEF publish, Hand
      <3>3. ASSUME publish(p, e), ~handler[p]
            PROVE  /\ processed' = [processed EXCEPT ![p] = @ \cup {e}] /\ handler' = handler
                   /\ delivered' = delivered /\ unheard' = unheard \cup {e}
        BY <3>3 DEF publish, Hand
      <3>4. CASE publish(p, e) /\ handler[p]
        <4>1. \A f \in Events : Passed(f) => Passed(f)'
          BY <3>2, <3>4 DEF Passed
        <4>2. Passed(e)'
          BY <3>2, <3>4 DEF Passed
        <4>a. processed' = [processed EXCEPT ![p] = @ \cup {e}] /\ delivered' = [delivered EXCEPT ![e] = @ + 1] /\ unheard' = unheard
          BY <3>2, <3>4
        <4>3. processed' \in [Publishers -> SUBSET Events] /\ delivered' \in [Events -> Nat] /\ unheard' \subseteq Events
          BY <4>a
        <4>4. \A q \in Publishers, f \in Events : f \in processed'[q] => f \in processed[q] \/ f = e
          BY <3>2, <3>4
        <4> QED BY <3>2, <3>4, <4>1, <4>2, <4>3, <4>4
      <3>5. CASE publish(p, e) /\ ~handler[p]
        <4>1. \A f \in Events : Passed(f) => Passed(f)'
          BY <3>3, <3>5 DEF Passed
        <4>2. Passed(e)'
          BY <3>3, <3>5 DEF Passed
        <4>a. processed' = [processed EXCEPT ![p] = @ \cup {e}] /\ delivered' = delivered /\ unheard' = unheard \cup {e}
          BY <3>3, <3>5
        <4>3. processed' \in [Publishers -> SUBSET Events] /\ delivered' \in [Events -> Nat] /\ unheard' \subseteq Events
          BY <4>a
        <4>4. \A q \in Publishers, f \in Events : f \in processed'[q] => f \in processed[q] \/ f = e
          BY <3>3, <3>5
        <4> QED BY <3>3, <3>5, <4>1, <4>2, <4>3, <4>4
      <3> QED BY <1>3, <3>1, <3>4, <3>5 DEF skip_processed, mark_failed
    <2>5. TypeOK'
      BY <2>2, <2>3, <2>4
    <2>6. RowsAreLocked'
      BY <2>2, <2>3 DEF RowsAreLocked
    <2>7. new = "PUBLISHED" => Passed(e)'
      <3>1. CASE skip_processed(p, e)
        BY <3>1 DEF skip_processed, PassedFirst, Passed
      <3>2. CASE publish(p, e)
        BY <3>2 DEF publish, Hand, Passed
      <3>3. CASE mark_failed(p, e)
        <4>1. draft'[p][e] = AfterFailure(e)
          BY <3>3 DEF mark_failed, Write
        <4>2. draft'[p][e] = new
          BY <2>3
        <4> QED BY <4>1, <4>2 DEF AfterFailure
      <3> QED BY <1>3, <3>1, <3>2, <3>3
    <2>8. PassedFirst'
      BY <2>2, <2>3, <2>4, <2>7 DEF PassedFirst, Passed, DeliveredUnlessUnheard
    <2>9. /\ new = "PENDING" => count[e] + 1 < MaxAttempts
          /\ new = "FAILED" => count[e] + 1 = MaxAttempts
      <3>1. draft'[p][e] = new /\ count[e] \in Nat /\ count[e] < MaxAttempts
        BY <2>3 DEF RowsAreLocked, AttemptsCounted, GivenUpWhenExhausted
      <3>2. new = "PUBLISHED" \/ new = AfterFailure(e)
        <4>1. CASE skip_processed(p, e)
          BY <4>1, <3>1 DEF skip_processed, Write
        <4>2. CASE publish(p, e)
          BY <4>2, <3>1 DEF publish, Write
        <4>3. CASE mark_failed(p, e)
          BY <4>3, <3>1 DEF mark_failed, Write
        <4> QED BY <1>3, <4>1, <4>2, <4>3
      <3> QED BY <3>1, <3>2 DEF AfterFailure
    <2>10. AttemptsCounted'
      BY <2>2, <2>3, <2>9 DEF AttemptsCounted, GivenUpWhenExhausted
    <2> QED BY <2>5, <2>6, <2>8, <2>10
  <1>4. ASSUME NEW p \in Publishers, commit(p) PROVE IInv'
    <2> USE <1>4 DEF commit, EndPoll
    <2>1. TypeOK'
      BY DEF NoDraft
    <2>2. \A q \in Publishers, e \in Events :
            draft'[q][e] # "none" => /\ q # p
                                     /\ draft'[q][e] = draft[q][e]
                                     /\ draft[p][e] = "none"
      BY DEF NoDraft, RowsAreLocked
    <2>3. RowsAreLocked'
      BY <2>2 DEF RowsAreLocked
    <2>4. PassedFirst'
      BY <2>2 DEF PassedFirst, Passed, DeliveredUnlessUnheard
    <2>5. AttemptsCounted'
      BY <2>2 DEF AttemptsCounted, GivenUpWhenExhausted, RowsAreLocked
    <2> QED BY <2>1, <2>3, <2>4, <2>5
  <1>5. ASSUME NEW p \in Publishers, rollback(p) \/ crash(p) PROVE IInv'
    <2>1. /\ UNCHANGED <<status, count, delivered, unheard>>
          /\ draft' = [draft EXCEPT ![p] = NoDraft]
          /\ processed' = processed \/ processed' = [processed EXCEPT ![p] = {}]
          /\ aborts' \in Nat /\ crashes' \in Nat /\ handler' \in [Publishers -> BOOLEAN]
      <3>1. CASE rollback(p)
        BY <3>1 DEF rollback, EndPoll
      <3>2. CASE crash(p)
        BY <3>2 DEF crash, EndPoll
      <3> QED BY <1>5, <3>1, <3>2
    <2>2. TypeOK'
      BY <2>1 DEF NoDraft
    <2>3. /\ \A q \in Publishers, e \in Events : draft'[q][e] = "none" \/ draft'[q][e] = draft[q][e]
          /\ \A q \in Publishers : processed'[q] \subseteq processed[q]
      BY <2>1 DEF NoDraft
    <2>4. RowsAreLocked'
      BY <2>1, <2>3 DEF RowsAreLocked
    <2>5. PassedFirst'
      BY <2>1, <2>3 DEF PassedFirst, Passed, DeliveredUnlessUnheard
    <2>6. AttemptsCounted'
      BY <2>1, <2>3 DEF AttemptsCounted, GivenUpWhenExhausted
    <2> QED BY <2>2, <2>4, <2>5, <2>6
  <1>6. CASE UNCHANGED vars
    BY <1>6 DEF vars, RowsAreLocked, PassedFirst, Passed, AttemptsCounted, DeliveredUnlessUnheard, GivenUpWhenExhausted
  <1> QED
    BY <1>1, <1>2, <1>3, <1>4, <1>5, <1>6 DEF Next, PublisherNext

(* and so always.                                                          *)
LEMMA IInvHolds == Spec => []IInv
  BY InitIInv, StepIInv, PTL DEF Spec

(* Type correctness of the outbox rows and of the publishers' memory.      *)
THEOREM TypeCorrect == Spec => []TypeOK
  <1>1. IInv => TypeOK
    BY DEF IInv
  <1> QED BY IInvHolds, <1>1, PTL

(* No event is PUBLISHED that neither a handler took nor a poll without a  *)
(* handler went through, for any number of publishers, rollbacks and       *)
(* crashes (poll_and_publish, whose handler is None by default).           *)
THEOREM PublishedWasPassed == Spec => []DeliveredUnlessUnheard
  <1>1. IInv => DeliveredUnlessUnheard
    BY DEF IInv, PassedFirst
  <1> QED BY IInvHolds, <1>1, PTL

(* FAILED means exactly max_attempts recorded failures (mark_failed).      *)
THEOREM FailureBudget == Spec => []GivenUpWhenExhausted
  <1>1. IInv => GivenUpWhenExhausted
    BY DEF IInv, AttemptsCounted
  <1> QED BY IInvHolds, <1>1, PTL

(* No publisher rewrites a row that another one has settled, although      *)
(* mark_failed does not check the claim.                                   *)
THEOREM SettledStays == Spec => SettledIsFinal
  <1>1. IInv /\ [Next]_vars =>
          [\A e \in Events : status[e] \in {"PUBLISHED", "FAILED"} => UNCHANGED <<status[e], count[e]>>]_vars
    <2> SUFFICES ASSUME IInv, Next, NEW e \in Events, status[e] \in {"PUBLISHED", "FAILED"}
                 PROVE  UNCHANGED <<status[e], count[e]>>
      OBVIOUS
    <2>1. \A p \in Publishers : draft[p][e] = "none"
      BY DEF IInv, RowsAreLocked
    <2>2. ASSUME NEW f \in Events, stage_event(f) PROVE UNCHANGED <<status[e], count[e]>>
      BY <2>2 DEF stage_event, IInv, TypeOK
    <2>3. ASSUME NEW p \in Publishers, commit(p) PROVE UNCHANGED <<status[e], count[e]>>
      BY <2>1, <2>3 DEF commit
    <2>4. ASSUME NEW p \in Publishers, PublisherNext(p), ~commit(p) PROVE UNCHANGED <<status[e], count[e]>>
      BY <2>4 DEF PublisherNext, claim_pending_events, rollback, crash, skip_processed, publish, mark_failed
    <2> QED BY <2>2, <2>3, <2>4 DEF Next
  <1> QED BY IInvHolds, <1>1, PTL DEF Spec, SettledIsFinal

-----------------------------------------------------------------------------
(* The processes that remember e.                                          *)
Knowing(e) == {p \in Publishers : e \in processed[p]}

(* Every delivery is remembered, or its process died.                      *)
DeliveriesRemembered == \A e \in Events : delivered[e] <= Cardinality(Knowing(e)) + crashes

(* There are no more such processes than publishers.                       *)
LEMMA KnowingIsFinite ==
  ASSUME NEW e
  PROVE  IsFiniteSet(Knowing(e)) /\ Cardinality(Knowing(e)) \in Nat /\ Cardinality(Knowing(e)) <= Cardinality(Publishers)
<1>1. Knowing(e) \subseteq Publishers /\ IsFiniteSet(Publishers)
  BY PublisherAssumption DEF Knowing
<1> QED
  BY <1>1, FS_Subset, FS_CardinalityType

(* A handler takes e only from a process that did not know it; only a      *)
(* crash forgets.                                                          *)
LEMMA DeliveriesStep ==
  ASSUME TypeOK, DeliveriesRemembered, [Next]_vars
  PROVE  DeliveriesRemembered'
<1> SUFFICES ASSUME NEW e \in Events PROVE delivered'[e] <= Cardinality(Knowing(e)') + crashes'
  BY DEF DeliveriesRemembered
<1>0. /\ delivered[e] \in Nat /\ crashes \in Nat /\ processed \in [Publishers -> SUBSET Events]
      /\ delivered[e] <= Cardinality(Knowing(e)) + crashes
      /\ Cardinality(Knowing(e)) \in Nat /\ IsFiniteSet(Knowing(e))
  BY KnowingIsFinite DEF TypeOK, DeliveriesRemembered
<1>1. CASE UNCHANGED <<processed, delivered, crashes>>
  BY <1>0, <1>1 DEF Knowing
<1>2. ASSUME NEW p \in Publishers, NEW f \in Events, publish(p, f)
      PROVE  delivered'[e] <= Cardinality(Knowing(e)') + crashes'
  <2>1. /\ f \notin processed[p] /\ crashes' = crashes
        /\ delivered' = [delivered EXCEPT ![f] = @ + 1] \/ delivered' = delivered
        /\ processed' = [processed EXCEPT ![p] = @ \cup {f}]
    BY <1>2 DEF publish, Hand
  <2>2. CASE e = f
    <3>1. Knowing(e)' = Knowing(e) \cup {p} /\ p \notin Knowing(e)
      BY <1>0, <2>1, <2>2 DEF Knowing
    <3>2. Cardinality(Knowing(e) \cup {p}) = Cardinality(Knowing(e)) + 1
      BY <1>0, <3>1, FS_AddElement
    <3>3. delivered'[e] \in {delivered[e], delivered[e] + 1}
      BY <2>1, <2>2 DEF TypeOK
    <3> QED
      BY <1>0, <2>1, <3>1, <3>2, <3>3
  <2>3. CASE e # f
    <3>1. Knowing(e)' = Knowing(e)
      BY <1>0, <2>1, <2>3 DEF Knowing
    <3>2. delivered'[e] = delivered[e]
      BY <2>1, <2>3 DEF TypeOK
    <3> QED
      BY <1>0, <2>1, <3>1, <3>2
  <2> QED
    BY <2>2, <2>3
<1>3. ASSUME NEW p \in Publishers, crash(p)
      PROVE  delivered'[e] <= Cardinality(Knowing(e)') + crashes'
  <2>1. crashes' = crashes + 1 /\ delivered' = delivered /\ processed' = [processed EXCEPT ![p] = {}]
    BY <1>3 DEF crash
  <2>2. Knowing(e)' = Knowing(e) \ {p}
    BY <1>0, <2>1 DEF Knowing
  <2>a. Cardinality(Knowing(e) \ {p}) = IF p \in Knowing(e) THEN Cardinality(Knowing(e)) - 1 ELSE Cardinality(Knowing(e))
    BY <1>0, FS_RemoveElement
  <2>3. Cardinality(Knowing(e) \ {p}) \in Int /\ Cardinality(Knowing(e) \ {p}) + 1 >= Cardinality(Knowing(e))
    BY <1>0, <2>a
  <2> QED
    BY <1>0, <2>1, <2>2, <2>3
<1> QED
  BY <1>1, <1>2, <1>3 DEF Next, PublisherNext, stage_event, claim_pending_events, skip_processed, mark_failed, commit, rollback, vars

(* A process hands an event to the handler once, however often its polls   *)
(* are rolled back: every delivery beyond one per publisher is paid for by *)
(* a process that died and forgot it (_processed_event_ids).               *)
THEOREM DeliveredOncePerProcess == Spec => []OncePerProcess
<1>1. Init => DeliveriesRemembered
  <2> SUFFICES ASSUME Init, NEW e \in Events PROVE delivered[e] <= Cardinality(Knowing(e)) + crashes
    BY DEF DeliveriesRemembered
  <2>1. delivered[e] = 0 /\ crashes = 0
    BY DEF Init
  <2> QED
    BY <2>1, KnowingIsFinite
<1>2. TypeOK /\ DeliveriesRemembered => OncePerProcess
  <2> SUFFICES ASSUME TypeOK, DeliveriesRemembered, NEW e \in Events PROVE delivered[e] <= Cardinality(Publishers) + crashes
    BY DEF OncePerProcess
  <2>1. /\ delivered[e] \in Nat /\ crashes \in Nat /\ Cardinality(Publishers) \in Nat
        /\ delivered[e] <= Cardinality(Knowing(e)) + crashes
    BY PublisherAssumption, FS_CardinalityType DEF TypeOK, DeliveriesRemembered
  <2> QED
    BY <2>1, KnowingIsFinite
<1> QED
  BY <1>1, <1>2, DeliveriesStep, TypeCorrect, PTL DEF Spec
=============================================================================
