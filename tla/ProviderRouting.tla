--------------------------- MODULE ProviderRouting ---------------------------
(***************************************************************************)
(* Provider selection and the circuit breaker: ProviderRouter              *)
(* (ai/router.py), ProviderCircuitBreaker (ai/circuit_breaker.py), its     *)
(* persisted rows (ai/circuit_repository.py) and the part of               *)
(* ProviderExecutionService.execute that feeds results back.               *)
(*                                                                         *)
(* The threads of one process share the breaker; every breaker method      *)
(* holds its lock, so a method is one step and what a thread decides from  *)
(* it is used in a later one.  Requests of different budgets are not       *)
(* serialised by anything else (AIExecution).  Time is seen through two    *)
(* facts per circuit: whether the cooldown since opened_at has elapsed,    *)
(* and whether cooldown_until lies ahead.                                  *)
(***************************************************************************)
EXTENDS Naturals, Sequences, FiniteSets, FailureClassifier

CONSTANTS
    Threads,       \* threads that execute requests
    Registry,      \* registry.list_all(): the providers, a sequence
    Rank,          \* [providers -> Nat]: sort_key of a descriptor
    Policies,      \* for each policy, the providers that pass stages 6 and 7
    WindowSize,    \* failure_window_size
    MinSamples,    \* min_samples
    Threshold,     \* failure_threshold in percent
    MaxProbes,     \* half_open_max_probes
    MaxFaults,     \* bound on restarts and health changes
    NoProvider     \* no provider

Providers == {Registry[i] : i \in 1 .. Len(Registry)}

ASSUME RoutingAssumption ==
    /\ IsFiniteSet(Threads) /\ Registry \in Seq(Providers)
    /\ Rank \in [Providers -> Nat] /\ Policies \subseteq SUBSET Providers
    /\ WindowSize \in Nat \ {0} /\ MinSamples \in Nat \ {0}
    /\ Threshold \in 1 .. 100 /\ MaxProbes \in Nat \ {0}
    /\ MaxFaults \in Nat /\ NoProvider \notin Providers

VARIABLES
    circuit,    \* ProviderCircuitState of each provider, in memory
    saved,      \* its row of ai_circuit_states
    healthy,    \* health stage of the router passes
    pc,         \* where a thread is
    at,         \* next registry index a routing thread looks at
    want,       \* providers its policy accepts
    found,      \* candidates so far
    using,      \* the provider it calls
    export,     \* the circuit data it is about to save
    faults,     \* restarts and health changes so far
    probing     \* history: half-open admissions of the current period

routerVars == <<at, want, found>>
vars == <<circuit, saved, healthy, pc, routerVars, using, export, probing, faults>>

-----------------------------------------------------------------------------
(* Circuit state.  The window is read in CLOSED only and cleared on the    *)
(* way back to CLOSED, so it is kept empty in the other two states.        *)

Fresh == [state |-> "CLOSED", failures |-> <<>>, elapsed |-> FALSE,
          cooling |-> FALSE, probes |-> 0]

Opened(c) == [c EXCEPT !.state = "OPEN", !.failures = <<>>, !.elapsed = FALSE, !.probes = 0]
Closed(c) == [c EXCEPT !.state = "CLOSED", !.failures = <<>>, !.elapsed = FALSE, !.probes = 0]

(* Mutant: an open circuit stays open. *)
AfterCooldown_latched(c) == c

(* OPEN -> HALF_OPEN once the cooldown has elapsed: the first lines of     *)
(* get_state, is_open, record_success and record_failure.                  *)
AfterCooldown(c) ==
    IF c.state = "OPEN" /\ c.elapsed
    THEN [c EXCEPT !.state = "HALF_OPEN", !.elapsed = FALSE, !.probes = 0]
    ELSE c

Push(window, failed) ==
    LET w == Append(window, failed)
    IN  IF Len(w) > WindowSize THEN Tail(w) ELSE w

Failures(window) == Cardinality({i \in 1 .. Len(window) : window[i]})

(* Mutant: one probe too many. *)
is_open_eager(c) ==
    LET d == AfterCooldown(c)
    IN  IF c.cooling THEN [open |-> TRUE, circuit |-> c]
        ELSE IF d.state = "HALF_OPEN" /\ d.probes <= MaxProbes
             THEN [open |-> FALSE, circuit |-> [d EXCEPT !.probes = @ + 1]]
             ELSE [open |-> d.state # "CLOSED", circuit |-> d]

(* is_open: the answer and the circuit it leaves behind. *)
is_open(c) ==
    LET d == AfterCooldown(c)
    IN  IF c.cooling THEN [open |-> TRUE, circuit |-> c]
        ELSE IF d.state = "HALF_OPEN" /\ d.probes < MaxProbes
             THEN [open |-> FALSE, circuit |-> [d EXCEPT !.probes = @ + 1]]
             ELSE [open |-> d.state # "CLOSED", circuit |-> d]

record_success(c) ==
    LET d == AfterCooldown(c)
    IN  CASE d.state = "HALF_OPEN" -> Closed(d)
          [] d.state = "CLOSED"    -> [d EXCEPT !.failures = Push(@, FALSE)]
          [] d.state = "OPEN"      -> d

(* A failure that is not the provider's returns before it touches the      *)
(* circuit.                                                                *)
record_failure(c, class) ==
    LET d == AfterCooldown([c EXCEPT !.cooling = @ \/ class.throttled])
        w == Push(d.failures, TRUE)
        trips == Len(w) >= MinSamples /\ Failures(w) * 100 >= Threshold * Len(w)
    IN  IF ~class.provider_failure THEN c
        ELSE CASE d.state = "HALF_OPEN" -> Opened(d)
               [] d.state = "CLOSED"    -> IF trips THEN Opened(d) ELSE [d EXCEPT !.failures = w]
               [] d.state = "OPEN"      -> d

(* CircuitStateData. *)
Persistent(c) == [c EXCEPT !.probes = 0, !.elapsed = FALSE]

(* restore_from_data: opened_at is a reading of another clock, so the      *)
(* cooldown may or may not look elapsed to the new process.                *)
Restored(row, elapsed) ==
    [row EXCEPT !.elapsed = elapsed /\ row.state = "OPEN"]

-----------------------------------------------------------------------------
(* Routing. *)

(* History: thread t was admitted to the half-open period of k, which ends  *)
(* when the circuit leaves HALF_OPEN.                                      *)
Admits(old, new) ==
    /\ new.state = "HALF_OPEN"
    /\ new.probes > (IF old.state = "HALF_OPEN" THEN old.probes ELSE 0)

NoteProbe(k, t, new) ==
    LET same == circuit[k].state = "HALF_OPEN" /\ new.state = "HALF_OPEN"
    IN  probing' = [u \in Threads |->
                      (IF same THEN probing[u] ELSE probing[u] \ {k})
                        \cup (IF u = t /\ Admits(circuit[k], new) THEN {k} ELSE {})]

select_provider(t) ==
    /\ pc[t] = "idle"
    /\ pc' = [pc EXCEPT ![t] = "routing"]
    /\ \E p \in Policies : want' = [want EXCEPT ![t] = p]
    /\ UNCHANGED <<circuit, saved, healthy, at, found, using, export, probing, faults>>

(* One round of _filter_eligible: health, circuit, then the policy. *)
filter_next(t) ==
    LET k == Registry[at[t]]
        check == is_open(circuit[k])
    IN  /\ pc[t] = "routing" /\ at[t] <= Len(Registry)
        /\ at' = [at EXCEPT ![t] = @ + 1]
        /\ IF healthy[k]
           THEN /\ circuit' = [circuit EXCEPT ![k] = check.circuit]
                /\ NoteProbe(k, t, check.circuit)
                /\ found' = IF ~check.open /\ k \in want[t]
                            THEN [found EXCEPT ![t] = @ \cup {k}] ELSE found
           ELSE UNCHANGED <<circuit, probing, found>>
        /\ UNCHANGED <<saved, healthy, pc, want, using, export, faults>>

ForgetRouting(t) ==
    /\ at' = [at EXCEPT ![t] = 1]
    /\ want' = [want EXCEPT ![t] = {}]
    /\ found' = [found EXCEPT ![t] = {}]

(* The sort and candidates[0]. *)
choose(t) ==
    /\ pc[t] = "routing" /\ at[t] > Len(Registry) /\ found[t] # {}
    /\ using' = [using EXCEPT ![t] =
                    CHOOSE k \in found[t] : \A j \in found[t] : Rank[k] <= Rank[j]]
    /\ pc' = [pc EXCEPT ![t] = "calling"]
    /\ ForgetRouting(t)
    /\ UNCHANGED <<circuit, saved, healthy, export, probing, faults>>

no_eligible(t) ==
    /\ pc[t] = "routing" /\ at[t] > Len(Registry) /\ found[t] = {}
    /\ pc' = [pc EXCEPT ![t] = "idle"]
    /\ ForgetRouting(t)
    /\ UNCHANGED <<circuit, saved, healthy, using, export, probing, faults>>

-----------------------------------------------------------------------------
(* Results. *)

Record(t, c) ==
    /\ pc[t] = "calling"
    /\ circuit' = [circuit EXCEPT ![using[t]] = c]
    /\ NoteProbe(using[t], t, c)
    /\ pc' = [pc EXCEPT ![t] = "recorded"]
    /\ UNCHANGED <<saved, healthy, routerVars, using, export, faults>>

success(t) == Record(t, record_success(circuit[using[t]]))
failure(t) ==
    \E hint \in ErrorClasses : Record(t, record_failure(circuit[using[t]], classify(hint)))

(* export_data takes the lock a second time: it may copy what another      *)
(* thread has recorded since.  It leaves active_probes out.                *)
export_data(t) ==
    /\ pc[t] = "recorded"
    /\ export' = [export EXCEPT ![t] = Persistent(circuit[using[t]])]
    /\ pc' = [pc EXCEPT ![t] = "saving"]
    /\ UNCHANGED <<circuit, saved, healthy, routerVars, using, probing, faults>>

(* save(), without expected_version, in the transaction of the request:    *)
(* it becomes visible when that commits, or never.                         *)
save(t) ==
    /\ pc[t] = "saving"
    /\ saved' = [saved EXCEPT ![using[t]] = export[t]]
    /\ pc' = [pc EXCEPT ![t] = "idle"]
    /\ using' = [using EXCEPT ![t] = NoProvider]
    /\ export' = [export EXCEPT ![t] = Fresh]
    /\ UNCHANGED <<circuit, healthy, routerVars, probing, faults>>

rolled_back(t) ==
    /\ pc[t] \in {"recorded", "saving"}
    /\ pc' = [pc EXCEPT ![t] = "idle"]
    /\ using' = [using EXCEPT ![t] = NoProvider]
    /\ export' = [export EXCEPT ![t] = Fresh]
    /\ UNCHANGED <<circuit, saved, healthy, routerVars, probing, faults>>

-----------------------------------------------------------------------------
(* Time, health and the process. *)

CooldownElapses(k) ==
    /\ circuit[k].state = "OPEN" /\ ~circuit[k].elapsed
    /\ circuit' = [circuit EXCEPT ![k].elapsed = TRUE]
    /\ UNCHANGED <<saved, healthy, pc, routerVars, using, export, probing, faults>>

ThrottlingEnds(k) ==
    /\ circuit[k].cooling
    /\ circuit' = [circuit EXCEPT ![k].cooling = FALSE]
    /\ UNCHANGED <<saved, healthy, pc, routerVars, using, export, probing, faults>>

register_health(k) ==
    /\ faults < MaxFaults /\ faults' = faults + 1
    /\ healthy' = [healthy EXCEPT ![k] = ~@]
    /\ UNCHANGED <<circuit, saved, pc, routerVars, using, export, probing>>

(* The process dies and a new one calls restore_circuit_states. *)
restart ==
    /\ faults < MaxFaults /\ faults' = faults + 1
    /\ \E elapsed \in [Providers -> BOOLEAN] :
          circuit' = [k \in Providers |-> Restored(saved[k], elapsed[k])]
    /\ pc' = [t \in Threads |-> "idle"]
    /\ at' = [t \in Threads |-> 1] /\ want' = [t \in Threads |-> {}]
    /\ found' = [t \in Threads |-> {}]
    /\ using' = [t \in Threads |-> NoProvider]
    /\ export' = [t \in Threads |-> Fresh]
    /\ probing' = [t \in Threads |-> {}]
    /\ UNCHANGED <<saved, healthy>>

Init ==
    /\ circuit = [k \in Providers |-> Fresh] /\ saved = [k \in Providers |-> Fresh]
    /\ healthy = [k \in Providers |-> TRUE] /\ faults = 0
    /\ pc = [t \in Threads |-> "idle"]
    /\ at = [t \in Threads |-> 1] /\ want = [t \in Threads |-> {}]
    /\ found = [t \in Threads |-> {}]
    /\ using = [t \in Threads |-> NoProvider]
    /\ export = [t \in Threads |-> Fresh]
    /\ probing = [t \in Threads |-> {}]

(* What a thread does in the course of an execute() call. *)
Work(t) ==
    \/ select_provider(t) \/ filter_next(t) \/ choose(t) \/ no_eligible(t)
    \/ success(t) \/ failure(t)
    \/ export_data(t) \/ save(t) \/ rolled_back(t)

Next ==
    \/ \E t \in Threads : Work(t)
    \/ \E k \in Providers : CooldownElapses(k) \/ ThrottlingEnds(k) \/ register_health(k)
    \/ restart

(* Requests keep coming and time passes.  Calls return: execute gives an   *)
(* asynchronous executor a timeout; a synchronous one is awaited without,  *)
(* and has to bring its own.  Nothing obliges a restart or a change of     *)
(* health.                                                                 *)
Fairness ==
    /\ \A t \in Threads : WF_vars(Work(t))
    /\ \A k \in Providers : WF_vars(CooldownElapses(k)) /\ WF_vars(ThrottlingEnds(k))

Spec == Init /\ [][Next]_vars /\ Fairness

-----------------------------------------------------------------------------
Circuits == [state : {"CLOSED", "OPEN", "HALF_OPEN"}, failures : Seq(BOOLEAN),
             elapsed : BOOLEAN, cooling : BOOLEAN, probes : 0 .. MaxProbes]

(* Type invariant; the window never outgrows failure_window_size. *)
TypeOK ==
    /\ circuit \in [Providers -> Circuits] /\ saved \in [Providers -> Circuits]
    /\ \A k \in Providers : Len(circuit[k].failures) <= WindowSize
    /\ healthy \in [Providers -> BOOLEAN] /\ faults \in 0 .. MaxFaults
    /\ pc \in [Threads -> {"idle", "routing", "calling", "recorded", "saving"}]
    /\ at \in [Threads -> 1 .. Len(Registry) + 1]
    /\ want \in [Threads -> SUBSET Providers] /\ found \in [Threads -> SUBSET Providers]
    /\ using \in [Threads -> Providers \cup {NoProvider}]
    /\ export \in [Threads -> Circuits] /\ probing \in [Threads -> SUBSET Providers]

Probes(k) == {t \in Threads : pc[t] = "calling" /\ using[t] = k /\ k \in probing[t]}

(* No probe stampede: of the calls in flight to a half-open provider, at   *)
(* most half_open_max_probes were let through in this half-open period,    *)
(* also when calls from before the circuit opened close and reopen it in   *)
(* between (is_open, the resets of active_probes in every method).         *)
ProbesBounded ==
    \A k \in Providers : circuit[k].state = "HALF_OPEN" => Cardinality(Probes(k)) <= MaxProbes

(* The threads for which a probe slot of k has been taken and that may yet *)
(* call k, or are calling it.                                              *)
HoldsSlot(k, t) ==
    /\ k \in probing[t]
    /\ \/ pc[t] = "routing" /\ k \in found[t]
       \/ pc[t] = "calling" /\ using[t] = k

(* A slot is taken and nobody is left to use it and give an answer: the    *)
(* candidate was dropped by a later stage or lost against another, or the  *)
(* answer to the probe was no verdict about the provider, which            *)
(* record_failure ignores.                                                 *)
SlotLost(k) ==
    /\ circuit[k].state = "HALF_OPEN"
    /\ circuit[k].probes > Cardinality({t \in Threads : HoldsSlot(k, t)})

Called(k) == \E t \in Threads : pc[t] = "calling" /\ using[t] = k

(* f11_implementation_plan.md:73, as far as it holds: while a circuit is   *)
(* not CLOSED, requests keep coming and the provider is healthy, calls are *)
(* let through to it again and again (those under way end), unless a probe *)
(* slot is lost for good.  So late failures, throttling, restarts and      *)
(* stale rows in any order do not shut a provider out; a lost slot does.   *)
OpenIsProbed ==
    \A k \in Providers :
        <>[]healthy[k] /\ <>[]~SlotLost(k) =>
            (circuit[k].state # "CLOSED" ~> Called(k) \/ circuit[k].state = "CLOSED")

=============================================================================
