------------------------ MODULE ProviderRoutingProofs ------------------------
(***************************************************************************)
(* Proofs about the circuit breaker, for any number of threads and         *)
(* providers and any configuration of the breaker.  The bound on the       *)
(* probes is a counting argument: active_probes counts at least the        *)
(* threads that were let through in the current half-open period, whatever *)
(* order late results, restarts and other threads' admissions come in.     *)
(***************************************************************************)
EXTENDS ProviderRouting, SequenceTheorems, FiniteSetTheorems, WellFoundedInduction, TLAPS

-----------------------------------------------------------------------------
(* The inductive invariant. *)

Good == {c \in Circuits : Len(c.failures) <= WindowSize}

(* The threads that were let through to k in this half-open period. *)
Admitted(k) == {t \in Threads : k \in probing[t]}

Counted(k) ==
    IF circuit[k].state = "HALF_OPEN"
    THEN Cardinality(Admitted(k)) <= circuit[k].probes
    ELSE Admitted(k) = {}

(* Every copy of a circuit is well formed, also a saved or an exported one. *)
Types ==
    /\ circuit \in [Providers -> Good] /\ saved \in [Providers -> Good]
    /\ healthy \in [Providers -> BOOLEAN] /\ faults \in 0 .. MaxFaults
    /\ pc \in [Threads -> {"idle", "routing", "calling", "recorded", "saving"}]
    /\ at \in [Threads -> 1 .. Len(Registry) + 1]
    /\ want \in [Threads -> SUBSET Providers] /\ found \in [Threads -> SUBSET Providers]
    /\ using \in [Threads -> Providers \cup {NoProvider}]
    /\ export \in [Threads -> Good] /\ probing \in [Threads -> SUBSET Providers]

(* A thread that calls a provider, or has its result, knows which. *)
Calling == \A t \in Threads : pc[t] \in {"calling", "recorded", "saving"} => using[t] \in Providers

IInv == Types /\ Calling /\ \A k \in Providers : Counted(k)

-----------------------------------------------------------------------------
(* The operations on one circuit. *)

LEMMA EmptyWindow == <<>> \in Seq(BOOLEAN) /\ Len(<<>>) <= WindowSize
BY RoutingAssumption, EmptySeq

(* A circuit starts closed with an empty window.                           *)
LEMMA FreshIsGood == Fresh \in Good
BY RoutingAssumption, EmptyWindow DEF Fresh, Good, Circuits

(* A record appended to the window of failure_window_size results. *)
LEMMA PushFacts ==
    ASSUME NEW w \in Seq(BOOLEAN), Len(w) <= WindowSize, NEW b \in BOOLEAN
    PROVE  Push(w, b) \in Seq(BOOLEAN) /\ Len(Push(w, b)) <= WindowSize
<1> DEFINE v == Append(w, b)
<1>1. v \in Seq(BOOLEAN) /\ Len(v) = Len(w) + 1 /\ v # <<>> /\ Len(w) \in Nat
  BY AppendProperties, LenProperties
<1>2. Tail(v) \in Seq(BOOLEAN) /\ Len(Tail(v)) = Len(v) - 1
  BY <1>1, HeadTailProperties
<1>3. Push(w, b) = IF Len(v) > WindowSize THEN Tail(v) ELSE v
  BY DEF Push
<1> HIDE DEF v
<1>4. Len(Tail(v)) <= WindowSize
  BY <1>1, <1>2, RoutingAssumption
<1>5. CASE Len(v) > WindowSize
  BY <1>2, <1>3, <1>4, <1>5
<1>6. CASE ~(Len(v) > WindowSize)
  BY <1>1, <1>3, <1>6, RoutingAssumption
<1> QED BY <1>5, <1>6

(* How a method may change the probe count: in one half-open period by one *)
(* at most, and a new period starts from zero.                             *)
ProbeStep(c, d) ==
    /\ c \in Good /\ d \in Good
    /\ d.state = "HALF_OPEN" =>
          LET before == IF c.state = "HALF_OPEN" THEN c.probes ELSE 0
          IN  d.probes \in {before, before + 1}

(* One field of a circuit is assigned. *)
LEMMA SetState ==
    ASSUME NEW c \in Circuits, NEW v \in {"CLOSED", "OPEN", "HALF_OPEN"}
    PROVE  /\ [c EXCEPT !.state = v] \in Circuits
           /\ [c EXCEPT !.state = v].state = v
           /\ [c EXCEPT !.state = v].failures = c.failures
           /\ [c EXCEPT !.state = v].probes = c.probes
BY DEF Circuits

(* The same for the other fields: failures,                                *)
LEMMA SetFailures ==
    ASSUME NEW c \in Circuits, NEW v \in Seq(BOOLEAN)
    PROVE  /\ [c EXCEPT !.failures = v] \in Circuits
           /\ [c EXCEPT !.failures = v].failures = v
           /\ [c EXCEPT !.failures = v].state = c.state
           /\ [c EXCEPT !.failures = v].probes = c.probes
BY DEF Circuits

(* elapsed,                                                                *)
LEMMA SetElapsed ==
    ASSUME NEW c \in Circuits, NEW v \in BOOLEAN
    PROVE  /\ [c EXCEPT !.elapsed = v] \in Circuits
           /\ [c EXCEPT !.elapsed = v].state = c.state
           /\ [c EXCEPT !.elapsed = v].failures = c.failures
           /\ [c EXCEPT !.elapsed = v].probes = c.probes
BY DEF Circuits

(* cooling                                                                 *)
LEMMA SetCooling ==
    ASSUME NEW c \in Circuits, NEW v \in BOOLEAN
    PROVE  /\ [c EXCEPT !.cooling = v] \in Circuits
           /\ [c EXCEPT !.cooling = v].state = c.state
           /\ [c EXCEPT !.cooling = v].failures = c.failures
           /\ [c EXCEPT !.cooling = v].probes = c.probes
BY DEF Circuits

(* and probes.                                                             *)
LEMMA SetProbes ==
    ASSUME NEW c \in Circuits, NEW v \in 0 .. MaxProbes
    PROVE  /\ [c EXCEPT !.probes = v] \in Circuits
           /\ [c EXCEPT !.probes = v].probes = v
           /\ [c EXCEPT !.probes = v].state = c.state
           /\ [c EXCEPT !.probes = v].failures = c.failures
BY DEF Circuits

(* The check of the cooldown may open a half-open period.                  *)
LEMMA CooldownFacts ==
    ASSUME NEW c \in Good
    PROVE  /\ AfterCooldown(c) \in Good
           /\ AfterCooldown(c).state = "HALF_OPEN" =>
                 AfterCooldown(c).probes = IF c.state = "HALF_OPEN" THEN c.probes ELSE 0
<1> DEFINE d == [c EXCEPT !.state = "HALF_OPEN", !.elapsed = FALSE, !.probes = 0]
<1>1. c \in Circuits /\ Len(c.failures) <= WindowSize
  BY DEF Good
<1>2. d \in Circuits /\ d.failures = c.failures /\ d.probes = 0
  <2> DEFINE d1 == [c EXCEPT !.state = "HALF_OPEN"]
             d2 == [d1 EXCEPT !.elapsed = FALSE]
  <2>1. d1 \in Circuits /\ d1.failures = c.failures
    BY <1>1, SetState
  <2> HIDE DEF d1
  <2>2. d2 \in Circuits /\ d2.failures = c.failures
    BY <2>1, SetElapsed
  <2> HIDE DEF d2
  <2>3. 0 \in 0 .. MaxProbes
    BY RoutingAssumption
  <2>4. [d2 EXCEPT !.probes = 0] \in Circuits /\ [d2 EXCEPT !.probes = 0].probes = 0
        /\ [d2 EXCEPT !.probes = 0].failures = c.failures
    BY <2>2, <2>3, SetProbes
  <2> QED BY <2>4 DEF d1, d2
<1>3. d \in Good
  BY <1>1, <1>2 DEF Good
<1> HIDE DEF d
<1>4. AfterCooldown(c) = IF c.state = "OPEN" /\ c.elapsed THEN d ELSE c
  BY DEF AfterCooldown, d
<1> QED BY <1>2, <1>3, <1>4

(* An opened or closed circuit, and one as it is saved, is well formed.    *)
LEMMA ChangedFacts ==
    ASSUME NEW c \in Good
    PROVE  Opened(c) \in Good /\ Closed(c) \in Good /\ Persistent(c) \in Good
           /\ Opened(c).state = "OPEN" /\ Closed(c).state = "CLOSED"
<1>1. c \in Circuits /\ Len(c.failures) <= WindowSize
  BY DEF Good
<1>2. ASSUME NEW name \in {"CLOSED", "OPEN", "HALF_OPEN"}
      PROVE  LET d == [c EXCEPT !.state = name, !.failures = <<>>, !.elapsed = FALSE, !.probes = 0]
             IN  d \in Circuits /\ d.failures = <<>> /\ d.state = name
  <2> DEFINE d1 == [c EXCEPT !.state = name]
             d2 == [d1 EXCEPT !.failures = <<>>]
             d3 == [d2 EXCEPT !.elapsed = FALSE]
             d4 == [d3 EXCEPT !.probes = 0]
  <2>1. d1 \in Circuits /\ d1.state = name
    BY <1>1, SetState
  <2> HIDE DEF d1
  <2>2. d2 \in Circuits /\ d2.state = name /\ d2.failures = <<>>
    BY <2>1, EmptyWindow, SetFailures
  <2> HIDE DEF d2
  <2>3. d3 \in Circuits /\ d3.state = name /\ d3.failures = <<>>
    BY <2>2, SetElapsed
  <2> HIDE DEF d3
  <2>4. 0 \in 0 .. MaxProbes
    BY RoutingAssumption
  <2>5. d4 \in Circuits /\ d4.state = name /\ d4.failures = <<>>
    BY <2>3, <2>4, SetProbes
  <2> QED BY <2>5 DEF d1, d2, d3
<1>3. /\ Opened(c) \in Circuits /\ Opened(c).failures = <<>> /\ Opened(c).state = "OPEN"
      /\ Closed(c) \in Circuits /\ Closed(c).failures = <<>> /\ Closed(c).state = "CLOSED"
  BY <1>2 DEF Opened, Closed
<1>4. Persistent(c) \in Circuits /\ Persistent(c).failures = c.failures
  <2> DEFINE d1 == [c EXCEPT !.probes = 0]
  <2>1. 0 \in 0 .. MaxProbes
    BY RoutingAssumption
  <2>2. d1 \in Circuits /\ d1.failures = c.failures
    BY <2>1, <1>1, SetProbes
  <2> HIDE DEF d1
  <2>3. [d1 EXCEPT !.elapsed = FALSE] \in Circuits /\ [d1 EXCEPT !.elapsed = FALSE].failures = c.failures
    BY <2>2, SetElapsed
  <2> QED BY <2>3 DEF d1, Persistent
<1> QED BY <1>1, <1>3, <1>4, EmptyWindow DEF Good

(* is_open makes a ProbeStep,                                              *)
LEMMA IsOpenFacts ==
    ASSUME NEW c \in Good
    PROVE  ProbeStep(c, is_open(c).circuit)
<1> DEFINE d == AfterCooldown(c)
<1>1. d \in Good /\ (d.state = "HALF_OPEN" => d.probes = IF c.state = "HALF_OPEN" THEN c.probes ELSE 0)
  BY CooldownFacts
<1> HIDE DEF d
<1>2. ProbeStep(c, c) /\ ProbeStep(c, d)
  BY <1>1, RoutingAssumption DEF ProbeStep, Good, Circuits
<1>3. ASSUME d.state = "HALF_OPEN", d.probes < MaxProbes
      PROVE  ProbeStep(c, [d EXCEPT !.probes = @ + 1])
  <2>1. [d EXCEPT !.probes = @ + 1] \in Good
    BY <1>1, <1>3, RoutingAssumption DEF Good, Circuits
  <2>2. [d EXCEPT !.probes = @ + 1].probes = d.probes + 1
    BY <1>1 DEF Good, Circuits
  <2> QED BY <2>1, <2>2, <1>1, <1>3 DEF ProbeStep
<1>4. is_open(c).circuit \in {c, d}
      \/ (d.state = "HALF_OPEN" /\ d.probes < MaxProbes
          /\ is_open(c).circuit = [d EXCEPT !.probes = @ + 1])
  BY DEF is_open, d
<1> QED BY <1>2, <1>3, <1>4

(* so does record_success,                                                 *)
LEMMA RecordSuccessFacts ==
    ASSUME NEW c \in Good
    PROVE  ProbeStep(c, record_success(c))
<1> DEFINE d == AfterCooldown(c)
<1>1. d \in Good
  BY CooldownFacts
<1> HIDE DEF d
<1>2. Closed(d) \in Good /\ Closed(d).state = "CLOSED"
  BY <1>1, ChangedFacts
<1>3. d.failures \in Seq(BOOLEAN) /\ Len(d.failures) <= WindowSize
      /\ d.state \in {"CLOSED", "OPEN", "HALF_OPEN"}
  BY <1>1 DEF Good, Circuits
<1>4. Push(d.failures, FALSE) \in Seq(BOOLEAN) /\ Len(Push(d.failures, FALSE)) <= WindowSize
  BY <1>3, PushFacts
<1>5. [d EXCEPT !.failures = Push(@, FALSE)] \in Good
      /\ [d EXCEPT !.failures = Push(@, FALSE)].state = d.state
  BY <1>1, <1>4 DEF Good, Circuits
<1>6. record_success(c) = CASE d.state = "HALF_OPEN" -> Closed(d)
                            [] d.state = "CLOSED"    -> [d EXCEPT !.failures = Push(@, FALSE)]
                            [] d.state = "OPEN"      -> d
  BY DEF record_success, d
<1>7. record_success(c) \in Good /\ record_success(c).state # "HALF_OPEN"
  BY <1>1, <1>2, <1>3, <1>5, <1>6
<1> QED BY <1>7 DEF ProbeStep

(* and so does record_failure, whatever the class of the failure.          *)
LEMMA RecordFailureFacts ==
    ASSUME NEW c \in Good, NEW hint \in ErrorClasses
    PROVE  ProbeStep(c, record_failure(c, classify(hint)))
<1> DEFINE class == classify(hint)
           e == [c EXCEPT !.cooling = @ \/ class.throttled]
           d == AfterCooldown(e)
           w == Push(d.failures, TRUE)
           trips == Len(w) >= MinSamples /\ Failures(w) * 100 >= Threshold * Len(w)
<1>1. class.throttled \in BOOLEAN
  BY DEF classify
<1>2. e \in Good
  <2>1. (c.cooling \/ class.throttled) \in BOOLEAN
    OBVIOUS
  <2>2. c \in Circuits /\ Len(c.failures) <= WindowSize
    BY DEF Good
  <2>3. e \in Circuits /\ e.failures = c.failures
    <3> DEFINE cooling == c.cooling \/ class.throttled
    <3>1. cooling \in BOOLEAN
      BY <2>1
    <3> HIDE DEF cooling
    <3> QED BY <3>1, <2>2, SetCooling DEF cooling
  <2> QED BY <2>2, <2>3 DEF Good
<1>3. d \in Good
  BY <1>2, CooldownFacts
<1> HIDE DEF d
<1>4. Opened(d) \in Good /\ Opened(d).state = "OPEN"
  BY <1>3, ChangedFacts
<1>5. d.failures \in Seq(BOOLEAN) /\ Len(d.failures) <= WindowSize
      /\ d.state \in {"CLOSED", "OPEN", "HALF_OPEN"}
  BY <1>3 DEF Good, Circuits
<1>6. w \in Seq(BOOLEAN) /\ Len(w) <= WindowSize
  BY <1>5, PushFacts
<1> HIDE DEF w
<1>7. [d EXCEPT !.failures = w] \in Good /\ [d EXCEPT !.failures = w].state = d.state
  BY <1>3, <1>6 DEF Good, Circuits
<1>8. record_failure(c, class) =
        IF ~class.provider_failure THEN c
        ELSE CASE d.state = "HALF_OPEN" -> Opened(d)
               [] d.state = "CLOSED"    -> IF trips THEN Opened(d) ELSE [d EXCEPT !.failures = w]
               [] d.state = "OPEN"      -> d
  BY DEF record_failure, d, w
<1> HIDE DEF trips, class
<1>9. ProbeStep(c, c)
  BY RoutingAssumption DEF ProbeStep, Good, Circuits
<1>10. record_failure(c, class) = c \/
       (record_failure(c, class) \in Good /\ record_failure(c, class).state # "HALF_OPEN")
  BY <1>3, <1>4, <1>5, <1>7, <1>8
<1>11. ProbeStep(c, record_failure(c, class))
  BY <1>9, <1>10 DEF ProbeStep
<1> QED BY <1>11 DEF class

-----------------------------------------------------------------------------
(* The threads that share a circuit. *)

LEMMA AdmittedFinite ==
    ASSUME NEW k
    PROVE  IsFiniteSet(Admitted(k)) /\ Cardinality(Admitted(k)) \in Nat
BY RoutingAssumption, FS_Subset, FS_CardinalityType DEF Admitted

(* A method of the breaker called by thread t for provider k keeps the     *)
(* count: it raises active_probes for every thread it lets through.        *)
LEMMA NoteFacts ==
    ASSUME Types, \A j \in Providers : Counted(j),
           NEW k \in Providers, NEW t \in Threads, NEW c, ProbeStep(circuit[k], c),
           circuit' = [circuit EXCEPT ![k] = c], NoteProbe(k, t, c)
    PROVE  /\ circuit' \in [Providers -> Good] /\ probing' \in [Threads -> SUBSET Providers]
           /\ \A j \in Providers : Counted(j)'
<1> DEFINE b == circuit[k]
           same == b.state = "HALF_OPEN" /\ c.state = "HALF_OPEN"
           admits == Admits(b, c)
<1>1. /\ probing \in [Threads -> SUBSET Providers] /\ circuit \in [Providers -> Good]
      /\ b \in Good /\ c \in Good
  BY DEF Types, ProbeStep
<1>2. /\ circuit' \in [Providers -> Good] /\ circuit'[k] = c
      /\ \A j \in Providers : j # k => circuit'[j] = circuit[j]
  BY <1>1
<1>3. probing' = [u \in Threads |-> (IF same THEN probing[u] ELSE probing[u] \ {k})
                                      \cup (IF u = t /\ admits THEN {k} ELSE {})]
  BY DEF NoteProbe
<1> HIDE DEF admits, same
<1>4. probing' \in [Threads -> SUBSET Providers]
  BY <1>1, <1>3
<1>5. \A j, u : u \in Threads /\ j # k => (j \in probing'[u] <=> j \in probing[u])
  BY <1>3
<1>6. \A u \in Threads : k \in probing'[u] <=> (same /\ k \in probing[u]) \/ (u = t /\ admits)
  BY <1>3
<1>7. ASSUME NEW j \in Providers, j # k PROVE Counted(j)'
  <2>1. Admitted(j)' = Admitted(j)
    BY <1>5, <1>7 DEF Admitted
  <2>2. Counted(j) /\ circuit'[j] = circuit[j]
    BY <1>2, <1>7
  <2> QED BY <2>1, <2>2 DEF Counted
<1>8. Counted(k)'
  <2>1. Counted(k)
    OBVIOUS
  <2>2. CASE c.state # "HALF_OPEN"
    <3>1. ~same /\ ~admits
      BY <2>2 DEF same, admits, Admits
    <3>2. Admitted(k)' = {}
      BY <3>1, <1>6 DEF Admitted
    <3> QED BY <3>2, <2>2, <1>2 DEF Counted
  <2>3. CASE c.state = "HALF_OPEN" /\ b.state = "HALF_OPEN"
    <3>1. /\ Cardinality(Admitted(k)) <= b.probes /\ b.probes \in Nat /\ c.probes \in Nat
          /\ c.probes \in {b.probes, b.probes + 1} /\ same
          /\ admits <=> c.probes > b.probes
      BY <2>1, <2>3, <1>1, RoutingAssumption
         DEF Counted, ProbeStep, same, admits, Admits, Good, Circuits
    <3>2. CASE admits
      <4>1. Admitted(k)' = Admitted(k) \cup {t}
        BY <3>1, <3>2, <1>6 DEF Admitted
      <4> DEFINE A == Admitted(k)
      <4>2. IsFiniteSet(A) /\ Cardinality(A) \in Nat
        BY AdmittedFinite
      <4> HIDE DEF A
      <4>3. Cardinality(A \cup {t}) = IF t \in A THEN Cardinality(A) ELSE Cardinality(A) + 1
        BY <4>2, FS_AddElement
      <4>4. Cardinality(Admitted(k) \cup {t}) <= c.probes
        BY <4>2, <4>3, <3>1, <3>2 DEF A
      <4> QED BY <4>1, <4>4, <2>3, <1>2 DEF Counted
    <3>3. CASE ~admits
      <4>1. Admitted(k)' = Admitted(k)
        BY <3>1, <3>3, <1>6 DEF Admitted
      <4>2. c.probes = b.probes
        BY <3>1, <3>3
      <4> QED BY <4>1, <4>2, <3>1, <2>3, <1>2 DEF Counted
    <3> QED BY <3>2, <3>3
  <2>4. CASE c.state = "HALF_OPEN" /\ b.state # "HALF_OPEN"
    <3>1. c.probes \in {0, 1} /\ ~same /\ (admits <=> c.probes > 0)
      BY <2>4 DEF ProbeStep, same, admits, Admits
    <3>2. CASE admits
      <4>1. Admitted(k)' = {t}
        BY <3>1, <3>2, <1>6 DEF Admitted
      <4>2. Cardinality({t}) = 1
        BY FS_Singleton
      <4>3. c.probes = 1
        BY <3>1, <3>2
      <4>4. Cardinality({t}) <= c.probes
        BY <4>2, <4>3
      <4> QED BY <4>1, <4>4, <2>4, <1>2 DEF Counted
    <3>3. CASE ~admits
      <4>1. Admitted(k)' = {}
        BY <3>1, <3>3, <1>6 DEF Admitted
      <4>2. Cardinality({}) = 0 /\ c.probes = 0
        BY <3>1, <3>3, FS_EmptySet
      <4>3. Cardinality({}) <= c.probes
        BY <4>2
      <4> QED BY <4>1, <4>3, <2>4, <1>2 DEF Counted
    <3> QED BY <3>2, <3>3
  <2> QED BY <2>2, <2>3, <2>4
<1> QED BY <1>2, <1>4, <1>7, <1>8

(* A step that leaves the circuits' states and the probes alone. *)
LEMMA CountKept ==
    ASSUME \A k \in Providers : Counted(k), probing' = probing,
           \A k \in Providers : /\ circuit'[k].state = circuit[k].state
                                /\ circuit'[k].probes = circuit[k].probes
    PROVE  \A k \in Providers : Counted(k)'
BY DEF Counted, Admitted

(* A non-empty set of natural numbers has a least element: the sort of the *)
(* candidates has a first one.                                             *)
LEMMA LeastNumber ==
    ASSUME NEW S, S \subseteq Nat, S # {}
    PROVE  \E x \in S : \A y \in S : x <= y
<1> DEFINE below(x) == 1 .. x
           less == StrictSubsetOrdering(Nat)
           finite == FiniteSubsetsOf(Nat)
           U == {below(x) : x \in S}
<1>1. U \subseteq finite
  <2>1. \A x \in S : IsFiniteSet(below(x)) /\ below(x) \in SUBSET Nat
    BY FS_Interval
  <2> QED BY <2>1 DEF FiniteSubsetsOf
<1>2. U # {}
  OBVIOUS
<1>3. IsWellFoundedOn(less, finite)
  BY FS_StrictSubsetOrderingWellFounded
<1>4. \E u \in U : \A v \in U : ~(<<v, u>> \in less)
  <2> HIDE DEF less, finite, U
  <2> QED BY <1>1, <1>2, <1>3, WFMin
<1>5. PICK x \in S : \A y \in S : ~(<<below(y), below(x)>> \in less)
  BY <1>4
<1>6. ASSUME NEW y \in S, y < x PROVE FALSE
  <2>1. below(y) \subseteq below(x) /\ x \in below(x) /\ x \notin below(y)
    BY <1>6
  <2>2. below(x) \in SUBSET Nat /\ below(y) \in SUBSET Nat
    OBVIOUS
  <2>3. <<below(y), below(x)>> \in less
    BY <2>1, <2>2 DEF StrictSubsetOrdering
  <2> QED BY <2>3, <1>5
<1> QED BY <1>6

-----------------------------------------------------------------------------
(* The steps. *)

LEMMA RegistryFacts ==
    /\ Len(Registry) \in Nat
    /\ \A i \in 1 .. Len(Registry) : Registry[i] \in Providers
BY RoutingAssumption DEF Providers

(* The candidates have a first one. *)
LEMMA ChosenIsFound ==
    ASSUME NEW S \in SUBSET Providers, S # {}
    PROVE  (CHOOSE k \in S : \A j \in S : Rank[k] <= Rank[j]) \in S
<1> DEFINE R == {Rank[k] : k \in S}
<1>1. R \subseteq Nat /\ R # {}
  BY RoutingAssumption
<1>2. PICK r \in R : \A q \in R : r <= q
  <2> HIDE DEF R
  <2> QED BY <1>1, LeastNumber
<1>3. \E k \in S : \A j \in S : Rank[k] <= Rank[j]
  BY <1>2
<1> QED BY <1>3

(* Routing: the thread's own variables, and the circuits it asks about. *)
LEMMA RoutingStep ==
    ASSUME NEW t \in Threads, IInv,
           select_provider(t) \/ filter_next(t) \/ choose(t) \/ no_eligible(t)
    PROVE  IInv'
<1>1. Types /\ Calling /\ \A k \in Providers : Counted(k)
  BY DEF IInv
<1>2. CASE select_provider(t)
  <2>1. Types'
    BY <1>1, <1>2, RoutingAssumption DEF select_provider, Types
  <2>2. Calling'
    BY <1>1, <1>2 DEF select_provider, Types, Calling
  <2>3. \A k \in Providers : Counted(k)'
    BY <1>1, <1>2, CountKept DEF select_provider
  <2> QED BY <2>1, <2>2, <2>3 DEF IInv
<1>3. CASE filter_next(t)
  <2> DEFINE k == Registry[at[t]]
             c == is_open(circuit[k]).circuit
  <2>1. at[t] \in 1 .. Len(Registry) /\ at' = [at EXCEPT ![t] = at[t] + 1]
        /\ UNCHANGED <<saved, healthy, pc, want, using, export, faults>>
    BY <1>1, <1>3, RegistryFacts DEF filter_next, Types
  <2>2. k \in Providers /\ at[t] + 1 \in 1 .. Len(Registry) + 1
    BY <2>1, RegistryFacts
  <2>3. found' \in [Threads -> SUBSET Providers]
    <3>1. found' = found \/ found' = [found EXCEPT ![t] = found[t] \cup {k}]
      BY <1>3 DEF filter_next
    <3> DEFINE more == found[t] \cup {k}
    <3>2. more \in SUBSET Providers
      BY <1>1, <2>2 DEF Types
    <3> HIDE DEF more
    <3>3. found' = found \/ found' = [found EXCEPT ![t] = more]
      BY <3>1 DEF more
    <3>4. found \in [Threads -> SUBSET Providers]
      BY <1>1 DEF Types
    <3> QED BY <3>2, <3>3, <3>4
  <2>4. /\ circuit' \in [Providers -> Good] /\ probing' \in [Threads -> SUBSET Providers]
        /\ \A j \in Providers : Counted(j)'
    <3>1. CASE healthy[k]
      <4>1. circuit' = [circuit EXCEPT ![k] = c] /\ NoteProbe(k, t, c)
        BY <1>3, <3>1 DEF filter_next
      <4>2. ProbeStep(circuit[k], c)
        BY <1>1, <2>2, IsOpenFacts DEF Types
      <4> HIDE DEF k, c
      <4> QED BY <4>1, <4>2, <2>2, <1>1, NoteFacts
    <3>2. CASE ~healthy[k]
      <4>1. circuit' = circuit /\ probing' = probing
        BY <1>3, <3>2 DEF filter_next
      <4> QED BY <4>1, <1>1, CountKept DEF Types
    <3> QED BY <3>1, <3>2
  <2>5. Types'
    <3>1. at' \in [Threads -> 1 .. Len(Registry) + 1]
      BY <1>1, <2>1, <2>2 DEF Types
    <3> QED BY <1>1, <2>1, <2>3, <2>4, <3>1 DEF Types
  <2>6. Calling'
    BY <1>1, <2>1 DEF Calling
  <2> QED BY <2>4, <2>5, <2>6 DEF IInv
<1>4. CASE choose(t)
  <2> DEFINE k == CHOOSE k \in found[t] : \A j \in found[t] : Rank[k] <= Rank[j]
  <2>1. /\ found[t] # {} /\ using' = [using EXCEPT ![t] = k]
        /\ pc' = [pc EXCEPT ![t] = "calling"] /\ ForgetRouting(t)
        /\ UNCHANGED <<circuit, saved, healthy, export, probing, faults>>
    BY <1>4 DEF choose
  <2>2. k \in Providers
    <3>1. found[t] \in SUBSET Providers
      BY <1>1 DEF Types
    <3>2. k \in found[t]
      BY <2>1, <3>1, ChosenIsFound
    <3> QED BY <3>1, <3>2
  <2> HIDE DEF k
  <2>3. Types'
    BY <1>1, <2>1, <2>2, RegistryFacts DEF Types, ForgetRouting
  <2>4. Calling'
    BY <1>1, <2>1, <2>2 DEF Types, Calling
  <2>5. \A j \in Providers : Counted(j)'
    BY <1>1, <2>1, CountKept
  <2> QED BY <2>3, <2>4, <2>5 DEF IInv
<1>5. CASE no_eligible(t)
  <2>1. Types'
    BY <1>1, <1>5, RegistryFacts DEF no_eligible, ForgetRouting, Types
  <2>2. Calling'
    BY <1>1, <1>5 DEF no_eligible, Types, Calling
  <2>3. \A k \in Providers : Counted(k)'
    BY <1>1, <1>5, CountKept DEF no_eligible
  <2> QED BY <2>1, <2>2, <2>3 DEF IInv
<1> QED BY <1>2, <1>3, <1>4, <1>5

(* A result is recorded. *)
LEMMA RecordStep ==
    ASSUME NEW t \in Threads, IInv, success(t) \/ failure(t)
    PROVE  IInv'
<1>1. Types /\ Calling /\ \A k \in Providers : Counted(k)
  BY DEF IInv
<1> DEFINE k == using[t]
<1>2. pc[t] = "calling" /\ k \in Providers
  BY <1>1 DEF success, failure, Record, Calling
<1>3. PICK c : Record(t, c) /\ ProbeStep(circuit[k], c)
  <2>1. circuit[k] \in Good
    BY <1>1, <1>2 DEF Types
  <2>2. CASE success(t)
    BY <2>1, <2>2, RecordSuccessFacts DEF success
  <2>3. CASE failure(t)
    BY <2>1, <2>3, RecordFailureFacts DEF failure
  <2> QED BY <2>2, <2>3
<1>4. /\ circuit' \in [Providers -> Good] /\ probing' \in [Threads -> SUBSET Providers]
      /\ \A j \in Providers : Counted(j)'
  BY <1>1, <1>2, <1>3, NoteFacts DEF Record
<1>5. Types'
  BY <1>1, <1>3, <1>4 DEF Record, Types, routerVars
<1>6. Calling'
  BY <1>1, <1>2, <1>3 DEF Record, Types, Calling
<1> QED BY <1>4, <1>5, <1>6 DEF IInv

(* The circuit is exported and saved, or the transaction is rolled back. *)
LEMMA SaveStep ==
    ASSUME NEW t \in Threads, IInv, export_data(t) \/ save(t) \/ rolled_back(t)
    PROVE  IInv'
<1>1. Types /\ Calling /\ \A k \in Providers : Counted(k)
  BY DEF IInv
<1>2. \A k \in Providers : Counted(k)'
  BY <1>1, CountKept DEF export_data, save, rolled_back
<1>3. CASE export_data(t)
  <2>1. Persistent(circuit[using[t]]) \in Good
    BY <1>1, <1>3, ChangedFacts DEF Types, Calling, export_data
  <2>2. Types'
    BY <1>1, <1>3, <2>1 DEF Types, export_data, routerVars
  <2>3. Calling'
    BY <1>1, <1>3 DEF Types, Calling, export_data
  <2> QED BY <1>2, <2>2, <2>3 DEF IInv
<1>4. CASE save(t) \/ rolled_back(t)
  <2>1. Types'
    <3>1. saved' \in [Providers -> Good]
      BY <1>1, <1>4 DEF Types, save, rolled_back
    <3> QED BY <1>1, <1>4, <3>1, FreshIsGood DEF Types, save, rolled_back, routerVars
  <2>2. Calling'
    BY <1>1, <1>4 DEF Types, Calling, save, rolled_back
  <2> QED BY <1>2, <2>1, <2>2 DEF IInv
<1> QED BY <1>3, <1>4

(* Time passes, or the health of a provider changes. *)
LEMMA TimeStep ==
    ASSUME NEW k \in Providers, IInv,
           CooldownElapses(k) \/ ThrottlingEnds(k) \/ register_health(k)
    PROVE  IInv'
<1>1. Types /\ Calling /\ \A j \in Providers : Counted(j)
  BY DEF IInv
<1>2. Calling'
  BY <1>1 DEF CooldownElapses, ThrottlingEnds, register_health, Calling
<1>3. /\ circuit' \in [Providers -> Good]
      /\ \A j \in Providers : /\ circuit'[j].state = circuit[j].state
                              /\ circuit'[j].probes = circuit[j].probes
  <2>1. circuit[k] \in Circuits /\ Len(circuit[k].failures) <= WindowSize
    BY <1>1 DEF Types, Good
  <2>2. PICK c : circuit' = circuit \/
                 (/\ circuit' = [circuit EXCEPT ![k] = c]
                  /\ c \in Good /\ c.state = circuit[k].state /\ c.probes = circuit[k].probes)
    <3> DEFINE c1 == [circuit[k] EXCEPT !.elapsed = TRUE]
               c2 == [circuit[k] EXCEPT !.cooling = FALSE]
    <3>1. c1 \in Good /\ c1.state = circuit[k].state /\ c1.probes = circuit[k].probes
      BY <2>1, SetElapsed DEF Good
    <3>2. c2 \in Good /\ c2.state = circuit[k].state /\ c2.probes = circuit[k].probes
      BY <2>1, SetCooling DEF Good
    <3>3. circuit' = [circuit EXCEPT ![k] = c1] \/ circuit' = [circuit EXCEPT ![k] = c2]
          \/ circuit' = circuit
      BY <1>1 DEF CooldownElapses, ThrottlingEnds, register_health, Types
    <3> HIDE DEF c1, c2
    <3> QED BY <3>1, <3>2, <3>3
  <2> QED BY <1>1, <2>2 DEF Types
<1>4. \A j \in Providers : Counted(j)'
  <2>1. probing' = probing
    BY DEF CooldownElapses, ThrottlingEnds, register_health
  <2> QED BY <1>1, <1>3, <2>1, CountKept
<1>5. Types'
  <2>1. healthy' \in [Providers -> BOOLEAN] /\ faults' \in 0 .. MaxFaults
    <3> DEFINE h == ~healthy[k]
    <3>1. h \in BOOLEAN
      OBVIOUS
    <3>2. healthy' = healthy \/ healthy' = [healthy EXCEPT ![k] = h]
      BY DEF CooldownElapses, ThrottlingEnds, register_health
    <3> HIDE DEF h
    <3>3. healthy' \in [Providers -> BOOLEAN]
      BY <1>1, <3>1, <3>2 DEF Types
    <3>4. faults' \in 0 .. MaxFaults
      BY <1>1, RoutingAssumption DEF CooldownElapses, ThrottlingEnds, register_health, Types
    <3> QED BY <3>3, <3>4
  <2> QED BY <1>1, <1>3, <2>1
          DEF CooldownElapses, ThrottlingEnds, register_health, Types, routerVars
<1> QED BY <1>2, <1>4, <1>5 DEF IInv

(* A new process restores the saved circuits; no probe survives. *)
LEMMA RestartStep ==
    ASSUME IInv, restart
    PROVE  IInv'
<1>1. Types /\ saved' = saved /\ healthy' = healthy /\ probing' = [t \in Threads |-> {}]
  BY DEF IInv, restart
<1>2. PICK elapsed \in [Providers -> BOOLEAN] :
          circuit' = [k \in Providers |-> Restored(saved[k], elapsed[k])]
  BY DEF restart
<1>3. ASSUME NEW k \in Providers PROVE circuit'[k] \in Good
  <2> DEFINE b == elapsed[k] /\ saved[k].state = "OPEN"
  <2>1. b \in BOOLEAN /\ saved[k] \in Circuits /\ Len(saved[k].failures) <= WindowSize
    BY <1>1 DEF Types, Good
  <2>2. circuit'[k] = [saved[k] EXCEPT !.elapsed = b]
    BY <1>2 DEF Restored
  <2> HIDE DEF b
  <2> DEFINE row == saved[k]
  <2> HIDE DEF row
  <2>3. [row EXCEPT !.elapsed = b] \in Circuits /\ [row EXCEPT !.elapsed = b].failures = row.failures
    BY <2>1, SetElapsed DEF row
  <2>4. [row EXCEPT !.elapsed = b] \in Good
    BY <2>1, <2>3 DEF Good, row
  <2> QED BY <2>2, <2>4 DEF row
<1>4. circuit' \in [Providers -> Good]
  BY <1>2, <1>3
<1>5. Types'
  <2>1. faults' \in 0 .. MaxFaults
    BY <1>1, RoutingAssumption DEF restart, Types
  <2> QED BY <1>1, <1>4, <2>1, RegistryFacts, FreshIsGood DEF restart, Types
<1>6. Calling'
  BY DEF restart, Calling
<1>7. ASSUME NEW k \in Providers PROVE Counted(k)'
  <2>1. Admitted(k)' = {}
    BY <1>1 DEF Admitted
  <2>2. circuit'[k].probes \in Nat
    BY <1>3, RoutingAssumption DEF Good, Circuits
  <2> QED BY <2>1, <2>2, FS_EmptySet DEF Counted
<1> QED BY <1>5, <1>6, <1>7 DEF IInv

-----------------------------------------------------------------------------
(* The theorems. *)

LEMMA InitInvariant == Init => IInv
<1> SUFFICES ASSUME Init PROVE IInv
  OBVIOUS
<1>1. Types
  BY RoutingAssumption, RegistryFacts, FreshIsGood DEF Init, Types
<1>2. Calling
  BY DEF Init, Calling
<1>3. ASSUME NEW k \in Providers PROVE Counted(k)
  BY DEF Init, Counted, Admitted, Fresh
<1> QED BY <1>1, <1>2, <1>3 DEF IInv

(* The invariant is inductive. *)
LEMMA NextInvariant == IInv /\ [Next]_vars => IInv'
<1> SUFFICES ASSUME IInv, [Next]_vars PROVE IInv'
  OBVIOUS
<1>1. CASE UNCHANGED vars
  <2>1. Types' /\ Calling'
    BY <1>1 DEF IInv, Types, Calling, vars, routerVars
  <2>2. \A k \in Providers : Counted(k)'
    BY <1>1, CountKept DEF IInv, vars
  <2> QED BY <2>1, <2>2 DEF IInv
<1>2. ASSUME NEW t \in Threads, Work(t) PROVE IInv'
  BY <1>2, RoutingStep, RecordStep, SaveStep DEF Work
<1>3. ASSUME NEW k \in Providers, CooldownElapses(k) \/ ThrottlingEnds(k) \/ register_health(k)
      PROVE  IInv'
  BY <1>3, TimeStep
<1> QED BY <1>1, <1>2, <1>3, RestartStep DEF Next

(* Every reachable state of the breaker satisfies the inductive invariant, *)
(* for any number of threads and providers.                                *)
THEOREM InvariantHolds == Spec => []IInv
<1>1. IInv /\ [Next]_vars => IInv'
  BY NextInvariant
<1> QED BY <1>1, InitInvariant, PTL DEF Spec

(* Circuits, saved rows and exported data stay well formed, and the window *)
(* of results never outgrows failure_window_size.                          *)
THEOREM TypeCorrect == Spec => []TypeOK
<1>1. IInv => TypeOK
  BY DEF IInv, Types, Good, TypeOK
<1> QED BY <1>1, InvariantHolds, PTL

(* is_open lets no more than half_open_max_probes of the calls in flight   *)
(* through in one half-open period.                                        *)
THEOREM ProbesAreBounded == Spec => []ProbesBounded
<1>1. ASSUME IInv, NEW k \in Providers, circuit[k].state = "HALF_OPEN"
      PROVE  Cardinality(Probes(k)) <= MaxProbes
  <2>1. /\ Cardinality(Admitted(k)) <= circuit[k].probes
        /\ circuit[k].probes \in 0 .. MaxProbes
    BY <1>1 DEF IInv, Types, Counted, Good, Circuits
  <2>2. Probes(k) \in SUBSET Admitted(k)
    BY DEF Probes, Admitted
  <2>3. Cardinality(Probes(k)) <= Cardinality(Admitted(k)) /\ IsFiniteSet(Probes(k))
    BY <2>2, AdmittedFinite, FS_Subset
  <2>4. Cardinality(Probes(k)) \in Nat /\ Cardinality(Admitted(k)) \in Nat
    BY <2>3, AdmittedFinite, FS_CardinalityType
  <2> QED BY <2>1, <2>3, <2>4, RoutingAssumption
<1>2. IInv => ProbesBounded
  BY <1>1 DEF ProbesBounded
<1> QED BY <1>2, InvariantHolds, PTL

=============================================================================
