------------------------------ MODULE AIRequest ------------------------------
(***************************************************************************)
(* The AI request ledger: AIBudgetService (ai/budget.py), the request      *)
(* state machine (ai/state_machine.py), AIRequestStateService              *)
(* (ai/request.py) and the hedged winner claim (ai/hedged_execution.py),   *)
(* run by concurrent database sessions.                                    *)
(*                                                                         *)
(* No method commits: the caller owns the transaction.  A session is       *)
(* therefore modelled with PostgreSQL's READ COMMITTED rules: an UPDATE    *)
(* takes the row's lock, waits while another transaction holds it, reads   *)
(* the committed row (or its own uncommitted one) and keeps the new row    *)
(* private until COMMIT; ROLLBACK forgets it.  A method is the steps       *)
(*    Begin       get_request and the checks before the first UPDATE,      *)
(*    BudgetStep  the conditional UPDATE of ai_budgets, if it has one,     *)
(*    RowStep     the compare-and-set UPDATE of ai_requests.               *)
(* `seen' is the session's identity map: the row is read once per          *)
(* transaction and follows the session's own UPDATEs only.                 *)
(***************************************************************************)
EXTENDS Naturals, FiniteSets, Functions

CONSTANTS
    Requests,      \* request_id values
    Callers,       \* sessions whose caller commits after each service call
    Executors,     \* sessions that run ProviderExecutionService.execute
    NoOne,         \* no session, no request, SQL NULL
    Payloads,      \* (task, budget, prompt hash, context hash) combinations
    TokenLimit,    \* token_limit of the one budget the requests share
    CostLimit,     \* cost_limit_micro_units of that budget
    Estimates,     \* reservations a stepwise caller may ask for
    Charges,       \* <<tokens, cost>> an answer may turn out to have used
    Hedged,        \* requests sent to several providers at once
    Recorded,      \* attempt numbers a stepwise caller records itself
    MaxAttempts    \* min(request.max_attempts, retry_policy.max_attempts)

Sessions == Callers \cup Executors

ASSUME AIRequestAssumption ==
    /\ Callers \cap Executors = {} /\ NoOne \notin Sessions \cup Requests
    /\ IsFiniteSet(Requests)
    /\ TokenLimit \in Nat /\ CostLimit \in Nat
    /\ Estimates \subseteq Nat /\ Charges \subseteq Nat \X Nat
    /\ MaxAttempts \in Nat \ {0} /\ Recorded \subseteq 1 .. MaxAttempts
    /\ Hedged \subseteq Requests

VARIABLES
    budget,        \* committed ai_budgets row
    request,       \* committed ai_requests rows
    attempt,       \* committed ai_provider_attempts, by request and number
    budgetLock,    \* session that has an uncommitted budget row
    budgetNew,     \* that row
    requestLock,   \* session that has an uncommitted row, per request
    requestNew,    \* those rows
    tries,         \* attempts a session has inserted and not committed
    job,           \* the request a session works on
    stage,         \* where a session is in its service call
    call,          \* that call
    seen           \* the session's loaded copy of the request row

ledger == <<budget, request, attempt>>
locks == <<budgetLock, budgetNew, requestLock, requestNew, tries>>
sessions == <<job, stage, call, seen>>
aiVars == <<ledger, locks, sessions>>

-----------------------------------------------------------------------------
(* The request state machine. *)

TerminalStates == {"COMPLETED", "FAILED", "CANCELLED"}

AllStates ==
    {"CREATED", "RESERVED", "ROUTED", "IN_FLIGHT", "PROVIDER_FAILED"} \cup TerminalStates

AllowedTransitions ==
    [s \in AllStates |->
        CASE s = "CREATED"         -> {"RESERVED", "CANCELLED", "FAILED"}
          [] s = "RESERVED"        -> {"ROUTED", "CANCELLED", "FAILED"}
          [] s = "ROUTED"          -> {"IN_FLIGHT", "PROVIDER_FAILED", "FAILED", "CANCELLED"}
          [] s = "IN_FLIGHT"       -> {"COMPLETED", "PROVIDER_FAILED", "FAILED", "CANCELLED"}
          [] s = "PROVIDER_FAILED" -> {"ROUTED", "FAILED", "CANCELLED"}
          [] OTHER                 -> {}]

(* validate_state_transition: no target lists its own source, so the       *)
(* self-transition test adds nothing to the table.                         *)
ValidTransition(from, to) == from \in AllStates /\ to \in AllowedTransitions[from]

-----------------------------------------------------------------------------
(* Rows.  `granted' is history: the tokens reserve_budget last reserved,   *)
(* kept after the reservation is given back.                               *)

AbsentRow == [status |-> "ABSENT", payload |-> NoOne, reserved |-> 0,
              committed |-> 0, cost |-> 0, winner |-> NoOne, granted |-> 0]

NewBudget == [used |-> 0, reserved |-> 0, cost |-> 0]

Calls == [op : {"none", "create", "reserve", "transition", "commit", "release",
                "attempt", "claim"},
          from : AllStates, to : AllStates, tokens : Nat, cost : Nat]

NoCall == [op |-> "none", from |-> "CREATED", to |-> "CREATED", tokens |-> 0, cost |-> 0]

create == [NoCall EXCEPT !.op = "create"]
reserve_budget(n) == [NoCall EXCEPT !.op = "reserve", !.tokens = n]
transition_status(from, to) == [NoCall EXCEPT !.op = "transition", !.from = from, !.to = to]
commit_execution(c) == [NoCall EXCEPT !.op = "commit", !.tokens = c[1], !.cost = c[2]]
release_reservation(to) == [NoCall EXCEPT !.op = "release", !.to = to]
record_attempt(n) == [NoCall EXCEPT !.op = "attempt", !.tokens = n]
try_claim_winner == [NoCall EXCEPT !.op = "claim"]

(* What session s reads and updates: its own uncommitted row, else the     *)
(* committed one.                                                          *)
Row(s, r) == IF requestLock[r] = s THEN requestNew[r] ELSE request[r]
Budget(s) == IF budgetLock = s THEN budgetNew ELSE budget
Attempt(s, r, n) == IF tries[s][n] # "none" THEN tries[s][n] ELSE attempt[r][n]

-----------------------------------------------------------------------------
(* The decisions a method takes on the row it has loaded: go on with the   *)
(* budget, go on with the row, return at once (the idempotent cases) or    *)
(* raise.                                                                  *)

Check(row, c) ==
    CASE row.status = "ABSENT" -> "raised"
      [] c.op = "reserve" ->
            IF row.status = "RESERVED"
            THEN IF row.reserved = c.tokens THEN "returned" ELSE "raised"
            ELSE IF ValidTransition(row.status, "RESERVED") THEN "budget" ELSE "raised"
      [] c.op = "transition" ->
            IF ValidTransition(c.from, c.to) /\ row.status = c.from THEN "row" ELSE "raised"
      [] c.op = "commit" ->
            IF row.status = "COMPLETED"
            THEN IF row.committed = c.tokens /\ row.cost = c.cost THEN "returned" ELSE "raised"
            ELSE IF ValidTransition(row.status, "COMPLETED") THEN "budget" ELSE "raised"
      [] c.op = "release" ->
            IF row.status \in TerminalStates
            THEN IF row.status = c.to THEN "returned" ELSE "raised"
            ELSE IF ~ValidTransition(row.status, c.to) THEN "raised"
            ELSE IF row.reserved > 0 THEN "budget" ELSE "row"

(* The three budget methods: the WHERE clause and the SET clause. *)

(* Mutant: only the open reservations count against the limit. *)
reserve_tokens_unused(b, n) ==
    [ok |-> n > 0 /\ b.reserved + n <= TokenLimit,
     row |-> [b EXCEPT !.reserved = @ + n]]

reserve_tokens(b, n) ==
    [ok |-> n > 0 /\ b.used + b.reserved + n <= TokenLimit,
     row |-> [b EXCEPT !.reserved = @ + n]]

commit_tokens(b, reserved, tokens, cost) ==
    [ok |-> b.reserved >= reserved /\ b.cost + cost <= CostLimit,
     row |-> [used |-> b.used + tokens, reserved |-> b.reserved - reserved,
              cost |-> b.cost + cost]]

release_tokens(b, n) ==
    [ok |-> b.reserved >= n, row |-> [b EXCEPT !.reserved = @ - n]]

BudgetUpdate(b, row, c) ==
    CASE c.op = "reserve" -> reserve_tokens(b, c.tokens)
      [] c.op = "commit"  -> commit_tokens(b, row.reserved, c.tokens, c.cost)
      [] c.op = "release" -> release_tokens(b, row.reserved)

(* Mutant: the released request keeps its reserved_tokens. *)
RowUpdate_hoarding(row, c, s) ==
    CASE c.op = "reserve"    -> [row EXCEPT !.status = "RESERVED", !.reserved = c.tokens,
                                            !.granted = c.tokens]
      [] c.op = "commit"     -> [row EXCEPT !.status = "COMPLETED", !.reserved = 0,
                                            !.committed = c.tokens, !.cost = c.cost]
      [] c.op = "claim"      -> [row EXCEPT !.winner = s]
      [] OTHER               -> [row EXCEPT !.status = c.to]

(* The SET clause of the UPDATE of ai_requests. *)
RowUpdate(row, c, s) ==
    CASE c.op = "reserve"    -> [row EXCEPT !.status = "RESERVED", !.reserved = c.tokens,
                                            !.granted = c.tokens]
      [] c.op = "transition" -> [row EXCEPT !.status = c.to]
      [] c.op = "commit"     -> [row EXCEPT !.status = "COMPLETED", !.reserved = 0,
                                            !.committed = c.tokens, !.cost = c.cost]
      [] c.op = "release"    -> [row EXCEPT !.status = c.to, !.reserved = 0]
      [] c.op = "claim"      -> [row EXCEPT !.winner = s]

(* Mutant: the UPDATE names the request only. *)
RowMatches_blind(row, c, loaded) == TRUE

(* Its WHERE clause: status = request.status as loaded, except for the     *)
(* hedged claim, which tests winner_provider IS NULL and nothing else.     *)
RowMatches(row, c, loaded) ==
    IF c.op = "claim" THEN row.winner = NoOne ELSE row.status = loaded.status

-----------------------------------------------------------------------------
(* Steps of a service call. *)

Load(s, r, c) ==
    LET loaded == IF seen[s].status = "ABSENT" THEN Row(s, r) ELSE seen[s]
    IN  /\ job' = [job EXCEPT ![s] = r]
        /\ call' = [call EXCEPT ![s] = c]
        /\ seen' = [seen EXCEPT ![s] = loaded]
        /\ stage' = [stage EXCEPT ![s] = Check(loaded, c)]

Begin(s, r, c) == Load(s, r, c) /\ UNCHANGED <<ledger, locks>>

(* create_request.  The INSERT of a request another session is inserting   *)
(* waits for it; if that one commits, the IntegrityError branch reads the  *)
(* row and compares it like the branch that had found it at once.          *)
BeginCreate(s, r, payload) ==
    LET row == Row(s, r)
        new == [AbsentRow EXCEPT !.status = "CREATED", !.payload = payload]
    IN  /\ job' = [job EXCEPT ![s] = r]
        /\ call' = [call EXCEPT ![s] = create]
        /\ IF row.status # "ABSENT"
           THEN /\ seen' = [seen EXCEPT ![s] = row]
                /\ stage' = [stage EXCEPT ![s] =
                                IF row.payload = payload THEN "returned" ELSE "raised"]
                /\ UNCHANGED locks
           ELSE /\ requestLock[r] = NoOne
                /\ requestLock' = [requestLock EXCEPT ![r] = s]
                /\ requestNew' = [requestNew EXCEPT ![r] = new]
                /\ seen' = [seen EXCEPT ![s] = new]
                /\ stage' = [stage EXCEPT ![s] = "returned"]
                /\ UNCHANGED <<budgetLock, budgetNew, tries>>
        /\ UNCHANGED ledger

(* record_attempt: UNIQUE(request_id, attempt_number); the INSERT waits    *)
(* for an uncommitted row of the same key.  A duplicate rolls back and     *)
(* raises.  Nothing ties the attempt to the request's status.              *)
BeginAttempt(s, r, n) ==
    /\ job' = [job EXCEPT ![s] = r]
    /\ call' = [call EXCEPT ![s] = record_attempt(n)]
    /\ \A q \in Sessions \ {s} : ~(job[q] = r /\ tries[q][n] # "none")
    /\ IF Attempt(s, r, n) = "none" /\ Row(s, r).status # "ABSENT"
       THEN /\ tries' = [tries EXCEPT ![s][n] = "IN_FLIGHT"]
            /\ stage' = [stage EXCEPT ![s] = "returned"]
       ELSE /\ stage' = [stage EXCEPT ![s] = "raised"]
            /\ UNCHANGED tries
    /\ UNCHANGED <<ledger, budgetLock, budgetNew, requestLock, requestNew, seen>>

(* try_claim_winner reads nothing before its UPDATE. *)
BeginClaim(s, r) ==
    /\ job' = [job EXCEPT ![s] = r]
    /\ call' = [call EXCEPT ![s] = try_claim_winner]
    /\ stage' = [stage EXCEPT ![s] = "row"]
    /\ UNCHANGED <<ledger, locks, seen>>

BudgetStep(s) ==
    /\ stage[s] = "budget"
    /\ budgetLock \in {s, NoOne}
    /\ LET u == BudgetUpdate(Budget(s), seen[s], call[s])
       IN  IF u.ok
           THEN /\ budgetLock' = s
                /\ budgetNew' = u.row
                /\ stage' = [stage EXCEPT ![s] = "row"]
           ELSE /\ stage' = [stage EXCEPT ![s] = "raised"]
                /\ UNCHANGED <<budgetLock, budgetNew>>
    /\ UNCHANGED <<ledger, requestLock, requestNew, tries, job, call, seen>>

RowStep(s) ==
    LET r == job[s]
        row == Row(s, r)
    IN  /\ stage[s] = "row"
        /\ requestLock[r] \in {s, NoOne}
        /\ IF row.status # "ABSENT" /\ RowMatches(row, call[s], seen[s])
           THEN /\ requestLock' = [requestLock EXCEPT ![r] = s]
                /\ requestNew' = [requestNew EXCEPT ![r] = RowUpdate(row, call[s], s)]
                /\ seen' = [seen EXCEPT ![s] = RowUpdate(row, call[s], s)]
                /\ stage' = [stage EXCEPT ![s] = "returned"]
           ELSE /\ stage' = [stage EXCEPT ![s] =
                                IF call[s].op = "claim" THEN "returned" ELSE "raised"]
                /\ UNCHANGED <<requestLock, requestNew, seen>>
        /\ UNCHANGED <<ledger, budgetLock, budgetNew, tries, job, call>>

-----------------------------------------------------------------------------
(* The end of a transaction. *)

NoTries == [n \in 1 .. MaxAttempts |-> "none"]

EndSession(s) ==
    /\ budgetLock' = IF budgetLock = s THEN NoOne ELSE budgetLock
    /\ requestLock' = [r \in Requests |-> IF requestLock[r] = s THEN NoOne ELSE requestLock[r]]
    /\ tries' = [tries EXCEPT ![s] = NoTries]
    /\ job' = [job EXCEPT ![s] = NoOne]
    /\ stage' = [stage EXCEPT ![s] = "idle"]
    /\ call' = [call EXCEPT ![s] = NoCall]
    /\ seen' = [seen EXCEPT ![s] = AbsentRow]
    /\ budgetNew' = IF budgetLock = s THEN NewBudget ELSE budgetNew
    /\ requestNew' = [r \in Requests |-> IF requestLock[r] = s THEN AbsentRow ELSE requestNew[r]]

Commit(s) ==
    /\ budget' = Budget(s)
    /\ request' = [r \in Requests |-> Row(s, r)]
    /\ attempt' = IF job[s] = NoOne THEN attempt
                  ELSE [attempt EXCEPT ![job[s]] = [n \in 1 .. MaxAttempts |-> Attempt(s, job[s], n)]]
    /\ EndSession(s)

Rollback(s) ==
    /\ UNCHANGED ledger
    /\ EndSession(s)

(* The rows session s waits for, and a cycle of two waits.  PostgreSQL     *)
(* aborts one of the sessions of such a cycle.                             *)
WaitsFor(s, q) ==
    \/ stage[s] = "budget" /\ budgetLock = q
    \/ stage[s] = "row" /\ requestLock[job[s]] = q

Deadlocked(s) == \E q \in Sessions \ {s} : WaitsFor(s, q) /\ WaitsFor(q, s)

-----------------------------------------------------------------------------
(* A stepwise caller: one call of the service, in any order, committed     *)
(* when it returns and rolled back when it raises.  The process may die    *)
(* at any point of it.  transition_status would also accept RESERVED and   *)
(* the terminal states, and would then leave reserved_tokens alone;        *)
(* execute() asks for the three working states only, and so does a caller. *)

CallerBegins(s) ==
    /\ stage[s] = "idle"
    /\ \E r \in Requests :
        \/ \E p \in Payloads : BeginCreate(s, r, p)
        \/ \E n \in Estimates : Begin(s, r, reserve_budget(n))
        \/ \E from \in AllStates :
           \E to \in AllowedTransitions[from] \cap {"ROUTED", "IN_FLIGHT", "PROVIDER_FAILED"} :
              Begin(s, r, transition_status(from, to))
        \/ \E c \in Charges : Begin(s, r, commit_execution(c))
        \/ \E to \in {"FAILED", "CANCELLED"} : Begin(s, r, release_reservation(to))
        \/ \E n \in Recorded : BeginAttempt(s, r, n)
        \/ r \in Hedged /\ BeginClaim(s, r)

(* Mutant: the caller commits what a failed call has left behind. *)
Raised_commits(s) == stage[s] = "raised" /\ Commit(s)

CallerCommits(s) == stage[s] = "returned" /\ Commit(s)
Raised(s) == stage[s] = "raised" /\ Rollback(s)
Crash(s) == stage[s] # "idle" /\ Rollback(s)
DeadlockAbort(s) == Deadlocked(s) /\ Rollback(s)

AIRequestInit ==
    /\ budget = NewBudget /\ budgetNew = NewBudget /\ budgetLock = NoOne
    /\ request = [r \in Requests |-> AbsentRow]
    /\ requestNew = [r \in Requests |-> AbsentRow]
    /\ requestLock = [r \in Requests |-> NoOne]
    /\ attempt = [r \in Requests |-> NoTries]
    /\ tries = [s \in Sessions |-> NoTries]
    /\ job = [s \in Sessions |-> NoOne]
    /\ stage = [s \in Sessions |-> "idle"]
    /\ call = [s \in Sessions |-> NoCall]
    /\ seen = [s \in Sessions |-> AbsentRow]

=============================================================================
