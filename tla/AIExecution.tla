----------------------------- MODULE AIExecution -----------------------------
(***************************************************************************)
(* ProviderExecutionService.execute (ai/execution.py): create, reserve,    *)
(* then up to MaxAttempts rounds of route, call, settle, in one session    *)
(* whose caller commits when execute returns and rolls back when it        *)
(* raises.  Executors run beside the stepwise callers of AIRequest, on the *)
(* same budget and the same requests.  Which provider is routed to is the  *)
(* subject of ProviderRouting; here the router either finds one or none.   *)
(***************************************************************************)
EXTENDS AIRequest, FailureClassifier

CONSTANTS
    Asked,      \* [Executors -> SUBSET Requests]: the requests it is given
    Payload,    \* [Executors -> Payloads]: and what it sends for them
    Estimate    \* estimated_input_tokens + estimated_output_tokens

ASSUME AIExecutionAssumption ==
    /\ Asked \in [Executors -> SUBSET Requests]
    /\ Payload \in [Executors -> Payloads]
    /\ Estimate \in Nat \ {0}

VARIABLES
    step,       \* the last call execute made
    number,     \* attempt_number
    again       \* the verdict of RetryPolicy.evaluate on the last failure

executeVars == <<step, number, again>>
vars == <<aiVars, executeVars>>

-----------------------------------------------------------------------------
(* Control of execute. *)

Returned(s, x) == s \in Executors /\ stage[s] = "returned" /\ step[s] = x

Goto(s, x) == step' = [step EXCEPT ![s] = x] /\ UNCHANGED <<number, again>>

ExecuteCreate(s) ==
    /\ stage[s] = "idle"
    /\ \E r \in Asked[s] : BeginCreate(s, r, Payload[s])
    /\ step' = [step EXCEPT ![s] = "create"]
    /\ number' = [number EXCEPT ![s] = 1]
    /\ UNCHANGED again

ExecuteReserve(s) ==
    /\ Returned(s, "create")
    /\ Begin(s, job[s], reserve_budget(Estimate))
    /\ Goto(s, "select")

(* The status execute expects the request to have when it routes. *)
BeforeRouting(s) == IF number[s] = 1 THEN "RESERVED" ELSE "PROVIDER_FAILED"

ExecuteRoute(s) ==
    /\ Returned(s, "select")
    /\ Begin(s, job[s], transition_status(BeforeRouting(s), "ROUTED"))
    /\ Goto(s, "route")

(* select_provider raised NoEligibleProviderError. *)
ExecuteNoProvider(s) ==
    /\ Returned(s, "select")
    /\ seen[s].status = BeforeRouting(s)
    /\ Begin(s, job[s], release_reservation("FAILED"))
    /\ Goto(s, "giveup")

ExecuteFly(s) ==
    /\ Returned(s, "route")
    /\ Begin(s, job[s], transition_status("ROUTED", "IN_FLIGHT"))
    /\ Goto(s, "fly")

ExecuteAttempt(s) ==
    /\ Returned(s, "fly")
    /\ BeginAttempt(s, job[s], number[s])
    /\ Goto(s, "attempt")

(* The provider answers: the attempt is marked and the usage is charged. *)
ExecuteSucceeds(s) ==
    /\ Returned(s, "attempt")
    /\ tries' = [tries EXCEPT ![s][number[s]] = "COMPLETED"]
    /\ \E c \in Charges : Load(s, job[s], commit_execution(c))
    /\ Goto(s, "settled")
    /\ UNCHANGED <<ledger, budgetLock, budgetNew, requestLock, requestNew>>

(* RetryPolicy.evaluate: only a retryable provider failure is tried again, *)
(* and the last attempt is final.                                          *)
ShouldRetry(s, c) == c.retryable /\ c.provider_failure /\ number[s] < MaxAttempts

ExecuteFails(s) ==
    /\ Returned(s, "attempt")
    /\ tries' = [tries EXCEPT ![s][number[s]] = "FAILED"]
    /\ Load(s, job[s], transition_status("IN_FLIGHT", "PROVIDER_FAILED"))
    /\ \E hint \in ErrorClasses :
          again' = [again EXCEPT ![s] = ShouldRetry(s, classify(hint))]
    /\ step' = [step EXCEPT ![s] = "failed"]
    /\ UNCHANGED <<ledger, budgetLock, budgetNew, requestLock, requestNew, number>>

(* The executor raises something that is not a timeout: execute does not   *)
(* catch it.                                                               *)
ExecuteBlowsUp(s) ==
    /\ Returned(s, "attempt")
    /\ stage' = [stage EXCEPT ![s] = "raised"]
    /\ UNCHANGED <<ledger, locks, job, call, seen, executeVars>>

ExecuteRetries(s) ==
    /\ Returned(s, "failed") /\ again[s]
    /\ number' = [number EXCEPT ![s] = @ + 1]
    /\ step' = [step EXCEPT ![s] = "select"]
    /\ UNCHANGED <<aiVars, again>>

ExecuteExhausted(s) ==
    /\ Returned(s, "failed") /\ ~again[s]
    /\ Begin(s, job[s], release_reservation("FAILED"))
    /\ Goto(s, "settled")

(* The exits.  Without a provider on the first attempt there is no last    *)
(* response: the exception leaves execute after release_reservation, and   *)
(* the caller's rollback takes the release back with everything else.      *)
EndExecute(s) ==
    /\ step' = [step EXCEPT ![s] = "idle"]
    /\ number' = [number EXCEPT ![s] = 1]
    /\ again' = [again EXCEPT ![s] = FALSE]

ExecuteReturns(s) ==
    /\ Returned(s, "settled") \/ (Returned(s, "giveup") /\ number[s] > 1)
    /\ Commit(s)
    /\ EndExecute(s)

ExecuteReraises(s) ==
    /\ Returned(s, "giveup") /\ number[s] = 1
    /\ Rollback(s)
    /\ EndExecute(s)

-----------------------------------------------------------------------------
ExecuteNext(s) ==
    \/ ExecuteReserve(s) \/ ExecuteRoute(s) \/ ExecuteNoProvider(s)
    \/ ExecuteFly(s) \/ ExecuteAttempt(s)
    \/ ExecuteSucceeds(s) \/ ExecuteFails(s) \/ ExecuteBlowsUp(s)
    \/ ExecuteRetries(s) \/ ExecuteExhausted(s)
    \/ ExecuteReturns(s) \/ ExecuteReraises(s)

(* What a session does by itself once a call has begun. *)
Proceed(s) ==
    \/ BudgetStep(s) /\ UNCHANGED executeVars
    \/ RowStep(s) /\ UNCHANGED executeVars
    \/ Raised(s) /\ (IF s \in Executors THEN EndExecute(s) ELSE UNCHANGED executeVars)
    \/ s \in Callers /\ CallerCommits(s) /\ UNCHANGED executeVars
    \/ s \in Executors /\ ExecuteNext(s)

Interrupted(s) ==
    /\ Crash(s)
    /\ IF s \in Executors THEN EndExecute(s) ELSE UNCHANGED executeVars

Aborted(s) ==
    /\ DeadlockAbort(s)
    /\ IF s \in Executors THEN EndExecute(s) ELSE UNCHANGED executeVars

Init ==
    /\ AIRequestInit
    /\ step = [s \in Executors |-> "idle"]
    /\ number = [s \in Executors |-> 1]
    /\ again = [s \in Executors |-> FALSE]

Next ==
    \/ \E s \in Callers : CallerBegins(s) /\ UNCHANGED executeVars
    \/ \E s \in Executors : ExecuteCreate(s)
    \/ \E s \in Sessions : Proceed(s) \/ Interrupted(s) \/ Aborted(s)

Spec == Init /\ [][Next]_vars

-----------------------------------------------------------------------------
(* Properties. *)

Rows == [status : AllStates \cup {"ABSENT"}, payload : Payloads \cup {NoOne},
         reserved : Nat, committed : Nat, cost : Nat,
         winner : Sessions \cup {NoOne}, granted : Nat]

BudgetRows == [used : Nat, reserved : Nat, cost : Nat]

AttemptStates == {"none", "IN_FLIGHT", "COMPLETED", "FAILED"}

(* Type invariant of the ledger and of the sessions. *)
TypeOK ==
    /\ budget \in BudgetRows /\ budgetNew \in BudgetRows
    /\ request \in [Requests -> Rows] /\ requestNew \in [Requests -> Rows]
    /\ budgetLock \in Sessions \cup {NoOne}
    /\ requestLock \in [Requests -> Sessions \cup {NoOne}]
    /\ attempt \in [Requests -> [1 .. MaxAttempts -> AttemptStates]]
    /\ tries \in [Sessions -> [1 .. MaxAttempts -> AttemptStates]]
    /\ job \in [Sessions -> Requests \cup {NoOne}]
    /\ stage \in [Sessions -> {"idle", "budget", "row", "returned", "raised"}]
    /\ call \in [Sessions -> Calls] /\ seen \in [Sessions -> Rows]
    /\ step \in [Executors -> {"idle", "create", "select", "route", "fly", "attempt",
                               "failed", "giveup", "settled"}]
    /\ number \in [Executors -> 1 .. MaxAttempts]
    /\ again \in [Executors -> BOOLEAN]

(* The budget counters are the books of the requests: the reserved tokens  *)
(* are those the requests hold, the used tokens and the cost those they    *)
(* were charged.  A reservation or a charge applied twice, or kept by one  *)
(* table only after a lost compare-and-set, breaks it (budget.py, the two  *)
(* UPDATEs of reserve_budget, commit_execution and release_reservation).   *)
BudgetIsLedger ==
    /\ budget.reserved = SumFunction([r \in Requests |-> request[r].reserved])
    /\ budget.used = SumFunction([r \in Requests |-> request[r].committed])
    /\ budget.cost = SumFunction([r \in Requests |-> request[r].cost])

(* How much more a request was charged than it had reserved.               *)
Overrun(row) == IF row.committed > row.granted THEN row.committed - row.granted ELSE 0

(* commit_tokens never compares usage with token_limit.  What saves the    *)
(* limit is that only reservations grow the total: it is exceeded by no    *)
(* more than the answers that cost more than their requests had reserved.  *)
OverdraftIsOverrun ==
    budget.used + budget.reserved <=
        TokenLimit + SumFunction([r \in Requests |-> Overrun(request[r])])

(* A finished request holds no tokens and an unfinished one past CREATED   *)
(* holds what it was granted: no crash, conflict or deadlock victim leaves *)
(* tokens with a request that can no longer give them back.                *)
ReservationFollowsStatus ==
    \A r \in Requests :
        request[r].reserved =
            IF request[r].status \in TerminalStates \cup {"ABSENT", "CREATED"}
            THEN 0 ELSE request[r].granted

(* An answer is charged, once: a COMPLETED attempt belongs to a COMPLETED  *)
(* request and is its only one, although the attempt is marked before      *)
(* commit_execution, which may still raise, and although two executions    *)
(* of one request_id may run side by side.                                 *)
AnswerIsCharged ==
    \A r \in Requests :
        LET answered == {n \in 1 .. MaxAttempts : attempt[r][n] = "COMPLETED"}
        IN  /\ answered # {} => request[r].status = "COMPLETED"
            /\ Cardinality(answered) <= 1

(* A terminal request keeps its status and its charge, and a hedged        *)
(* request its winner, whatever sessions with an older copy still do.      *)
SettledIsFinal ==
    [][\A r \in Requests :
        /\ request[r].status \in TerminalStates =>
              /\ request'[r].status = request[r].status
              /\ request'[r].committed = request[r].committed
        /\ request[r].winner # NoOne => request'[r].winner = request[r].winner]_vars

=============================================================================
