-------------------------- MODULE AIExecutionProofs --------------------------
(***************************************************************************)
(* What the request ledger and ProviderExecutionService.execute guarantee  *)
(* for every finite set of requests and any number of sessions.            *)
(*                                                                         *)
(* A service method checks the row it has loaded, updates the budget, then *)
(* the row by a compare-and-set on the status alone, and other sessions    *)
(* commit in between.  The inductive invariant therefore says              *)
(*   - that status decides the tokens of a row (Sane) and that a row only  *)
(*     moves on (Since): a row whose status still matches the loaded one   *)
(*     holds the same tokens, although nobody compared them;               *)
(*   - that what a session has changed in the budget and not committed is  *)
(*     what it has changed, or is about to change, in its request (Booked) *)
(*     and was within the limit (Covered);                                 *)
(*   - that a session that marked an attempt COMPLETED has the row locked. *)
(* The sums over all requests change by one row per commit (SumUpdate).    *)
(***************************************************************************)
EXTENDS AIExecution, FiniteSetTheorems, TLAPS

-----------------------------------------------------------------------------
(* Sums.                                                                   *)

(* SumFunction adds up f along the subsets of its domain, the one element  *)
(* that CHOOSE names being taken from each: this is the function it is     *)
(* defined by.                                                             *)
Named(s) == CHOOSE x \in s : TRUE

Recursion(D, f, g) ==
    g = [s \in SUBSET D |-> IF s = {} THEN 0 ELSE f[Named(s)] + g[s \ {Named(s)}]]

(* A set of subsets of a finite set has a minimal member.  Facts about all *)
(* subsets are proved by taking a minimal counterexample.                  *)
LEMMA LeastSubset ==
  ASSUME NEW D, IsFiniteSet(D), NEW S, S \subseteq SUBSET D, S # {}
  PROVE  \E x \in S : \A y \in S : y \subseteq x => y = x
<1> DEFINE less == StrictSubsetOrdering(D)
           finite == FiniteSubsetsOf(D)
<1>1. S \subseteq finite
  BY FS_Subset DEF FiniteSubsetsOf
<1>2. IsWellFoundedOn(less, finite)
  BY FS_StrictSubsetOrderingWellFounded
<1>3. \E x \in S : \A y \in S : ~(<<y, x>> \in less)
  <2> HIDE DEF less, finite
  <2> QED BY <1>1, <1>2, WFMin
<1> QED
  BY <1>3 DEF StrictSubsetOrdering

(* Two functions defined by this recursion agree where both are defined,   *)
LEMMA RecursionUnique ==
  ASSUME NEW D, IsFiniteSet(D), NEW f, NEW s \in SUBSET D, NEW u \in SUBSET D, NEW g, NEW h,
         Recursion(s, f, g), Recursion(u, f, h), NEW x, x \subseteq s, x \subseteq u
  PROVE  g[x] = h[x]
<1> DEFINE Bad == {y \in SUBSET D : y \subseteq s /\ y \subseteq u /\ g[y] # h[y]}
<1>1. SUFFICES ASSUME Bad # {} PROVE FALSE
  OBVIOUS
<1>2. PICK y \in Bad : \A z \in Bad : z \subseteq y => z = y
  <2>1. Bad \subseteq SUBSET D
    OBVIOUS
  <2> HIDE DEF Bad
  <2> QED BY <1>1, <2>1, LeastSubset
<1>3. CASE y = {}
  BY <1>3 DEF Recursion
<1>4. CASE y # {}
  <2>1. Named(y) \in y
    BY <1>4 DEF Named
  <2>2. y \ {Named(y)} \notin Bad
    BY <1>2, <2>1
  <2>3. g[y] = f[Named(y)] + g[y \ {Named(y)}] /\ h[y] = f[Named(y)] + h[y \ {Named(y)}]
    BY <1>4 DEF Recursion
  <2> QED
    BY <2>2, <2>3
<1> QED
  BY <1>3, <1>4

(* and there is one for every finite set,                                  *)
LEMMA RecursionExists ==
  ASSUME NEW D, IsFiniteSet(D), NEW f
  PROVE  \E g : Recursion(D, f, g)
<1> DEFINE Bad == {s \in SUBSET D : ~ \E g : Recursion(s, f, g)}
           fun(s) == CHOOSE g : Recursion(s, f, g)
<1>1. SUFFICES ASSUME Bad # {} PROVE FALSE
  OBVIOUS
<1>2. PICK T \in Bad : \A z \in Bad : z \subseteq T => z = T
  <2>1. Bad \subseteq SUBSET D
    OBVIOUS
  <2> HIDE DEF Bad
  <2> QED BY <1>1, <2>1, LeastSubset
<1>3. ASSUME NEW s \in SUBSET T, s # {} PROVE Named(s) \in s /\ s \ {Named(s)} # T
  BY <1>3 DEF Named
<1>4. \A s \in SUBSET T : s # T => Recursion(s, f, fun(s))
  BY <1>2
<1> HIDE DEF fun
<1> DEFINE G == [s \in SUBSET T |-> IF s = {} THEN 0 ELSE f[Named(s)] + fun(s \ {Named(s)})[s \ {Named(s)}]]
<1>5. ASSUME NEW u \in SUBSET T, u # T PROVE G[u] = fun(u)[u]
  <2>1. Recursion(u, f, fun(u))
    BY <1>4, <1>5
  <2>2. CASE u = {}
    BY <2>1, <2>2 DEF Recursion
  <2>3. CASE u # {}
    <3> DEFINE v == u \ {Named(u)}
    <3>1. v \in SUBSET T /\ v # T /\ v \subseteq u
      BY <1>3, <2>3
    <3>2. Recursion(v, f, fun(v))
      BY <1>4, <3>1
    <3>3. fun(u)[u] = f[Named(u)] + fun(u)[v]
      BY <2>1, <2>3 DEF Recursion
    <3>4. G[u] = f[Named(u)] + fun(v)[v]
      BY <2>3
    <3>5. u \in SUBSET D /\ v \in SUBSET D
      BY <3>1
    <3> HIDE DEF v, G
    <3>6. fun(u)[v] = fun(v)[v]
      BY <2>1, <3>1, <3>2, <3>5, RecursionUnique
    <3> QED
      BY <3>3, <3>4, <3>6
  <2> QED
    BY <2>2, <2>3
<1>6. \A s \in SUBSET T : G[s] = IF s = {} THEN 0 ELSE f[Named(s)] + G[s \ {Named(s)}]
  <2> SUFFICES ASSUME NEW s \in SUBSET T, s # {} PROVE G[s] = f[Named(s)] + G[s \ {Named(s)}]
    OBVIOUS
  <2>1. G[s] = f[Named(s)] + fun(s \ {Named(s)})[s \ {Named(s)}]
    OBVIOUS
  <2> HIDE DEF G
  <2> QED
    BY <1>3, <1>5, <2>1
<1>7. Recursion(T, f, G)
  BY <1>6 DEF Recursion
<1> QED
  BY <1>7

(* so SumFunction is what its recursion says.                              *)
LEMMA SumByRecursion ==
  ASSUME NEW f, IsFiniteSet(DOMAIN f)
  PROVE  \E g : Recursion(DOMAIN f, f, g) /\ SumFunction(f) = g[DOMAIN f]
<1>1. SumFunction(f) = (CHOOSE g : Recursion(DOMAIN f, f, g))[DOMAIN f]
  BY DEF SumFunction, SumFunctionOnSet, FoldFunctionOnSet, MapThenFoldSet, Recursion, Named
<1> QED
  BY <1>1, RecursionExists

(* Changing f in one place changes the sum by the difference.              *)
LEMMA SumUpdate ==
  ASSUME NEW D, IsFiniteSet(D), NEW f \in [D -> Nat], NEW h \in [D -> Nat],
         NEW r \in D, \A x \in D \ {r} : h[x] = f[x]
  PROVE  /\ SumFunction(f) \in Nat /\ SumFunction(h) \in Nat
         /\ SumFunction(h) + f[r] = SumFunction(f) + h[r]
<1>1. PICK F : Recursion(D, f, F) /\ SumFunction(f) = F[D]
  BY SumByRecursion
<1>2. PICK H : Recursion(D, h, H) /\ SumFunction(h) = H[D]
  BY SumByRecursion
<1> DEFINE Good(s) == /\ F[s] \in Nat /\ H[s] \in Nat
                      /\ IF r \in s THEN H[s] + f[r] = F[s] + h[r] ELSE H[s] = F[s]
           Bad == {s \in SUBSET D : ~Good(s)}
<1>3. Bad = {}
  <2>1. SUFFICES ASSUME Bad # {} PROVE FALSE
    OBVIOUS
  <2>2. PICK s \in Bad : \A z \in Bad : z \subseteq s => z = s
    <3>1. Bad \subseteq SUBSET D
      OBVIOUS
    <3> HIDE DEF Bad
    <3> QED BY <2>1, <3>1, LeastSubset
  <2>3. s # {}
    BY <1>1, <1>2, <2>2 DEF Recursion
  <2> DEFINE x == Named(s)
             u == s \ {x}
  <2>4. x \in s /\ x \in D
    BY <2>3 DEF Named
  <2>5. Good(u)
    BY <2>2, <2>4
  <2>6. F[s] = f[x] + F[u] /\ H[s] = h[x] + H[u]
    BY <1>1, <1>2, <2>3 DEF Recursion
  <2>7. f[x] \in Nat /\ h[x] \in Nat /\ f[r] \in Nat /\ h[r] \in Nat /\ (x # r => h[x] = f[x])
    BY <2>4
  <2>8. (r \in s <=> r \in u \/ r = x) /\ (x = r => r \notin u)
    BY <2>4
  <2> HIDE DEF x, u
  <2>9. Good(s)
    BY <2>5, <2>6, <2>7, <2>8
  <2> QED
    BY <2>9
<1> QED
  BY <1>1, <1>2, <1>3

-----------------------------------------------------------------------------
(* The inductive invariant.                                                *)

(* The status of a row decides which tokens it holds.                      *)
Sane(row) ==
    /\ row.reserved = IF row.status \in TerminalStates \cup {"ABSENT", "CREATED"} THEN 0 ELSE row.granted
    /\ row.status # "COMPLETED" => row.committed = 0 /\ row.cost = 0
    /\ row.status = "ABSENT" => row.winner = NoOne

(* The row new is old or came after it.                                    *)
Since(old, new) ==
    /\ old.status # "ABSENT" => new.status # "ABSENT"
    /\ old.status \notin {"ABSENT", "CREATED"} => new.status \notin {"ABSENT", "CREATED"} /\ new.granted = old.granted
    /\ old.status \in TerminalStates =>
          new.status = old.status /\ new.committed = old.committed /\ new.cost = old.cost
    /\ old.winner # NoOne => new.winner = old.winner

(* A locked row is ahead of the committed one, and its session has read    *)
(* it.                                                                     *)
RowInv(r) ==
    /\ Sane(request[r]) /\ Sane(requestNew[r])
    /\ requestLock[r] # NoOne =>
          /\ Since(request[r], requestNew[r])
          /\ job[requestLock[r]] = r
          /\ seen[requestLock[r]] = requestNew[r]

Working == {"budget", "row", "returned"}
BudgetOps == {"reserve", "commit", "release"}
WorkStates == {"ROUTED", "IN_FLIGHT", "PROVIDER_FAILED"}

(* The call c has passed its checks on the loaded row.                     *)
Passed(row, c) ==
    \/ c.op \in BudgetOps /\ Check(row, c) \in {"budget", "row"}
    \/ c.op = "transition" /\ Check(row, c) = "row" /\ c.to \in WorkStates

(* A session read its row before it is where it is now, and the call that  *)
(* is under way has passed its checks.                                     *)
CallInv(s) ==
    /\ stage[s] = "idle" <=> job[s] = NoOne
    /\ stage[s] = "idle" => seen[s].status = "ABSENT" /\ tries[s] = NoTries
    /\ budgetLock = s => stage[s] # "idle"
    /\ Sane(seen[s])
    /\ seen[s].status # "ABSENT" => Since(seen[s], Row(s, job[s]))
    /\ stage[s] = "budget" => call[s].op \in BudgetOps /\ Check(seen[s], call[s]) = "budget"
    /\ stage[s] = "row" => call[s].op = "claim" \/ Passed(seen[s], call[s])
    /\ call[s].op = "release" => call[s].to \in {"FAILED", "CANCELLED"}

(* The row as the session's pending UPDATE would leave it.                 *)
After(s) == IF stage[s] = "row" /\ call[s].op # "claim" THEN RowUpdate(seen[s], call[s], s) ELSE seen[s]

(* A session's private budget (new), the committed one (old), its private  *)
(* row and the committed one, and the loaded row before and after the      *)
(* pending UPDATE.                                                         *)
Balanced(new, old, rowNew, rowOld, loaded, after) ==
    /\ new.reserved + rowOld.reserved + loaded.reserved = old.reserved + rowNew.reserved + after.reserved
    /\ new.used + rowOld.committed + loaded.committed = old.used + rowNew.committed + after.committed
    /\ new.cost + rowOld.cost + loaded.cost = old.cost + rowNew.cost + after.cost

(* A session's budget and row, with its pending UPDATE, are in balance     *)
(* with the committed ones.                                                *)
Booked(s) ==
    stage[s] \in Working => Balanced(Budget(s), budget, Row(s, job[s]), request[job[s]], seen[s], After(s))

TotalOverrun == SumFunction([r \in Requests |-> Overrun(request[r])])

(* The budget a session would commit is within the limit, overruns apart.  *)
Covered(s) ==
    stage[s] \in Working /\ budgetLock = s =>
        budgetNew.used + budgetNew.reserved + Overrun(request[job[s]]) + Overrun(seen[s])
            <= TokenLimit + TotalOverrun + Overrun(Row(s, job[s])) + Overrun(After(s))

(* The request is in the hands of s.                                       *)
Flying(s) == requestLock[job[s]] = s /\ seen[s].status = "IN_FLIGHT"

(* Where execute is, and what the session has by then.                     *)
ExecuteInv(s) ==
    /\ step[s] = "idle" <=> stage[s] = "idle"
    /\ step[s] = "fly" => call[s].op = "transition" /\ call[s].to = "IN_FLIGHT" /\ stage[s] # "budget"
    /\ step[s] = "attempt" => stage[s] \in {"returned", "raised"}
    /\ step[s] \in {"fly", "attempt"} /\ stage[s] = "returned" => Flying(s)
    /\ step[s] = "failed" /\ again[s] => number[s] < MaxAttempts

(* Only an execution that is settling has marked an attempt COMPLETED, the *)
(* last one, and it has the row locked.                                    *)
AnswerInv(s) ==
    \A n \in 1 .. MaxAttempts : tries[s][n] = "COMPLETED" =>
        /\ s \in Executors /\ step[s] = "settled" /\ n = number[s]
        /\ call[s].op = "commit"
        /\ requestLock[job[s]] = s
        /\ request[job[s]].status \notin TerminalStates
        /\ stage[s] = "returned" => seen[s].status = "COMPLETED"

IInv ==
    /\ TypeOK
    /\ \A r \in Requests : RowInv(r)
    /\ \A s \in Sessions : CallInv(s) /\ Booked(s) /\ Covered(s) /\ AnswerInv(s)
    /\ \A s \in Executors : ExecuteInv(s)
    /\ BudgetIsLedger /\ OverdraftIsOverrun /\ AnswerIsCharged

-----------------------------------------------------------------------------
(* Rows and calls.                                                         *)

(* The types of the fields of a row,                                       *)
LEMMA RowFields ==
  ASSUME NEW row \in Rows
  PROVE  /\ row.status \in AllStates \cup {"ABSENT"} /\ row.winner \in Sessions \cup {NoOne}
         /\ row.reserved \in Nat /\ row.committed \in Nat /\ row.cost \in Nat /\ row.granted \in Nat
BY DEF Rows

(* and of a call.                                                          *)
LEMMA CallFields ==
  ASSUME NEW c \in Calls
  PROVE  c.to \in AllStates /\ c.from \in AllStates /\ c.tokens \in Nat /\ c.cost \in Nat
BY DEF Calls

(* The transition table.                                                   *)
LEMMA StateFacts ==
  /\ AllStates = {"CREATED", "RESERVED", "ROUTED", "IN_FLIGHT", "PROVIDER_FAILED", "COMPLETED", "FAILED", "CANCELLED"}
  /\ \A x : ValidTransition(x, "RESERVED") => x = "CREATED"
  /\ \A x : ValidTransition(x, "COMPLETED") => x = "IN_FLIGHT"
  /\ ValidTransition("IN_FLIGHT", "COMPLETED")
  /\ \A x, y : ValidTransition(x, y) /\ y \in WorkStates => x \in {"RESERVED", "ROUTED", "IN_FLIGHT", "PROVIDER_FAILED"}
<1>1. AllStates = {"CREATED", "RESERVED", "ROUTED", "IN_FLIGHT", "PROVIDER_FAILED", "COMPLETED", "FAILED", "CANCELLED"}
  BY DEF AllStates, TerminalStates
<1>2. /\ AllowedTransitions["CREATED"] = {"RESERVED", "CANCELLED", "FAILED"}
      /\ AllowedTransitions["RESERVED"] = {"ROUTED", "CANCELLED", "FAILED"}
      /\ AllowedTransitions["ROUTED"] = {"IN_FLIGHT", "PROVIDER_FAILED", "FAILED", "CANCELLED"}
      /\ AllowedTransitions["IN_FLIGHT"] = {"COMPLETED", "PROVIDER_FAILED", "FAILED", "CANCELLED"}
      /\ AllowedTransitions["PROVIDER_FAILED"] = {"ROUTED", "FAILED", "CANCELLED"}
      /\ AllowedTransitions["COMPLETED"] = {} /\ AllowedTransitions["FAILED"] = {} /\ AllowedTransitions["CANCELLED"] = {}
  BY <1>1 DEF AllowedTransitions
<1>3. \A x, y : ValidTransition(x, y) <=> x \in AllStates /\ y \in AllowedTransitions[x]
  BY DEF ValidTransition
<1> QED
  BY <1>1, <1>2, <1>3 DEF WorkStates

(* What it means that a call passed its checks, operation by operation.    *)
LEMMA CheckFacts ==
  ASSUME NEW row, NEW c
  PROVE  /\ c.op \in BudgetOps \cup {"transition"} => Check(row, c) \in {"raised", "returned", "budget", "row"}
         /\ row.status = "ABSENT" => Check(row, c) = "raised"
         /\ c.op = "reserve" /\ Check(row, c) \in {"budget", "row"} => row.status = "CREATED" /\ Check(row, c) = "budget"
         /\ c.op = "commit" /\ Check(row, c) \in {"budget", "row"} => row.status = "IN_FLIGHT" /\ Check(row, c) = "budget"
         /\ c.op = "commit" /\ row.status = "IN_FLIGHT" => Check(row, c) = "budget"
         /\ c.op = "release" /\ Check(row, c) \in {"budget", "row"} =>
               row.status \notin TerminalStates \cup {"ABSENT"} /\ (Check(row, c) = "row" => ~(row.reserved > 0))
         /\ c.op = "transition" => Check(row, c) # "budget"
         /\ c.op = "transition" /\ Check(row, c) \in {"returned", "row"} =>
               Check(row, c) = "row" /\ row.status = c.from /\ ValidTransition(c.from, c.to)
<1>1. CASE row.status = "ABSENT"
  <2>1. \A x : ~ValidTransition("ABSENT", x)
    BY StateFacts DEF ValidTransition
  <2>2. Check(row, c) = "raised"
    <3>1. CASE c.op = "reserve"
      BY <1>1, <2>1, <3>1 DEF Check
    <3>2. CASE c.op = "transition"
      BY <1>1, <2>1, <3>2 DEF Check
    <3>3. CASE c.op = "commit"
      BY <1>1, <2>1, <3>3 DEF Check
    <3>4. CASE c.op = "release"
      BY <1>1, <2>1, <3>4 DEF Check, TerminalStates
    <3>5. CASE c.op \notin {"reserve", "transition", "commit", "release"}
      BY <1>1, <3>5 DEF Check
    <3> QED
      BY <3>1, <3>2, <3>3, <3>4, <3>5
  <2> QED
    BY <1>1, <2>2
<1>2. CASE row.status # "ABSENT" /\ c.op = "reserve"
  BY <1>2, StateFacts DEF Check, BudgetOps, TerminalStates
<1>3. CASE row.status # "ABSENT" /\ c.op = "commit"
  BY <1>3, StateFacts DEF Check, BudgetOps, TerminalStates
<1>4. CASE row.status # "ABSENT" /\ c.op = "release"
  BY <1>4 DEF Check, BudgetOps
<1>5. CASE row.status # "ABSENT" /\ c.op = "transition"
  BY <1>5 DEF Check, BudgetOps
<1>6. CASE row.status # "ABSENT" /\ c.op \notin BudgetOps \cup {"transition"}
  BY <1>6 DEF BudgetOps
<1> QED
  BY <1>1, <1>2, <1>3, <1>4, <1>5, <1>6 DEF BudgetOps

(* A row that gave its tokens back is a row,                               *)
LEMMA ReleasedRow ==
  ASSUME NEW row \in Rows, NEW to \in AllStates, NEW n \in Nat
  PROVE  [row EXCEPT !.status = to, !.reserved = n] \in Rows
BY DEF Rows

(* and so is one that was charged.                                         *)
LEMMA ChargedRow ==
  ASSUME NEW row \in Rows, NEW to \in AllStates, NEW n \in Nat, NEW tokens \in Nat, NEW cost \in Nat
  PROVE  [row EXCEPT !.status = to, !.reserved = n, !.committed = tokens, !.cost = cost] \in Rows
BY DEF Rows

(* What each operation writes into a row.                                  *)
LEMMA UpdateFields ==
  ASSUME NEW row \in Rows, NEW c \in Calls, NEW s \in Sessions, NEW u, u = RowUpdate(row, c, s)
  PROVE  /\ c.op = "reserve" =>
              /\ u \in Rows /\ u.status = "RESERVED" /\ u.reserved = c.tokens /\ u.granted = c.tokens
              /\ u.committed = row.committed /\ u.cost = row.cost /\ u.winner = row.winner
         /\ c.op = "transition" =>
              /\ u \in Rows /\ u.status = c.to /\ u.reserved = row.reserved /\ u.granted = row.granted
              /\ u.committed = row.committed /\ u.cost = row.cost /\ u.winner = row.winner
         /\ c.op = "commit" =>
              /\ u \in Rows /\ u.status = "COMPLETED" /\ u.reserved = 0 /\ u.granted = row.granted
              /\ u.committed = c.tokens /\ u.cost = c.cost /\ u.winner = row.winner
         /\ c.op = "release" =>
              /\ u \in Rows /\ u.status = c.to /\ u.reserved = 0 /\ u.granted = row.granted
              /\ u.committed = row.committed /\ u.cost = row.cost /\ u.winner = row.winner
         /\ c.op = "claim" =>
              /\ u \in Rows /\ u.status = row.status /\ u.reserved = row.reserved /\ u.granted = row.granted
              /\ u.committed = row.committed /\ u.cost = row.cost /\ u.winner = s
<1>0. c.to \in AllStates /\ c.tokens \in Nat /\ c.cost \in Nat
  BY CallFields
<1>s. {"RESERVED", "COMPLETED"} \subseteq AllStates
  BY StateFacts
<1>1. CASE c.op = "reserve"
  <2>1. u = [row EXCEPT !.status = "RESERVED", !.reserved = c.tokens, !.granted = c.tokens]
    BY <1>1 DEF RowUpdate
  <2> QED
    BY <1>0, <1>s, <1>1, <2>1 DEF Rows
<1>2. CASE c.op = "transition"
  <2>1. u = [row EXCEPT !.status = c.to]
    BY <1>2 DEF RowUpdate
  <2> QED
    BY <1>0, <1>2, <2>1 DEF Rows
<1>3. CASE c.op = "commit"
  <2>1. u = [row EXCEPT !.status = "COMPLETED", !.reserved = 0, !.committed = c.tokens, !.cost = c.cost]
    BY <1>3 DEF RowUpdate
  <2>2. u \in Rows
    <3>1. PICK n \in Nat : n = 0
      OBVIOUS
    <3>2. [row EXCEPT !.status = "COMPLETED", !.reserved = n, !.committed = c.tokens, !.cost = c.cost] \in Rows
      BY <1>0, <1>s, ChargedRow
    <3> QED
      BY <2>1, <3>1, <3>2
  <2>3. /\ u.status = "COMPLETED" /\ u.reserved = 0 /\ u.granted = row.granted
        /\ u.committed = c.tokens /\ u.cost = c.cost /\ u.winner = row.winner
    BY <2>1 DEF Rows
  <2> QED
    BY <1>3, <2>2, <2>3
<1>4. CASE c.op = "release"
  <2>1. u = [row EXCEPT !.status = c.to, !.reserved = 0]
    BY <1>4 DEF RowUpdate
  <2>2. u \in Rows
    <3>1. PICK n \in Nat : n = 0
      OBVIOUS
    <3>2. [row EXCEPT !.status = c.to, !.reserved = n] \in Rows
      BY <1>0, ReleasedRow
    <3> QED
      BY <2>1, <3>1, <3>2
  <2>3. /\ u.status = c.to /\ u.reserved = 0 /\ u.granted = row.granted
        /\ u.committed = row.committed /\ u.cost = row.cost /\ u.winner = row.winner
    BY <2>1 DEF Rows
  <2> QED
    BY <1>4, <2>2, <2>3
<1>5. CASE c.op = "claim"
  <2>1. u = [row EXCEPT !.winner = s]
    BY <1>5 DEF RowUpdate
  <2> QED
    BY <1>5, <2>1 DEF Rows
<1> QED
  BY <1>1, <1>2, <1>3, <1>4, <1>5

(* Moving on twice is moving on.                                           *)
LEMMA SinceOnwards ==
  ASSUME NEW a, NEW b, NEW c, Since(a, b), Since(b, c)
  PROVE  Since(a, c)
BY DEF Since, TerminalStates

(* The tokens of a row are what its status says: a row that has moved on   *)
(* and has the loaded status again has the loaded tokens.                  *)
LEMMA SameTokens ==
  ASSUME NEW a \in Rows, NEW b \in Rows, Sane(a), Sane(b), Since(a, b), a.status = b.status
  PROVE  /\ b.reserved = a.reserved /\ b.committed = a.committed /\ b.cost = a.cost
         /\ a.status \notin {"ABSENT", "CREATED"} => b.granted = a.granted
<1>1. CASE a.status \in {"ABSENT", "CREATED"}
  BY <1>1 DEF Sane, TerminalStates
<1>2. CASE a.status \in TerminalStates
  BY <1>2 DEF Sane, Since, TerminalStates
<1>3. CASE a.status \notin TerminalStates \cup {"ABSENT", "CREATED"}
  BY <1>3 DEF Sane, Since, TerminalStates
<1> QED
  BY <1>1, <1>2, <1>3

(* The compare-and-set UPDATE of a call that passed its checks.            *)
LEMMA UpdateAdvances ==
  ASSUME NEW loaded \in Rows, NEW row \in Rows, NEW c \in Calls, NEW s \in Sessions,
         Sane(loaded), Sane(row), Since(loaded, row), row.status = loaded.status, Passed(loaded, c),
         c.op = "release" => c.to \in {"FAILED", "CANCELLED"},
         NEW u, u = RowUpdate(loaded, c, s), NEW new, new = RowUpdate(row, c, s)
  PROVE  /\ u \in Rows /\ new \in Rows /\ Sane(new) /\ Since(row, new) /\ new.status # "ABSENT"
         /\ row.reserved = loaded.reserved /\ row.committed = loaded.committed /\ row.cost = loaded.cost
         /\ new.reserved = u.reserved /\ new.committed = u.committed /\ new.cost = u.cost
         /\ Overrun(row) = Overrun(loaded) /\ Overrun(new) = Overrun(u)
<1>0. /\ row.reserved = loaded.reserved /\ row.committed = loaded.committed /\ row.cost = loaded.cost
      /\ loaded.status \notin {"ABSENT", "CREATED"} => row.granted = loaded.granted
  BY SameTokens
<1>f. /\ loaded.committed \in Nat /\ loaded.granted \in Nat /\ row.granted \in Nat /\ c.tokens \in Nat
      /\ loaded.status \in AllStates \cup {"ABSENT"}
  BY RowFields, CallFields
<1>t. loaded.status \notin TerminalStates \cup {"ABSENT"}
  BY CheckFacts, StateFacts DEF Passed, BudgetOps, TerminalStates
<1>o. Overrun(row) = 0 /\ Overrun(loaded) = 0 /\ row.committed = 0 /\ loaded.committed = 0 /\ row.cost = 0
  BY <1>0, <1>f, <1>t DEF Overrun, Sane, TerminalStates
<1>1. CASE c.op = "reserve"
  <2>1. loaded.status = "CREATED"
    BY <1>1, CheckFacts DEF Passed, BudgetOps
  <2>2. /\ u \in Rows /\ u.reserved = c.tokens /\ u.granted = c.tokens /\ u.committed = 0 /\ u.cost = loaded.cost
    BY <1>1, <1>o, UpdateFields
  <2>3. /\ new \in Rows /\ new.status = "RESERVED" /\ new.reserved = c.tokens /\ new.granted = c.tokens
        /\ new.committed = 0 /\ new.cost = row.cost /\ new.winner = row.winner
    BY <1>1, <1>o, UpdateFields
  <2>4. Sane(new) /\ Since(row, new) /\ new.status # "ABSENT"
    BY <1>o, <2>1, <2>3 DEF Sane, Since, TerminalStates
  <2>5. Overrun(new) = 0 /\ Overrun(u) = 0
    BY <1>f, <2>2, <2>3 DEF Overrun
  <2> QED
    BY <1>0, <1>o, <2>2, <2>3, <2>4, <2>5
<1>2. CASE c.op = "transition"
  <2>1. loaded.status \in {"RESERVED", "ROUTED", "IN_FLIGHT", "PROVIDER_FAILED"} /\ c.to \in WorkStates
    <3>1. Check(loaded, c) = "row" /\ c.to \in WorkStates
      BY <1>2 DEF Passed, BudgetOps
    <3> QED
      BY <1>2, <3>1, CheckFacts, StateFacts
  <2>2. u \in Rows /\ u.reserved = loaded.reserved /\ u.granted = loaded.granted /\ u.committed = 0 /\ u.cost = loaded.cost
    BY <1>2, <1>o, UpdateFields
  <2>3. /\ new \in Rows /\ new.status = c.to /\ new.reserved = row.reserved /\ new.granted = row.granted
        /\ new.committed = 0 /\ new.cost = row.cost /\ new.winner = row.winner
    BY <1>2, <1>o, UpdateFields
  <2>4. Sane(new) /\ Since(row, new) /\ new.status # "ABSENT"
    BY <1>o, <2>1, <2>3 DEF Sane, Since, TerminalStates, WorkStates
  <2>5. Overrun(new) = 0 /\ Overrun(u) = 0
    BY <1>f, <2>2, <2>3 DEF Overrun
  <2> QED
    BY <1>0, <1>o, <2>2, <2>3, <2>4, <2>5
<1>3. CASE c.op = "commit"
  <2>1. loaded.status = "IN_FLIGHT"
    BY <1>3, CheckFacts DEF Passed, BudgetOps
  <2>2. u \in Rows /\ u.reserved = 0 /\ u.granted = loaded.granted /\ u.committed = c.tokens /\ u.cost = c.cost
    BY <1>3, UpdateFields
  <2>3. /\ new \in Rows /\ new.status = "COMPLETED" /\ new.reserved = 0 /\ new.granted = row.granted
        /\ new.committed = c.tokens /\ new.cost = c.cost /\ new.winner = row.winner
    BY <1>3, UpdateFields
  <2>4. Sane(new) /\ Since(row, new) /\ new.status # "ABSENT"
    BY <1>o, <2>1, <2>3 DEF Sane, Since, TerminalStates
  <2>5. Overrun(new) = Overrun(u)
    BY <1>0, <2>1, <2>2, <2>3 DEF Overrun
  <2> QED
    BY <1>0, <1>o, <2>2, <2>3, <2>4, <2>5
<1>4. CASE c.op = "release"
  <2>1. c.to \in {"FAILED", "CANCELLED"}
    BY <1>4
  <2>2. u \in Rows /\ u.reserved = 0 /\ u.granted = loaded.granted /\ u.committed = 0 /\ u.cost = loaded.cost
    BY <1>4, <1>o, UpdateFields
  <2>3. /\ new \in Rows /\ new.status = c.to /\ new.reserved = 0 /\ new.granted = row.granted
        /\ new.committed = 0 /\ new.cost = row.cost /\ new.winner = row.winner
    BY <1>4, <1>o, UpdateFields
  <2>4. Sane(new) /\ Since(row, new) /\ new.status # "ABSENT"
    BY <1>o, <1>t, <2>1, <2>3 DEF Sane, Since, TerminalStates
  <2>5. Overrun(new) = 0 /\ Overrun(u) = 0
    BY <1>f, <2>2, <2>3 DEF Overrun
  <2> QED
    BY <1>0, <1>o, <2>2, <2>3, <2>4, <2>5
<1> QED
  BY <1>1, <1>2, <1>3, <1>4 DEF Passed, BudgetOps

-----------------------------------------------------------------------------
(* The frame of a step: what session s does touches nothing of another     *)
(* session before it commits.                                              *)

Frame(s) ==
    /\ UNCHANGED ledger
    /\ \A q \in Sessions \ {s} :
          /\ job'[q] = job[q] /\ stage'[q] = stage[q] /\ call'[q] = call[q]
          /\ seen'[q] = seen[q] /\ tries'[q] = tries[q]
          /\ budgetLock' = q <=> budgetLock = q
          /\ budgetLock = q => budgetNew' = budgetNew
          /\ \A r \in Requests :
                /\ requestLock'[r] = q <=> requestLock[r] = q
                /\ requestLock[r] = q => requestNew'[r] = requestNew[r]
    /\ \A q \in Executors \ {s} : step'[q] = step[q] /\ number'[q] = number[q] /\ again'[q] = again[q]

(* The types of what one session has.                                      *)
LEMMA Typed ==
  ASSUME TypeOK, NEW s \in Sessions
  PROVE  /\ seen[s] \in Rows /\ call[s] \in Calls /\ job[s] \in Requests \cup {NoOne}
         /\ Budget(s) \in BudgetRows /\ budget \in BudgetRows /\ budgetNew \in BudgetRows
         /\ \A r \in Requests : Row(s, r) \in Rows /\ request[r] \in Rows /\ requestNew[r] \in Rows
         /\ s # NoOne /\ NoOne \notin Requests
BY AIRequestAssumption DEF TypeOK, Row, Budget

(* The frame keeps the invariant of the other sessions.                    *)
LEMMA OthersKept ==
  ASSUME IInv, NEW s \in Sessions, Frame(s), NEW q \in Sessions, q # s
  PROVE  /\ CallInv(q)' /\ Booked(q)' /\ Covered(q)' /\ AnswerInv(q)'
         /\ q \in Executors => ExecuteInv(q)'
<1>1. /\ job'[q] = job[q] /\ stage'[q] = stage[q] /\ call'[q] = call[q]
      /\ seen'[q] = seen[q] /\ tries'[q] = tries[q]
      /\ budgetLock' = q <=> budgetLock = q
      /\ budgetLock = q => budgetNew' = budgetNew
      /\ budget' = budget /\ request' = request
  BY DEF Frame, ledger
<1>2. \A r \in Requests : /\ requestLock'[r] = q <=> requestLock[r] = q
                          /\ requestLock[r] = q => requestNew'[r] = requestNew[r]
  BY DEF Frame
<1>3. q \in Executors => step'[q] = step[q] /\ number'[q] = number[q] /\ again'[q] = again[q]
  BY DEF Frame
<1>4. job[q] \in Requests \cup {NoOne} /\ CallInv(q) /\ Booked(q) /\ Covered(q) /\ AnswerInv(q)
  BY Typed DEF IInv
<1>5. q \in Executors => ExecuteInv(q)
  BY DEF IInv
<1>6. CASE job[q] = NoOne
  <2>1. stage[q] = "idle" /\ seen[q].status = "ABSENT" /\ tries[q] = NoTries
    BY <1>4, <1>6 DEF CallInv
  <2>2. CallInv(q)'
    BY <1>1, <1>4, <1>6, <2>1 DEF CallInv
  <2>3. Booked(q)' /\ Covered(q)'
    BY <1>1, <2>1 DEF Booked, Covered, Working
  <2>4. AnswerInv(q)'
    BY <1>1, <2>1 DEF AnswerInv, NoTries
  <2>5. q \in Executors => ExecuteInv(q)'
    BY <1>1, <1>3, <1>5, <2>1 DEF ExecuteInv
  <2> QED
    BY <2>2, <2>3, <2>4, <2>5
<1>7. CASE job[q] \in Requests
  <2>1. requestLock'[job'[q]] = q <=> requestLock[job[q]] = q
    BY <1>1, <1>2, <1>7
  <2>2. (IF requestLock'[job'[q]] = q THEN requestNew'[job'[q]] ELSE request'[job'[q]])
           = (IF requestLock[job[q]] = q THEN requestNew[job[q]] ELSE request[job[q]])
    BY <1>1, <1>2, <1>7
  <2>3. (IF budgetLock' = q THEN budgetNew' ELSE budget') = (IF budgetLock = q THEN budgetNew ELSE budget)
    BY <1>1
  <2>4. After(q)' = After(q)
    BY <1>1 DEF After
  <2>5. CallInv(q)'
    BY <1>1, <1>4, <2>2 DEF CallInv, Row
  <2>6. Booked(q)'
    BY <1>1, <1>4, <2>2, <2>3, <2>4 DEF Booked, Row, Budget
  <2>7. TotalOverrun' = TotalOverrun
    BY <1>1 DEF TotalOverrun
  <2>8. Covered(q)'
    BY <1>1, <1>4, <2>2, <2>4, <2>7 DEF Covered, Row
  <2>9. AnswerInv(q)'
    <3>1. q \in Executors => number'[q] = number[q] /\ step'[q] = step[q]
      BY <1>3
    <3> QED
      BY <1>1, <1>4, <2>1, <3>1 DEF AnswerInv
  <2>10. q \in Executors => ExecuteInv(q)'
    BY <1>1, <1>3, <1>5, <2>1 DEF ExecuteInv, Flying
  <2> QED
    BY <2>5, <2>6, <2>8, <2>9, <2>10
<1> QED
  BY <1>4, <1>6, <1>7

(* A step of one session that leaves the ledger alone.                     *)
LEMMA OneSession ==
  ASSUME IInv, NEW s \in Sessions, Frame(s), TypeOK', \A r \in Requests : RowInv(r)',
         CallInv(s)', Booked(s)', Covered(s)', AnswerInv(s)', s \in Executors => ExecuteInv(s)'
  PROVE  IInv'
<1>1. \A q \in Sessions : CallInv(q)' /\ Booked(q)' /\ Covered(q)' /\ AnswerInv(q)'
  BY OthersKept
<1>2. \A q \in Executors : ExecuteInv(q)'
  BY OthersKept DEF Sessions
<1>3. BudgetIsLedger' /\ OverdraftIsOverrun' /\ AnswerIsCharged'
  BY DEF IInv, Frame, ledger, BudgetIsLedger, OverdraftIsOverrun, AnswerIsCharged
<1> QED
  BY <1>1, <1>2, <1>3 DEF IInv

-----------------------------------------------------------------------------
(* The beginning of a call.                                                *)

Ready(s, r) == stage[s] = "idle" \/ (stage[s] = "returned" /\ job[s] = r)

(* A session between two transactions has no lock.                         *)
LEMMA IdleHoldsNothing ==
  ASSUME IInv, NEW s \in Sessions, stage[s] = "idle"
  PROVE  /\ budgetLock # s /\ \A r \in Requests : requestLock[r] # s
         /\ seen[s].status = "ABSENT" /\ tries[s] = NoTries
<1>1. CallInv(s) /\ s # NoOne /\ NoOne \notin Requests
  BY Typed DEF IInv
<1>2. ASSUME NEW r \in Requests, requestLock[r] = s PROVE FALSE
  BY <1>1, <1>2 DEF IInv, RowInv, CallInv
<1> QED
  BY <1>1, <1>2 DEF CallInv

(* An overrun is a number of tokens,                                       *)
LEMMA OverrunTyped ==
  ASSUME NEW row \in Rows
  PROVE  Overrun(row) \in Nat
BY RowFields DEF Overrun

(* and none is more than the total.                                        *)
LEMMA TotalTyped ==
  ASSUME TypeOK, NEW r \in Requests
  PROVE  TotalOverrun \in Nat /\ Overrun(request[r]) \in Nat /\ Overrun(request[r]) <= TotalOverrun
<1> DEFINE f == [x \in Requests |-> Overrun(request[x])]
           h == [f EXCEPT ![r] = 0]
<1>1. \A x \in Requests : Overrun(request[x]) \in Nat
  BY OverrunTyped DEF TypeOK
<1>2. f \in [Requests -> Nat] /\ h \in [Requests -> Nat] /\ f[r] = Overrun(request[r]) /\ h[r] = 0
  BY <1>1
<1>3. \A x \in Requests \ {r} : h[x] = f[x]
  OBVIOUS
<1>4. IsFiniteSet(Requests)
  BY AIRequestAssumption
<1>5. TotalOverrun = SumFunction(f)
  BY DEF TotalOverrun
<1>r. Overrun(request[r]) \in Nat
  BY <1>1
<1> HIDE DEF f, h
<1>6. SumFunction(f) \in Nat /\ SumFunction(h) \in Nat /\ SumFunction(h) + f[r] = SumFunction(f) + h[r]
  BY <1>2, <1>3, <1>4, SumUpdate
<1> QED
  BY <1>2, <1>5, <1>6, <1>r

(* A step that leaves the rows alone keeps their invariant.                *)
LEMMA RowsKept ==
  ASSUME IInv, NEW s \in Sessions, Frame(s), UNCHANGED <<requestLock, requestNew>>,
         \A r \in Requests : requestLock[r] = s => job'[s] = r /\ seen'[s] = requestNew[r]
  PROVE  \A r \in Requests : RowInv(r)'
<1> SUFFICES ASSUME NEW r \in Requests PROVE RowInv(r)'
  OBVIOUS
<1>1. RowInv(r) /\ requestLock[r] \in Sessions \cup {NoOne}
  BY DEF IInv, TypeOK
<1>2. request' = request
  BY DEF Frame, ledger
<1>3. requestLock[r] \in Sessions \ {s} => job'[requestLock[r]] = job[requestLock[r]] /\ seen'[requestLock[r]] = seen[requestLock[r]]
  BY DEF Frame
<1> QED
  BY <1>1, <1>2, <1>3 DEF RowInv

(* A loaded row whose pending UPDATE moves no tokens keeps the books.      *)
LEMMA Refreshed ==
  ASSUME IInv, NEW s \in Sessions, NEW r \in Requests, Ready(s, r),
         UNCHANGED <<budget, request, budgetLock, budgetNew, requestLock, requestNew>>,
         job'[s] = r, seen'[s] \in Rows, NEW a \in Rows, a = After(s)',
         a.reserved = seen'[s].reserved, a.committed = seen'[s].committed, a.cost = seen'[s].cost,
         Overrun(a) = Overrun(seen'[s])
  PROVE  Booked(s)' /\ Covered(s)'
<1>t. TypeOK /\ Booked(s) /\ Covered(s)
  BY DEF IInv
<1> DEFINE row == Row(s, r)
           new == Budget(s)
<1>1. row \in Rows /\ request[r] \in Rows /\ new \in BudgetRows /\ budget \in BudgetRows /\ seen[s] \in Rows
  BY <1>t, Typed
<1>2. /\ row.reserved \in Nat /\ row.committed \in Nat /\ row.cost \in Nat
      /\ request[r].reserved \in Nat /\ request[r].committed \in Nat /\ request[r].cost \in Nat
      /\ seen[s].reserved \in Nat /\ seen[s].committed \in Nat /\ seen[s].cost \in Nat
      /\ seen'[s].reserved \in Nat /\ seen'[s].committed \in Nat /\ seen'[s].cost \in Nat
  BY <1>1, RowFields
<1>3. new.reserved \in Nat /\ new.used \in Nat /\ new.cost \in Nat /\ budget.reserved \in Nat /\ budget.used \in Nat /\ budget.cost \in Nat
  BY <1>1 DEF BudgetRows
<1>4. /\ Overrun(row) \in Nat /\ Overrun(request[r]) \in Nat /\ Overrun(seen[s]) \in Nat /\ Overrun(a) \in Nat
  BY <1>1, OverrunTyped
<1>5. TotalOverrun \in Nat
  BY <1>t, TotalTyped
<1>6. /\ new.reserved + request[r].reserved = budget.reserved + row.reserved
      /\ new.used + request[r].committed = budget.used + row.committed
      /\ new.cost + request[r].cost = budget.cost + row.cost
      /\ budgetLock = s => budgetNew.used + budgetNew.reserved + Overrun(request[r]) <= TokenLimit + TotalOverrun + Overrun(row)
  <2>1. CASE stage[s] = "idle"
    <3>1. row = request[r] /\ new = budget /\ budgetLock # s
      BY <2>1, IdleHoldsNothing DEF Row, Budget
    <3> QED
      BY <1>2, <1>3, <3>1
  <2>2. CASE stage[s] = "returned" /\ job[s] = r
    <3>1. After(s) = seen[s] /\ stage[s] \in Working
      BY <2>2 DEF After, Working
    <3>2. Balanced(new, budget, row, request[r], seen[s], seen[s])
      BY <1>t, <2>2, <3>1 DEF Booked
    <3>3. /\ new.reserved + request[r].reserved = budget.reserved + row.reserved
          /\ new.used + request[r].committed = budget.used + row.committed
          /\ new.cost + request[r].cost = budget.cost + row.cost
      <4> HIDE DEF new, row
      <4> QED BY <1>2, <1>3, <3>2 DEF Balanced
    <3>4. ASSUME budgetLock = s
          PROVE  budgetNew.used + budgetNew.reserved + Overrun(request[r]) <= TokenLimit + TotalOverrun + Overrun(row)
      <4>1. budgetNew.used + budgetNew.reserved + Overrun(request[r]) + Overrun(seen[s])
               <= TokenLimit + TotalOverrun + Overrun(row) + Overrun(seen[s])
        BY <1>t, <2>2, <3>1, <3>4 DEF Covered
      <4>2. budgetNew.used \in Nat /\ budgetNew.reserved \in Nat
        BY <1>t DEF TypeOK, BudgetRows
      <4> HIDE DEF row
      <4> QED
        BY <4>1, <4>2, <1>4, <1>5, AIRequestAssumption
    <3> QED
      BY <3>3, <3>4
  <2> QED
    BY <2>1, <2>2 DEF Ready
<1>7. /\ (IF requestLock'[r] = s THEN requestNew'[r] ELSE request'[r]) = row
      /\ (IF budgetLock' = s THEN budgetNew' ELSE budget') = new
  BY DEF Row, Budget
<1>8. TotalOverrun' = TotalOverrun
  BY DEF TotalOverrun
<1>9. Booked(s)'
  <2>1. Balanced(new, budget, row, request[r], seen'[s], a)
    <3> HIDE DEF new, row
    <3> QED BY <1>2, <1>3, <1>6 DEF Balanced
  <2> HIDE DEF new, row
  <2> QED
    BY <1>7, <2>1 DEF Booked, Row, Budget
<1>10. Covered(s)'
  <2> SUFFICES ASSUME budgetLock = s
      PROVE budgetNew.used + budgetNew.reserved + Overrun(request[r]) + Overrun(seen'[s])
               <= TokenLimit + TotalOverrun + Overrun(row) + Overrun(a)
    <3> HIDE DEF new, row
    <3> QED BY <1>7, <1>8 DEF Covered, Row
  <2>1. budgetNew.used \in Nat /\ budgetNew.reserved \in Nat
    BY <1>t DEF TypeOK, BudgetRows
  <2> HIDE DEF row, new
  <2> QED
    BY <1>4, <1>5, <1>6, <2>1, AIRequestAssumption
<1> QED
  BY <1>9, <1>10

(* A row came after itself.                                                *)
LEMMA SinceItself ==
  ASSUME NEW a
  PROVE  Since(a, a)
BY DEF Since

(* The calls that begin by reading a row.                                  *)
Sendable(c) ==
    /\ c \in Calls /\ c.op \in BudgetOps \cup {"transition"}
    /\ c.op = "transition" => c.to \in WorkStates
    /\ c.op = "release" => c.to \in {"FAILED", "CANCELLED"}

(* get_request and the checks before the first UPDATE.                     *)
LEMMA LoadKeeps ==
  ASSUME IInv, NEW s \in Sessions, NEW r \in Requests, Ready(s, r), NEW c, Sendable(c), Load(s, r, c),
         UNCHANGED <<ledger, budgetLock, budgetNew, requestLock, requestNew>>, Frame(s)
  PROVE  /\ job'[s] = r /\ call'[s] = c /\ seen'[s] \in Rows
         /\ stage'[s] = Check(seen'[s], c) /\ stage'[s] \in {"budget", "row", "returned", "raised"}
         /\ seen[s].status # "ABSENT" => seen'[s] = seen[s]
         /\ \A x \in Requests : RowInv(x)'
         /\ CallInv(s)' /\ Booked(s)' /\ Covered(s)'
<1>t. TypeOK /\ CallInv(s)
  BY DEF IInv
<1> DEFINE loaded == IF seen[s].status = "ABSENT" THEN Row(s, r) ELSE seen[s]
<1>1. loaded \in Rows /\ Row(s, r) \in Rows /\ c \in Calls /\ s # NoOne /\ NoOne \notin Requests
  BY <1>t, Typed DEF Sendable
<1>2. /\ job'[s] = r /\ call'[s] = c /\ seen'[s] = loaded /\ stage'[s] = Check(loaded, c)
  BY <1>t DEF Load, TypeOK
<1>3. stage'[s] \in {"budget", "row", "returned", "raised"}
  BY <1>2, CheckFacts DEF Sendable
<1>4. Sane(loaded)
  <2>1. Sane(Row(s, r)) /\ Sane(seen[s])
    BY <1>t DEF IInv, RowInv, CallInv, Row
  <2> QED
    BY <2>1
<1>5. Since(loaded, Row(s, r))
  <2>1. CASE seen[s].status = "ABSENT"
    BY <2>1, SinceItself
  <2>2. CASE seen[s].status # "ABSENT"
    BY <1>t, <2>2 DEF CallInv, Ready
  <2> QED
    BY <2>1, <2>2
<1>6. (IF requestLock'[r] = s THEN requestNew'[r] ELSE request'[r]) = Row(s, r)
  BY DEF Row, ledger
<1>7. \A x \in Requests : requestLock[x] = s => x = r /\ loaded = requestNew[x]
  <2> SUFFICES ASSUME NEW x \in Requests, requestLock[x] = s PROVE x = r /\ loaded = requestNew[x]
    OBVIOUS
  <2>1. job[s] = x /\ seen[s] = requestNew[x]
    BY <1>1 DEF IInv, RowInv
  <2>2. job[s] = r
    BY IdleHoldsNothing DEF Ready
  <2> QED
    BY <2>1, <2>2 DEF Row
<1>8. \A x \in Requests : RowInv(x)'
  <2>1. \A x \in Requests : requestLock[x] = s => job'[s] = x /\ seen'[s] = requestNew[x]
    BY <1>2, <1>7
  <2> HIDE DEF loaded
  <2> QED
    BY <2>1, RowsKept
<1> HIDE DEF loaded
<1>c. /\ c.op = "transition" => Check(loaded, c) # "budget"
      /\ c.op \in {"reserve", "commit"} => Check(loaded, c) # "row"
  BY CheckFacts
<1>o. c.op \in {"reserve", "commit", "release", "transition"}
  BY DEF Sendable, BudgetOps
<1>9. CallInv(s)'
  <2>1. budgetLock' = s => stage'[s] # "idle"
    BY <1>3
  <2>2. stage'[s] = "row" => Passed(loaded, c)
    BY <1>2 DEF Passed, Sendable
  <2>3. stage'[s] = "budget" => c.op \in BudgetOps /\ Check(loaded, c) = "budget"
    BY <1>2, <1>c, <1>o DEF BudgetOps
  <2>4. stage'[s] # "idle" /\ job'[s] # NoOne
    BY <1>1, <1>2, <1>3
  <2> QED
    BY <1>2, <1>4, <1>5, <1>6, <2>2, <2>3, <2>4 DEF CallInv, Row, Sendable
<1>10. PICK a \in Rows : /\ a = After(s)' /\ a.reserved = loaded.reserved /\ a.committed = loaded.committed
                         /\ a.cost = loaded.cost /\ Overrun(a) = Overrun(loaded)
  <2>1. CASE stage'[s] # "row"
    BY <1>1, <1>2, <2>1 DEF After
  <2>2. CASE stage'[s] = "row"
    <3> DEFINE u == RowUpdate(loaded, c, s)
    <3>1. c.op \in {"transition", "release"} /\ Check(loaded, c) = "row"
      BY <1>2, <2>2, <1>c, <1>o
    <3>2. /\ u \in Rows /\ u.granted = loaded.granted /\ u.committed = loaded.committed /\ u.cost = loaded.cost
          /\ c.op = "transition" => u.reserved = loaded.reserved
          /\ c.op = "release" => u.reserved = 0
      <4>1. c.op = "transition" \/ c.op = "release"
        BY <3>1
      <4> QED BY <1>1, <4>1, UpdateFields
    <3>3. u.reserved = loaded.reserved
      <4>1. loaded.reserved \in Nat
        BY <1>1, RowFields
      <4>2. c.op = "release" => ~(loaded.reserved > 0)
        BY <3>1, CheckFacts
      <4> QED BY <3>1, <3>2, <4>1, <4>2
    <3>4. After(s)' = u
      BY <1>2, <2>2, <3>1 DEF After
    <3>5. Overrun(u) = Overrun(loaded)
      BY <3>2 DEF Overrun
    <3> HIDE DEF u
    <3> QED
      BY <3>2, <3>3, <3>4, <3>5
  <2> QED
    BY <2>1, <2>2
<1>11. Booked(s)' /\ Covered(s)'
  <2>1. UNCHANGED <<budget, request, budgetLock, budgetNew, requestLock, requestNew>>
    BY DEF ledger
  <2> QED
    BY <1>1, <1>2, <1>10, <2>1, Refreshed
<1> QED
  BY <1>1, <1>2, <1>3, <1>8, <1>9, <1>11 DEF loaded

(* The calls that do not,                                                  *)
LEMMA NoCallFields ==
  /\ NoCall \in Calls /\ NoCall.op = "none" /\ NoCall.to = "CREATED" /\ NoCall.from = "CREATED"
  /\ create \in Calls /\ create.op = "create" /\ create.to = "CREATED"
  /\ try_claim_winner \in Calls /\ try_claim_winner.op = "claim" /\ try_claim_winner.to = "CREATED"
BY StateFacts DEF NoCall, Calls, create, try_claim_winner

(* and those that do.                                                      *)
LEMMA SendableCalls ==
  /\ \A n \in Nat : Sendable(reserve_budget(n)) /\ reserve_budget(n).op = "reserve"
  /\ \A from \in AllStates, to \in WorkStates :
        /\ Sendable(transition_status(from, to)) /\ transition_status(from, to).op = "transition"
        /\ transition_status(from, to).to = to /\ transition_status(from, to).from = from
  /\ \A c \in Nat \X Nat : Sendable(commit_execution(c)) /\ commit_execution(c).op = "commit"
  /\ \A to \in {"FAILED", "CANCELLED"} :
        Sendable(release_reservation(to)) /\ release_reservation(to).op = "release"
  /\ \A n \in Nat : record_attempt(n) \in Calls /\ record_attempt(n).op = "attempt" /\ record_attempt(n).to = "CREATED"
<1>0. /\ NoCall \in Calls /\ WorkStates \subseteq AllStates /\ {"FAILED", "CANCELLED"} \subseteq AllStates
  BY NoCallFields, StateFacts DEF WorkStates
<1>1. ASSUME NEW n \in Nat
      PROVE  Sendable(reserve_budget(n)) /\ reserve_budget(n).op = "reserve"
  BY <1>0 DEF Sendable, reserve_budget, Calls, BudgetOps
<1>2. ASSUME NEW from \in AllStates, NEW to \in WorkStates
      PROVE  /\ Sendable(transition_status(from, to)) /\ transition_status(from, to).op = "transition"
             /\ transition_status(from, to).to = to /\ transition_status(from, to).from = from
  BY <1>0 DEF Sendable, transition_status, Calls, BudgetOps
<1>3. ASSUME NEW c \in Nat \X Nat
      PROVE  Sendable(commit_execution(c)) /\ commit_execution(c).op = "commit"
  BY <1>0 DEF Sendable, commit_execution, Calls, BudgetOps
<1>4. ASSUME NEW to \in {"FAILED", "CANCELLED"}
      PROVE  Sendable(release_reservation(to)) /\ release_reservation(to).op = "release"
  BY <1>0 DEF Sendable, release_reservation, Calls, BudgetOps
<1>5. ASSUME NEW n \in Nat
      PROVE  record_attempt(n) \in Calls /\ record_attempt(n).op = "attempt" /\ record_attempt(n).to = "CREATED"
  BY <1>0, NoCallFields DEF record_attempt, Calls
<1> QED
  BY <1>1, <1>2, <1>3, <1>4, <1>5

(* Loading a row keeps the types.                                          *)
LEMMA LoadTyped ==
  ASSUME TypeOK, NEW s \in Sessions, NEW r \in Requests, NEW c, Sendable(c), Load(s, r, c)
  PROVE  /\ job' \in [Sessions -> Requests \cup {NoOne}]
         /\ stage' \in [Sessions -> {"idle", "budget", "row", "returned", "raised"}]
         /\ call' \in [Sessions -> Calls] /\ seen' \in [Sessions -> Rows]
         /\ \A q \in Sessions \ {s} : job'[q] = job[q] /\ stage'[q] = stage[q] /\ call'[q] = call[q] /\ seen'[q] = seen[q]
<1> DEFINE loaded == IF seen[s].status = "ABSENT" THEN Row(s, r) ELSE seen[s]
<1>1. loaded \in Rows /\ c \in Calls
  BY Typed DEF Sendable
<1>2. Check(loaded, c) \in {"raised", "returned", "budget", "row"}
  BY CheckFacts DEF Sendable
<1>3. /\ job' = [job EXCEPT ![s] = r] /\ call' = [call EXCEPT ![s] = c]
      /\ seen' = [seen EXCEPT ![s] = loaded] /\ stage' = [stage EXCEPT ![s] = Check(loaded, c)]
  BY DEF Load
<1> HIDE DEF loaded
<1> QED
  BY <1>1, <1>2, <1>3 DEF TypeOK

(* Only an execution that is settling has an answered attempt.             *)
LEMMA NoAnswerYet ==
  ASSUME IInv, NEW s \in Sessions, s \in Executors => step[s] # "settled"
  PROVE  \A n \in 1 .. MaxAttempts : tries[s][n] # "COMPLETED"
BY DEF IInv, AnswerInv

(* A caller begins a call.                                                 *)
LEMMA CallerBeginKeeps ==
  ASSUME IInv, NEW s \in Callers, stage[s] = "idle", NEW r \in Requests, NEW c, Sendable(c),
         Begin(s, r, c), UNCHANGED executeVars
  PROVE  IInv'
<1>0. s \in Sessions /\ s \notin Executors /\ TypeOK /\ Ready(s, r)
  BY AIRequestAssumption DEF Sessions, IInv, Ready
<1>1. Load(s, r, c) /\ UNCHANGED <<ledger, locks>>
  BY DEF Begin
<1>2. Frame(s)
  BY <1>0, <1>1, LoadTyped DEF Frame, locks, executeVars
<1>3. UNCHANGED <<ledger, budgetLock, budgetNew, requestLock, requestNew>>
  BY <1>1 DEF locks
<1>4. (\A x \in Requests : RowInv(x)') /\ CallInv(s)' /\ Booked(s)' /\ Covered(s)'
  BY <1>0, <1>1, <1>2, <1>3, LoadKeeps
<1>5. TypeOK'
  BY <1>0, <1>1, LoadTyped DEF TypeOK, ledger, locks, executeVars
<1>6. AnswerInv(s)'
  BY <1>0, <1>1, NoAnswerYet DEF AnswerInv, locks
<1> QED
  BY <1>0, <1>2, <1>4, <1>5, <1>6, OneSession

(* An execution goes on to its next call.                                  *)
LEMMA ExecuteBeginKeeps ==
  ASSUME IInv, NEW s \in Executors, NEW y, Returned(s, y), y # "settled", NEW c, Sendable(c),
         Begin(s, job[s], c), NEW x \in {"select", "route", "giveup", "fly", "settled"}, Goto(s, x),
         x = "fly" => c.op = "transition" /\ c.to = "IN_FLIGHT"
  PROVE  IInv'
<1>0. s \in Sessions /\ TypeOK /\ stage[s] = "returned" /\ step[s] = y
  BY DEF Sessions, IInv, Returned
<1>r. job[s] \in Requests /\ Ready(s, job[s])
  <2>1. CallInv(s)
    BY <1>0 DEF IInv
  <2> QED
    BY <1>0, <2>1, Typed DEF CallInv, Ready
<1>1. Load(s, job[s], c) /\ UNCHANGED <<ledger, locks>>
  BY DEF Begin
<1>2. /\ step' \in [Executors -> {"idle", "create", "select", "route", "fly", "attempt", "failed", "giveup", "settled"}]
      /\ step'[s] = x /\ number' = number /\ again' = again
      /\ \A q \in Executors \ {s} : step'[q] = step[q]
  BY <1>0 DEF Goto, TypeOK
<1>3. Frame(s)
  BY <1>0, <1>r, <1>1, <1>2, LoadTyped DEF Frame, locks
<1>4. UNCHANGED <<ledger, budgetLock, budgetNew, requestLock, requestNew>>
  BY <1>1 DEF locks
<1>5. /\ \A z \in Requests : RowInv(z)'
      /\ CallInv(s)' /\ Booked(s)' /\ Covered(s)' /\ call'[s] = c
      /\ stage'[s] = Check(seen'[s], c) /\ stage'[s] \in {"budget", "row", "returned", "raised"}
  BY <1>0, <1>r, <1>1, <1>3, <1>4, LoadKeeps
<1>6. TypeOK'
  BY <1>0, <1>r, <1>1, <1>2, LoadTyped DEF TypeOK, ledger, locks
<1>7. AnswerInv(s)'
  BY <1>0, <1>1, NoAnswerYet DEF AnswerInv, locks
<1>8. ExecuteInv(s)'
  <2>1. c.op = "transition" => Check(seen'[s], c) \notin {"budget", "returned"}
    BY CheckFacts
  <2> QED
    BY <1>2, <1>5, <2>1 DEF ExecuteInv
<1> QED
  BY <1>0, <1>3, <1>5, <1>6, <1>7, <1>8, OneSession

(* The provider has answered or failed: the attempt is marked and the next *)
(* call begins.                                                            *)
LEMMA SucceedsKeeps ==
  ASSUME IInv, NEW s \in Executors, ExecuteSucceeds(s)
  PROVE  IInv'
<1>0. /\ s \in Sessions /\ TypeOK /\ stage[s] = "returned" /\ step[s] = "attempt" /\ CallInv(s) /\ ExecuteInv(s)
      /\ UNCHANGED <<ledger, budgetLock, budgetNew, requestLock, requestNew>>
  BY DEF Sessions, IInv, ExecuteSucceeds, Returned
<1>r. job[s] \in Requests /\ Ready(s, job[s])
  BY <1>0, Typed DEF CallInv, Ready
<1>1. PICK c : Sendable(c) /\ c.op = "commit" /\ Load(s, job[s], c)
  <2>1. PICK ch \in Charges : Load(s, job[s], commit_execution(ch))
    BY DEF ExecuteSucceeds
  <2>2. ch \in Nat \X Nat
    BY AIRequestAssumption
  <2> QED
    BY <2>1, <2>2, SendableCalls
<1>2. /\ step' \in [Executors -> {"idle", "create", "select", "route", "fly", "attempt", "failed", "giveup", "settled"}]
      /\ step'[s] = "settled" /\ number' = number /\ again' = again
      /\ \A q \in Executors \ {s} : step'[q] = step[q]
  BY <1>0 DEF ExecuteSucceeds, Goto, TypeOK
<1>n. number[s] \in 1 .. MaxAttempts
  BY <1>0 DEF TypeOK
<1>3. /\ tries' \in [Sessions -> [1 .. MaxAttempts -> AttemptStates]]
      /\ \A q \in Sessions \ {s} : tries'[q] = tries[q]
      /\ \A n \in 1 .. MaxAttempts : tries'[s][n] = IF n = number[s] THEN "COMPLETED" ELSE tries[s][n]
  <2>1. tries' = [tries EXCEPT ![s][number[s]] = "COMPLETED"]
    BY DEF ExecuteSucceeds
  <2> QED
    BY <1>0, <1>n, <2>1 DEF TypeOK, AttemptStates
<1>4. Frame(s)
  BY <1>0, <1>r, <1>1, <1>2, <1>3, LoadTyped DEF Frame
<1>5. /\ \A z \in Requests : RowInv(z)'
      /\ CallInv(s)' /\ Booked(s)' /\ Covered(s)' /\ call'[s] = c /\ job'[s] = job[s]
      /\ stage'[s] = Check(seen'[s], c)
      /\ seen[s].status # "ABSENT" => seen'[s] = seen[s]
  BY <1>0, <1>r, <1>1, <1>4, LoadKeeps
<1>6. TypeOK'
  BY <1>0, <1>r, <1>1, <1>2, <1>3, LoadTyped DEF TypeOK, ledger
<1>7. requestLock[job[s]] = s /\ seen[s].status = "IN_FLIGHT"
  BY <1>0 DEF ExecuteInv, Flying
<1>8. stage'[s] = "budget"
  BY <1>1, <1>5, <1>7, CheckFacts
<1>9. request[job[s]].status \notin TerminalStates
  <2>1. RowInv(job[s]) /\ s # NoOne
    BY <1>0, <1>r, Typed DEF IInv
  <2> QED
    BY <1>7, <2>1 DEF RowInv, Since, TerminalStates
<1>10. AnswerInv(s)'
  <2>1. \A n \in 1 .. MaxAttempts : tries[s][n] # "COMPLETED"
    BY <1>0, NoAnswerYet
  <2> QED
    BY <1>0, <1>1, <1>2, <1>3, <1>5, <1>7, <1>8, <1>9, <2>1 DEF AnswerInv, ledger
<1>11. ExecuteInv(s)'
  BY <1>2, <1>8 DEF ExecuteInv
<1> QED
  BY <1>0, <1>4, <1>5, <1>6, <1>10, <1>11, OneSession

(* The provider failed: the attempt is marked FAILED.                      *)
LEMMA FailsKeeps ==
  ASSUME IInv, NEW s \in Executors, ExecuteFails(s)
  PROVE  IInv'
<1>0. /\ s \in Sessions /\ TypeOK /\ stage[s] = "returned" /\ step[s] = "attempt" /\ CallInv(s)
      /\ UNCHANGED <<ledger, budgetLock, budgetNew, requestLock, requestNew>>
  BY DEF Sessions, IInv, ExecuteFails, Returned
<1>r. job[s] \in Requests /\ Ready(s, job[s])
  BY <1>0, Typed DEF CallInv, Ready
<1>1. PICK c : Sendable(c) /\ c.op = "transition" /\ Load(s, job[s], c)
  <2>1. "IN_FLIGHT" \in AllStates /\ "PROVIDER_FAILED" \in WorkStates
    BY StateFacts DEF WorkStates
  <2> QED
    BY <2>1, SendableCalls DEF ExecuteFails
<1>n. number[s] \in 1 .. MaxAttempts
  BY <1>0 DEF TypeOK
<1>2. /\ step' \in [Executors -> {"idle", "create", "select", "route", "fly", "attempt", "failed", "giveup", "settled"}]
      /\ step'[s] = "failed" /\ number' = number
      /\ \A q \in Executors \ {s} : step'[q] = step[q]
  BY <1>0 DEF ExecuteFails, TypeOK
<1>a. PICK b \in BOOLEAN : again' = [again EXCEPT ![s] = b] /\ (b => number[s] < MaxAttempts)
  <2>1. PICK hint \in ErrorClasses : again' = [again EXCEPT ![s] = ShouldRetry(s, classify(hint))]
    BY DEF ExecuteFails
  <2>2. ShouldRetry(s, classify(hint)) \in BOOLEAN /\ (ShouldRetry(s, classify(hint)) => number[s] < MaxAttempts)
    BY DEF ShouldRetry
  <2> QED
    BY <2>1, <2>2
<1>b. /\ again' \in [Executors -> BOOLEAN] /\ (again'[s] => number[s] < MaxAttempts)
      /\ \A q \in Executors \ {s} : again'[q] = again[q]
  BY <1>0, <1>a DEF TypeOK
<1>3. /\ tries' \in [Sessions -> [1 .. MaxAttempts -> AttemptStates]]
      /\ \A q \in Sessions \ {s} : tries'[q] = tries[q]
      /\ \A n \in 1 .. MaxAttempts : tries'[s][n] = IF n = number[s] THEN "FAILED" ELSE tries[s][n]
  <2>1. tries' = [tries EXCEPT ![s][number[s]] = "FAILED"]
    BY DEF ExecuteFails
  <2> QED
    BY <1>0, <1>n, <2>1 DEF TypeOK, AttemptStates
<1>4. Frame(s)
  BY <1>0, <1>r, <1>1, <1>2, <1>3, <1>b, LoadTyped DEF Frame
<1>5. /\ \A z \in Requests : RowInv(z)'
      /\ CallInv(s)' /\ Booked(s)' /\ Covered(s)'
      /\ stage'[s] \in {"budget", "row", "returned", "raised"}
  BY <1>0, <1>r, <1>1, <1>4, LoadKeeps
<1>6. TypeOK'
  BY <1>0, <1>r, <1>1, <1>2, <1>3, <1>b, LoadTyped DEF TypeOK, ledger
<1>7. AnswerInv(s)'
  BY <1>0, <1>3, NoAnswerYet DEF AnswerInv
<1>8. ExecuteInv(s)'
  BY <1>2, <1>5, <1>b DEF ExecuteInv
<1> QED
  BY <1>0, <1>4, <1>5, <1>6, <1>7, <1>8, OneSession

(* Something raised while the attempt was under way.                       *)
LEMMA BlowsUpKeeps ==
  ASSUME IInv, NEW s \in Executors, ExecuteBlowsUp(s)
  PROVE  IInv'
<1>0. /\ s \in Sessions /\ TypeOK /\ stage[s] = "returned" /\ step[s] = "attempt" /\ CallInv(s)
      /\ AnswerInv(s) /\ ExecuteInv(s) /\ job[s] # NoOne
  BY DEF Sessions, IInv, ExecuteBlowsUp, Returned, CallInv
<1>1. /\ UNCHANGED <<budget, request, attempt, budgetLock, budgetNew, requestLock, requestNew, tries>>
      /\ UNCHANGED <<job, call, seen, step, number, again>>
  BY DEF ExecuteBlowsUp, ledger, locks, executeVars
<1>2. /\ stage' \in [Sessions -> {"idle", "budget", "row", "returned", "raised"}]
      /\ stage'[s] = "raised" /\ \A q \in Sessions \ {s} : stage'[q] = stage[q]
  BY <1>0 DEF ExecuteBlowsUp, TypeOK
<1>3. Frame(s)
  BY <1>1, <1>2 DEF Frame, ledger
<1>4. TypeOK'
  BY <1>0, <1>1, <1>2 DEF TypeOK
<1>5. \A r \in Requests : RowInv(r)'
  BY <1>1 DEF IInv, RowInv
<1>6. CallInv(s)'
  BY <1>0, <1>1, <1>2 DEF CallInv, Row
<1>7. Booked(s)' /\ Covered(s)'
  BY <1>2 DEF Booked, Covered, Working
<1>8. AnswerInv(s)'
  BY <1>0, <1>1, NoAnswerYet DEF AnswerInv
<1>9. ExecuteInv(s)'
  BY <1>0, <1>1, <1>2 DEF ExecuteInv
<1> QED
  BY <1>0, <1>3, <1>4, <1>5, <1>6, <1>7, <1>8, <1>9, OneSession

(* After a failure worth a retry the next attempt is routed.               *)
LEMMA RetriesKeeps ==
  ASSUME IInv, NEW s \in Executors, ExecuteRetries(s)
  PROVE  IInv'
<1>0. /\ s \in Sessions /\ TypeOK /\ stage[s] = "returned" /\ step[s] = "failed" /\ again[s]
      /\ CallInv(s) /\ Booked(s) /\ Covered(s) /\ ExecuteInv(s)
  BY DEF Sessions, IInv, ExecuteRetries, Returned
<1>1. /\ UNCHANGED <<budget, request, attempt, budgetLock, budgetNew, requestLock, requestNew, tries>>
      /\ UNCHANGED <<job, stage, call, seen, again>>
  BY DEF ExecuteRetries, aiVars, ledger, locks, sessions
<1>2. number[s] + 1 \in 1 .. MaxAttempts
  <2>1. number[s] \in 1 .. MaxAttempts /\ number[s] < MaxAttempts /\ MaxAttempts \in Nat
    BY <1>0, AIRequestAssumption DEF ExecuteInv, TypeOK
  <2> QED
    BY <2>1
<1>3. /\ number' \in [Executors -> 1 .. MaxAttempts]
      /\ \A q \in Executors \ {s} : number'[q] = number[q]
  BY <1>0, <1>2 DEF ExecuteRetries, TypeOK
<1>4. /\ step' \in [Executors -> {"idle", "create", "select", "route", "fly", "attempt", "failed", "giveup", "settled"}]
      /\ step'[s] = "select" /\ \A q \in Executors \ {s} : step'[q] = step[q]
  BY <1>0 DEF ExecuteRetries, TypeOK
<1>5. Frame(s)
  BY <1>1, <1>3, <1>4 DEF Frame, ledger
<1>6. TypeOK'
  BY <1>0, <1>1, <1>3, <1>4 DEF TypeOK
<1>7. \A r \in Requests : RowInv(r)'
  BY <1>1 DEF IInv, RowInv
<1>8. CallInv(s)'
  BY <1>0, <1>1 DEF CallInv, Row
<1>9. Booked(s)' /\ Covered(s)'
  BY <1>0, <1>1 DEF Booked, Covered, Row, Budget, After, TotalOverrun
<1>10. AnswerInv(s)'
  BY <1>0, <1>1, NoAnswerYet DEF AnswerInv
<1>11. ExecuteInv(s)'
  BY <1>0, <1>1, <1>4 DEF ExecuteInv
<1> QED
  BY <1>0, <1>5, <1>6, <1>7, <1>8, <1>9, <1>10, <1>11, OneSession

(* record_attempt and try_claim_winner read no row, create_request reads   *)
(* or inserts one.                                                         *)
LEMMA UnreadKeeps ==
  ASSUME IInv, NEW s \in Sessions, NEW r \in Requests, Ready(s, r), Frame(s),
         UNCHANGED <<budget, request, budgetLock, budgetNew, requestLock, requestNew>>,
         job'[s] = r, seen'[s] = seen[s], call'[s] \in Calls,
         (call'[s].op = "attempt" /\ stage'[s] \in {"returned", "raised"}) \/ (call'[s].op = "claim" /\ stage'[s] = "row")
  PROVE  (\A x \in Requests : RowInv(x)') /\ CallInv(s)' /\ Booked(s)' /\ Covered(s)'
<1>1. TypeOK /\ CallInv(s) /\ seen[s] \in Rows /\ s # NoOne /\ NoOne \notin Requests
  BY Typed DEF IInv
<1>2. seen'[s] = After(s)'
  BY DEF After
<1>3. Booked(s)' /\ Covered(s)'
  BY <1>1, <1>2, Refreshed
<1>4. CallInv(s)'
  <2>1. seen[s].status # "ABSENT" => job[s] = r
    BY <1>1 DEF Ready, CallInv
  <2>2. stage'[s] # "idle" /\ job'[s] # NoOne
    BY <1>1
  <2> QED
    BY <1>1, <2>1, <2>2 DEF CallInv, Row
<1>5. \A x \in Requests : requestLock[x] = s => job'[s] = x /\ seen'[s] = requestNew[x]
  BY <1>1, IdleHoldsNothing DEF IInv, RowInv, Ready
<1>6. \A x \in Requests : RowInv(x)'
  BY <1>5, RowsKept
<1> QED
  BY <1>3, <1>4, <1>6

(* record_attempt.                                                         *)
LEMMA AttemptKeeps ==
  ASSUME IInv, NEW s \in Sessions, NEW r \in Requests, Ready(s, r), NEW n \in 1 .. MaxAttempts,
         BeginAttempt(s, r, n), s \in Executors => step[s] # "settled",
         number' = number, again' = again,
         step' \in [Executors -> {"idle", "create", "select", "route", "fly", "attempt", "failed", "giveup", "settled"}],
         \A q \in Executors \ {s} : step'[q] = step[q],
         s \in Executors => step'[s] = "attempt" /\ step[s] = "fly" /\ stage[s] = "returned" /\ job[s] = r
  PROVE  IInv'
<1>0. TypeOK
  BY DEF IInv
<1>1. /\ UNCHANGED <<budget, request, attempt, budgetLock, budgetNew, requestLock, requestNew, seen>>
  BY DEF BeginAttempt, ledger
<1>2. /\ job' \in [Sessions -> Requests \cup {NoOne}] /\ job'[s] = r
      /\ \A q \in Sessions \ {s} : job'[q] = job[q]
  BY <1>0 DEF BeginAttempt, TypeOK
<1>3. /\ call' \in [Sessions -> Calls] /\ call'[s] \in Calls /\ call'[s].op = "attempt"
      /\ \A q \in Sessions \ {s} : call'[q] = call[q]
  <2>1. n \in Nat
    OBVIOUS
  <2>2. record_attempt(n) \in Calls /\ record_attempt(n).op = "attempt"
    BY <2>1, SendableCalls
  <2> QED
    BY <1>0, <2>2 DEF BeginAttempt, TypeOK
<1>4. /\ stage' \in [Sessions -> {"idle", "budget", "row", "returned", "raised"}]
      /\ stage'[s] \in {"returned", "raised"} /\ \A q \in Sessions \ {s} : stage'[q] = stage[q]
  BY <1>0 DEF BeginAttempt, TypeOK
<1>5. /\ tries' \in [Sessions -> [1 .. MaxAttempts -> AttemptStates]]
      /\ \A q \in Sessions \ {s} : tries'[q] = tries[q]
      /\ \A m \in 1 .. MaxAttempts : tries'[s][m] \in {tries[s][m], "IN_FLIGHT"}
  <2>1. tries' = tries \/ tries' = [tries EXCEPT ![s][n] = "IN_FLIGHT"]
    BY DEF BeginAttempt
  <2>2. CASE tries' = tries
    BY <1>0, <2>2 DEF TypeOK
  <2>3. CASE tries' = [tries EXCEPT ![s][n] = "IN_FLIGHT"]
    BY <1>0, <2>3 DEF TypeOK, AttemptStates
  <2> QED
    BY <2>1, <2>2, <2>3
<1>6. Frame(s)
  BY <1>1, <1>2, <1>3, <1>4, <1>5 DEF Frame, ledger
<1>7. TypeOK'
  BY <1>0, <1>1, <1>2, <1>3, <1>4, <1>5 DEF TypeOK
<1>8. (\A x \in Requests : RowInv(x)') /\ CallInv(s)' /\ Booked(s)' /\ Covered(s)'
  <2>1. /\ UNCHANGED <<budget, request, budgetLock, budgetNew, requestLock, requestNew>>
        /\ seen'[s] = seen[s] /\ job'[s] = r
    BY <1>1, <1>2
  <2>2. /\ call'[s] \in Calls
        /\ (call'[s].op = "attempt" /\ stage'[s] \in {"returned", "raised"}) \/ (call'[s].op = "claim" /\ stage'[s] = "row")
    BY <1>3, <1>4
  <2> QED
    BY <1>6, <2>1, <2>2, UnreadKeeps
<1>9. AnswerInv(s)'
  <2>1. \A m \in 1 .. MaxAttempts : tries'[s][m] # "COMPLETED"
    BY <1>5, NoAnswerYet
  <2> QED
    BY <2>1 DEF AnswerInv
<1>10. ASSUME s \in Executors PROVE ExecuteInv(s)'
  <2>1. Flying(s)
    BY <1>10 DEF IInv, ExecuteInv
  <2> QED
    BY <1>1, <1>2, <1>4, <1>10, <2>1 DEF ExecuteInv, Flying
<1> QED
  BY <1>6, <1>7, <1>8, <1>9, <1>10, OneSession

(* try_claim_winner.                                                       *)
LEMMA ClaimKeeps ==
  ASSUME IInv, NEW s \in Callers, NEW r \in Requests, stage[s] = "idle", BeginClaim(s, r), UNCHANGED executeVars
  PROVE  IInv'
<1>0. s \in Sessions /\ s \notin Executors /\ TypeOK /\ Ready(s, r)
  BY AIRequestAssumption DEF Sessions, IInv, Ready
<1>1. UNCHANGED <<budget, request, attempt, budgetLock, budgetNew, requestLock, requestNew, tries, seen, step, number, again>>
  BY DEF BeginClaim, ledger, locks, executeVars
<1>2. /\ job' \in [Sessions -> Requests \cup {NoOne}] /\ job'[s] = r
      /\ \A q \in Sessions \ {s} : job'[q] = job[q]
  BY <1>0 DEF BeginClaim, TypeOK
<1>3. /\ call' \in [Sessions -> Calls] /\ call'[s] \in Calls /\ call'[s].op = "claim"
      /\ \A q \in Sessions \ {s} : call'[q] = call[q]
  BY <1>0, NoCallFields DEF BeginClaim, TypeOK
<1>4. /\ stage' \in [Sessions -> {"idle", "budget", "row", "returned", "raised"}]
      /\ stage'[s] = "row" /\ \A q \in Sessions \ {s} : stage'[q] = stage[q]
  BY <1>0 DEF BeginClaim, TypeOK
<1>5. Frame(s)
  BY <1>1, <1>2, <1>3, <1>4 DEF Frame, ledger
<1>6. TypeOK'
  BY <1>0, <1>1, <1>2, <1>3, <1>4 DEF TypeOK
<1>7. (\A x \in Requests : RowInv(x)') /\ CallInv(s)' /\ Booked(s)' /\ Covered(s)'
  BY <1>0, <1>1, <1>2, <1>3, <1>4, <1>5, UnreadKeeps
<1>8. AnswerInv(s)'
  BY <1>0, <1>1, NoAnswerYet DEF AnswerInv
<1> QED
  BY <1>0, <1>5, <1>6, <1>7, <1>8, OneSession

(* A row that is not there, and one just inserted.                         *)
LEMMA AbsentFields ==
  /\ AbsentRow \in Rows /\ Sane(AbsentRow) /\ AbsentRow.status = "ABSENT"
  /\ \A p \in Payloads : \A new : new = [AbsentRow EXCEPT !.status = "CREATED", !.payload = p] =>
        /\ new \in Rows /\ Sane(new) /\ new.status = "CREATED" /\ new.reserved = 0 /\ new.committed = 0
        /\ new.cost = 0 /\ new.granted = 0 /\ new.winner = NoOne
<1>1. /\ AbsentRow.status = "ABSENT" /\ AbsentRow.reserved = 0 /\ AbsentRow.committed = 0
      /\ AbsentRow.cost = 0 /\ AbsentRow.granted = 0 /\ AbsentRow.winner = NoOne
  BY DEF AbsentRow
<1>2. AbsentRow \in Rows
  BY DEF AbsentRow, Rows
<1>3. ASSUME NEW p \in Payloads, NEW new, new = [AbsentRow EXCEPT !.status = "CREATED", !.payload = p]
      PROVE  /\ new \in Rows /\ new.status = "CREATED" /\ new.reserved = 0 /\ new.committed = 0
             /\ new.cost = 0 /\ new.granted = 0 /\ new.winner = NoOne
  BY <1>1, <1>2, <1>3, StateFacts DEF Rows
<1> QED
  BY <1>1, <1>2, <1>3 DEF Sane, TerminalStates

(* create_request: a new row, an old one or a refusal.                     *)
LEMMA CreateKeeps ==
  ASSUME IInv, NEW s \in Sessions, NEW r \in Requests, stage[s] = "idle", NEW p \in Payloads,
         BeginCreate(s, r, p), again' = again, number' \in [Executors -> 1 .. MaxAttempts],
         step' \in [Executors -> {"idle", "create", "select", "route", "fly", "attempt", "failed", "giveup", "settled"}],
         \A q \in Executors \ {s} : step'[q] = step[q] /\ number'[q] = number[q],
         s \in Executors => step'[s] = "create"
  PROVE  IInv'
<1>0. TypeOK /\ s # NoOne /\ NoOne \notin Requests /\ Row(s, r) \in Rows /\ request[r] \in Rows
  BY Typed DEF IInv
<1>i. /\ budgetLock # s /\ \A x \in Requests : requestLock[x] # s
      /\ seen[s].status = "ABSENT" /\ tries[s] = NoTries
  BY IdleHoldsNothing
<1>r. Row(s, r) = request[r]
  BY <1>i DEF Row
<1>s. Sane(request[r])
  BY DEF IInv, RowInv
<1>1. UNCHANGED <<budget, request, attempt, budgetLock, budgetNew, tries>>
  BY DEF BeginCreate, ledger, locks
<1>2. /\ job' \in [Sessions -> Requests \cup {NoOne}] /\ job'[s] = r
      /\ \A q \in Sessions \ {s} : job'[q] = job[q]
  BY <1>0 DEF BeginCreate, TypeOK
<1>3. /\ call' \in [Sessions -> Calls] /\ call'[s].op = "create"
      /\ \A q \in Sessions \ {s} : call'[q] = call[q]
  BY <1>0, NoCallFields DEF BeginCreate, TypeOK
<1>a. AnswerInv(s)'
  BY <1>1, <1>i DEF AnswerInv, NoTries
<1>4. CASE Row(s, r).status # "ABSENT"
  <2>1. /\ UNCHANGED <<requestLock, requestNew>>
        /\ seen' = [seen EXCEPT ![s] = request[r]]
        /\ stage' = [stage EXCEPT ![s] = IF request[r].payload = p THEN "returned" ELSE "raised"]
    BY <1>4, <1>r DEF BeginCreate, locks
  <2>2. /\ stage' \in [Sessions -> {"idle", "budget", "row", "returned", "raised"}]
        /\ stage'[s] \in {"returned", "raised"} /\ \A q \in Sessions \ {s} : stage'[q] = stage[q]
    BY <1>0, <2>1 DEF TypeOK
  <2>3. /\ seen' \in [Sessions -> Rows] /\ seen'[s] = request[r]
        /\ \A q \in Sessions \ {s} : seen'[q] = seen[q]
    BY <1>0, <2>1 DEF TypeOK
  <2>4. Frame(s)
    BY <1>1, <1>2, <1>3, <2>1, <2>2, <2>3 DEF Frame, ledger
  <2>5. TypeOK'
    BY <1>0, <1>1, <1>2, <1>3, <2>1, <2>2, <2>3 DEF TypeOK
  <2>6. \A x \in Requests : RowInv(x)'
    BY <1>i, <2>1, <2>4, RowsKept
  <2>7. CallInv(s)'
    <3>1. Since(request[r], request[r])
      BY SinceItself
    <3>2. requestLock'[r] # s /\ stage'[s] # "idle" /\ job'[s] # NoOne
      BY <1>0, <1>2, <1>i, <2>1, <2>2
    <3> QED
      BY <1>1, <1>2, <1>3, <1>s, <2>2, <2>3, <3>1, <3>2 DEF CallInv, Row
  <2>8. Booked(s)' /\ Covered(s)'
    <3>1. seen'[s] = After(s)'
      BY <2>2 DEF After
    <3>2. Ready(s, r) /\ UNCHANGED <<budget, request, budgetLock, budgetNew, requestLock, requestNew>> /\ job'[s] = r
      BY <1>1, <1>2, <2>1 DEF Ready
    <3>3. seen'[s] \in Rows
      BY <1>0, <2>3
    <3> QED
      BY <3>1, <3>2, <3>3, Refreshed
  <2>9. s \in Executors => ExecuteInv(s)'
    BY <2>2 DEF ExecuteInv
  <2> QED
    BY <1>a, <2>4, <2>5, <2>6, <2>7, <2>8, <2>9, OneSession
<1>5. CASE Row(s, r).status = "ABSENT"
  <2> DEFINE new == [AbsentRow EXCEPT !.status = "CREATED", !.payload = p]
  <2>0. /\ new \in Rows /\ Sane(new) /\ new.status = "CREATED" /\ new.reserved = 0 /\ new.committed = 0
        /\ new.cost = 0 /\ new.granted = 0 /\ new.winner = NoOne
    BY AbsentFields
  <2>1. /\ requestLock[r] = NoOne /\ requestLock' = [requestLock EXCEPT ![r] = s]
        /\ requestNew' = [requestNew EXCEPT ![r] = new]
        /\ seen' = [seen EXCEPT ![s] = new]
        /\ stage' = [stage EXCEPT ![s] = "returned"]
    BY <1>5 DEF BeginCreate
  <2> HIDE DEF new
  <2>2. /\ stage' \in [Sessions -> {"idle", "budget", "row", "returned", "raised"}]
        /\ stage'[s] = "returned" /\ \A q \in Sessions \ {s} : stage'[q] = stage[q]
    BY <1>0, <2>1 DEF TypeOK
  <2>3. /\ seen' \in [Sessions -> Rows] /\ seen'[s] = new
        /\ \A q \in Sessions \ {s} : seen'[q] = seen[q]
    BY <1>0, <2>0, <2>1 DEF TypeOK
  <2>4. /\ requestLock' \in [Requests -> Sessions \cup {NoOne}] /\ requestNew' \in [Requests -> Rows]
        /\ requestLock'[r] = s /\ requestNew'[r] = new
        /\ \A x \in Requests \ {r} : requestLock'[x] = requestLock[x] /\ requestNew'[x] = requestNew[x]
    BY <1>0, <2>0, <2>1 DEF TypeOK
  <2>5. Frame(s)
    <3>1. ASSUME NEW q \in Sessions \ {s}, NEW x \in Requests
          PROVE  /\ requestLock'[x] = q <=> requestLock[x] = q
                 /\ requestLock[x] = q => requestNew'[x] = requestNew[x]
      <4>1. q # NoOne
        BY AIRequestAssumption
      <4> QED
        BY <2>1, <2>4, <4>1
    <3> QED
      BY <1>1, <1>2, <1>3, <2>2, <2>3, <3>1 DEF Frame, ledger
  <2>6. TypeOK'
    BY <1>0, <1>1, <1>2, <1>3, <2>2, <2>3, <2>4 DEF TypeOK
  <2>7. \A x \in Requests : RowInv(x)'
    <3>1. RowInv(r)'
      <4>1. Since(request[r], new)
        BY <1>5, <1>r, <1>s, <2>0 DEF Since, Sane, TerminalStates
      <4> QED
        BY <1>1, <1>2, <1>s, <2>0, <2>3, <2>4, <4>1 DEF RowInv
    <3>2. ASSUME NEW x \in Requests \ {r} PROVE RowInv(x)'
      <4>1. RowInv(x) /\ requestLock[x] \in (Sessions \ {s}) \cup {NoOne}
        BY <1>0, <1>i DEF IInv, TypeOK
      <4> QED
        BY <1>1, <1>2, <2>3, <2>4, <4>1 DEF RowInv
    <3> QED
      BY <3>1, <3>2
  <2>8. CallInv(s)'
    <3>1. Since(new, new)
      BY SinceItself
    <3>2. stage'[s] # "idle" /\ job'[s] # NoOne
      BY <1>0, <1>2, <2>2
    <3> QED
      BY <1>1, <1>2, <1>3, <2>0, <2>2, <2>3, <2>4, <3>1, <3>2 DEF CallInv, Row
  <2>9. Booked(s)' /\ Covered(s)'
    <3>1. After(s)' = new
      BY <2>2, <2>3 DEF After
    <3>2. request[r].reserved = 0 /\ request[r].committed = 0 /\ request[r].cost = 0
      BY <1>5, <1>r, <1>s DEF Sane, TerminalStates
    <3>3. Balanced(budget, budget, new, request[r], new, new)
      <4>1. budget.reserved \in Nat /\ budget.used \in Nat /\ budget.cost \in Nat
        BY <1>0 DEF TypeOK, BudgetRows
      <4> QED
        BY <2>0, <3>2, <4>1 DEF Balanced
    <3>4. Booked(s)'
      BY <1>1, <1>2, <1>i, <2>3, <2>4, <3>1, <3>3 DEF Booked, Row, Budget
    <3>5. Covered(s)'
      BY <1>1, <1>i DEF Covered
    <3> QED
      BY <3>4, <3>5
  <2>10. s \in Executors => ExecuteInv(s)'
    BY <2>2 DEF ExecuteInv
  <2> QED
    BY <1>a, <2>5, <2>6, <2>7, <2>8, <2>9, <2>10, OneSession
<1> QED
  BY <1>4, <1>5

-----------------------------------------------------------------------------
(* The two UPDATEs.                                                        *)

(* A row that has moved on with the same charge has the same overrun.      *)
LEMMA SameOverrun ==
  ASSUME NEW old \in Rows, NEW new \in Rows, Sane(old), Since(old, new), new.committed = old.committed
  PROVE  Overrun(new) = Overrun(old)
<1>1. old.committed \in Nat /\ old.granted \in Nat /\ new.granted \in Nat
  BY RowFields
<1>2. CASE old.committed = 0
  BY <1>1, <1>2 DEF Overrun
<1>3. CASE old.committed # 0
  <2>1. old.status = "COMPLETED"
    BY <1>3 DEF Sane
  <2>2. new.granted = old.granted
    BY <2>1 DEF Since
  <2> QED
    BY <2>2 DEF Overrun
<1> QED
  BY <1>2, <1>3

(* What a session sees of a row is the committed row or comes after it.    *)
LEMMA OwnRowMovedOn ==
  ASSUME IInv, NEW s \in Sessions, NEW r \in Requests
  PROVE  Since(request[r], Row(s, r)) /\ Sane(Row(s, r)) /\ Sane(request[r])
<1>1. RowInv(r) /\ s # NoOne
  BY Typed DEF IInv
<1>2. Since(request[r], request[r])
  BY SinceItself
<1> QED
  BY <1>1, <1>2 DEF RowInv, Row

(* Between two UPDATEs, what the session changed in the budget is what it  *)
(* changed in its row, and the budget it would commit is within the limit. *)
LEMMA Settled ==
  ASSUME IInv, NEW s \in Sessions, NEW r \in Requests, job[s] = r, stage[s] \in Working, After(s) = seen[s],
         NEW b, b = Budget(s), NEW row, row = Row(s, r)
  PROVE  /\ b.reserved + request[r].reserved = budget.reserved + row.reserved
         /\ b.used + request[r].committed = budget.used + row.committed
         /\ b.cost + request[r].cost = budget.cost + row.cost
         /\ budgetLock # s => Overrun(row) = Overrun(request[r])
         /\ b.used + b.reserved + Overrun(request[r]) <= TokenLimit + TotalOverrun + Overrun(row)
<1>t. TypeOK /\ Booked(s) /\ Covered(s) /\ OverdraftIsOverrun
  BY DEF IInv
<1>1. row \in Rows /\ request[r] \in Rows /\ b \in BudgetRows /\ budget \in BudgetRows /\ seen[s] \in Rows
  BY <1>t, Typed
<1>2. /\ row.reserved \in Nat /\ row.committed \in Nat /\ row.cost \in Nat
      /\ request[r].reserved \in Nat /\ request[r].committed \in Nat /\ request[r].cost \in Nat
      /\ seen[s].reserved \in Nat /\ seen[s].committed \in Nat /\ seen[s].cost \in Nat
  BY <1>1, RowFields
<1>3. b.reserved \in Nat /\ b.used \in Nat /\ b.cost \in Nat /\ budget.reserved \in Nat /\ budget.used \in Nat /\ budget.cost \in Nat
  BY <1>1 DEF BudgetRows
<1>4. Overrun(row) \in Nat /\ Overrun(request[r]) \in Nat /\ Overrun(seen[s]) \in Nat
  BY <1>1, OverrunTyped
<1>5. TotalOverrun \in Nat /\ TokenLimit \in Nat
  BY <1>t, TotalTyped, AIRequestAssumption
<1>6. Balanced(b, budget, row, request[r], seen[s], seen[s])
  BY <1>t DEF Booked
<1>7. /\ b.reserved + request[r].reserved = budget.reserved + row.reserved
      /\ b.used + request[r].committed = budget.used + row.committed
      /\ b.cost + request[r].cost = budget.cost + row.cost
  BY <1>2, <1>3, <1>6 DEF Balanced
<1>8. CASE budgetLock = s
  <2>1. b = budgetNew
    BY <1>8 DEF Budget
  <2>2. b.used + b.reserved + Overrun(request[r]) + Overrun(seen[s])
           <= TokenLimit + TotalOverrun + Overrun(row) + Overrun(seen[s])
    BY <1>8, <1>t, <2>1 DEF Covered
  <2> QED
    BY <1>3, <1>4, <1>5, <1>7, <1>8, <2>2
<1>9. CASE budgetLock # s
  <2>1. b = budget
    BY <1>9 DEF Budget
  <2>2. row.committed = request[r].committed
    BY <1>2, <1>3, <1>7, <2>1
  <2>3. Since(request[r], row) /\ Sane(request[r])
    BY OwnRowMovedOn
  <2>4. Overrun(row) = Overrun(request[r])
    BY <1>1, <2>2, <2>3, SameOverrun
  <2>5. budget.used + budget.reserved <= TokenLimit + TotalOverrun
    BY <1>t DEF OverdraftIsOverrun, TotalOverrun
  <2> QED
    BY <1>3, <1>4, <1>5, <1>7, <2>1, <2>4, <2>5
<1> QED
  BY <1>8, <1>9

(* The budget UPDATE of a call that passed its checks: the new budget, the *)
(* loaded row and the row as the call will leave it.                       *)
LEMMA BudgetMoves ==
  ASSUME NEW b \in BudgetRows, NEW row \in Rows, Sane(row), NEW c \in Calls, c.op \in BudgetOps,
         Check(row, c) = "budget", NEW s \in Sessions, NEW after, after = RowUpdate(row, c, s),
         NEW u, u = BudgetUpdate(b, row, c), u.ok, NEW w, w = u.row
  PROVE  /\ w \in BudgetRows /\ after \in Rows
         /\ w.reserved + row.reserved = b.reserved + after.reserved
         /\ w.used + row.committed = b.used + after.committed
         /\ w.cost + row.cost = b.cost + after.cost
         /\ Overrun(row) = 0
         /\ \/ w.used + w.reserved <= TokenLimit
            \/ w.used + w.reserved <= b.used + b.reserved + Overrun(after)
<1>1. /\ b.used \in Nat /\ b.reserved \in Nat /\ b.cost \in Nat
      /\ row.reserved \in Nat /\ row.committed \in Nat /\ row.cost \in Nat /\ row.granted \in Nat
      /\ c.tokens \in Nat /\ c.cost \in Nat /\ TokenLimit \in Nat
  BY RowFields, CallFields, AIRequestAssumption DEF BudgetRows
<1>2. row.status \notin TerminalStates
  BY CheckFacts DEF BudgetOps, TerminalStates
<1>3. row.committed = 0 /\ row.cost = 0 /\ Overrun(row) = 0
  BY <1>1, <1>2 DEF Sane, Overrun, TerminalStates
<1>4. CASE c.op = "reserve"
  <2>1. row.status = "CREATED" /\ row.reserved = 0
    BY <1>4, CheckFacts DEF Sane
  <2>2. u = reserve_tokens(b, c.tokens)
    BY <1>4 DEF BudgetUpdate
  <2>3. b.used + b.reserved + c.tokens <= TokenLimit /\ w = [b EXCEPT !.reserved = b.reserved + c.tokens]
    <3>1. w = [b EXCEPT !.reserved = b.reserved + c.tokens]
      BY <2>2 DEF reserve_tokens
    <3>2. c.tokens > 0 /\ b.used + b.reserved + c.tokens <= TokenLimit
      <4>1. reserve_tokens(b, c.tokens).ok
        BY <2>2, Zenon
      <4> QED
        BY <4>1, Zenon DEF reserve_tokens
    <3> QED
      BY <3>1, <3>2
  <2>4. b.reserved + c.tokens \in Nat
    BY <1>1
  <2>5. w \in BudgetRows /\ w.reserved = b.reserved + c.tokens /\ w.used = b.used /\ w.cost = b.cost
    BY <2>3, <2>4 DEF BudgetRows
  <2>6. after \in Rows /\ after.reserved = c.tokens /\ after.committed = row.committed /\ after.cost = row.cost
    BY <1>4, UpdateFields
  <2> QED
    BY <1>1, <1>3, <2>1, <2>3, <2>5, <2>6
<1>5. CASE c.op = "commit"
  <2>1. row.status = "IN_FLIGHT" /\ row.reserved = row.granted
    BY <1>5, CheckFacts DEF Sane, TerminalStates
  <2>2. u = commit_tokens(b, row.reserved, c.tokens, c.cost)
    BY <1>5 DEF BudgetUpdate
  <2>3. /\ b.reserved >= row.reserved
        /\ w = [used |-> b.used + c.tokens, reserved |-> b.reserved - row.reserved, cost |-> b.cost + c.cost]
    <3>1. w = [used |-> b.used + c.tokens, reserved |-> b.reserved - row.reserved, cost |-> b.cost + c.cost]
      BY <2>2 DEF commit_tokens
    <3>2. b.reserved >= row.reserved /\ b.cost + c.cost <= CostLimit
      <4>1. commit_tokens(b, row.reserved, c.tokens, c.cost).ok
        BY <2>2, Zenon
      <4> QED
        BY <4>1, Zenon DEF commit_tokens
    <3> QED
      BY <3>1, <3>2
  <2>4. b.used + c.tokens \in Nat /\ b.reserved - row.reserved \in Nat /\ b.cost + c.cost \in Nat
    BY <1>1, <2>3
  <2>5. w \in BudgetRows /\ w.reserved = b.reserved - row.reserved /\ w.used = b.used + c.tokens /\ w.cost = b.cost + c.cost
    BY <2>3, <2>4 DEF BudgetRows
  <2>6. after \in Rows /\ after.reserved = 0 /\ after.committed = c.tokens /\ after.cost = c.cost /\ after.granted = row.granted
    BY <1>5, UpdateFields
  <2>7. w.used + w.reserved <= b.used + b.reserved + Overrun(after)
    BY <1>1, <2>1, <2>3, <2>5, <2>6 DEF Overrun
  <2> QED
    BY <1>1, <1>3, <2>3, <2>5, <2>6, <2>7
<1>6. CASE c.op = "release"
  <2>1. u = release_tokens(b, row.reserved)
    BY <1>6 DEF BudgetUpdate
  <2>2. b.reserved >= row.reserved /\ w = [b EXCEPT !.reserved = b.reserved - row.reserved]
    <3>1. w = [b EXCEPT !.reserved = b.reserved - row.reserved]
      BY <2>1 DEF release_tokens
    <3>2. b.reserved >= row.reserved
      <4>1. release_tokens(b, row.reserved).ok
        BY <2>1, Zenon
      <4> QED
        BY <4>1, Zenon DEF release_tokens
    <3> QED
      BY <3>1, <3>2
  <2>3. b.reserved - row.reserved \in Nat
    BY <1>1, <2>2
  <2>4. w \in BudgetRows /\ w.reserved = b.reserved - row.reserved /\ w.used = b.used /\ w.cost = b.cost
    BY <2>2, <2>3 DEF BudgetRows
  <2>5. after \in Rows /\ after.reserved = 0 /\ after.committed = row.committed /\ after.cost = row.cost
    BY <1>6, UpdateFields
  <2>6. Overrun(after) \in Nat
    BY <2>5, OverrunTyped
  <2> QED
    BY <1>1, <1>3, <2>2, <2>4, <2>5, <2>6
<1> QED
  BY <1>4, <1>5, <1>6 DEF BudgetOps

(* The UPDATE of the budget: taken, refused or waiting for the lock.       *)
LEMMA BudgetStepKeeps ==
  ASSUME IInv, NEW s \in Sessions, BudgetStep(s), UNCHANGED executeVars
  PROVE  IInv'
<1>0. TypeOK /\ CallInv(s) /\ AnswerInv(s) /\ s # NoOne /\ NoOne \notin Requests
  BY Typed DEF IInv
<1>1. /\ UNCHANGED <<budget, request, attempt, requestLock, requestNew, tries, job, call, seen, step, number, again>>
      /\ stage[s] = "budget" /\ budgetLock \in {s, NoOne}
  BY DEF BudgetStep, ledger, executeVars
<1>2. job[s] \in Requests
  BY <1>0, <1>1, Typed DEF CallInv
<1>3. call[s] \in Calls /\ seen[s] \in Rows /\ Sane(seen[s]) /\ call[s].op \in BudgetOps /\ Check(seen[s], call[s]) = "budget"
  BY <1>0, <1>1, Typed DEF CallInv
<1>4. s \in Executors => step[s] \notin {"idle", "fly", "attempt"} /\ ExecuteInv(s)
  BY <1>1 DEF IInv, ExecuteInv
<1>r. \A x \in Requests : RowInv(x)'
  BY <1>1 DEF IInv, RowInv
<1>q. \A q \in Sessions \ {s} : q # NoOne
  BY AIRequestAssumption
<1> DEFINE r == job[s]
           b == Budget(s)
           u == BudgetUpdate(b, seen[s], call[s])
<1>5. CASE ~u.ok
  <2>1. stage' = [stage EXCEPT ![s] = "raised"] /\ UNCHANGED <<budgetLock, budgetNew>>
    BY <1>5 DEF BudgetStep
  <2>2. /\ stage' \in [Sessions -> {"idle", "budget", "row", "returned", "raised"}]
        /\ stage'[s] = "raised" /\ \A q \in Sessions \ {s} : stage'[q] = stage[q]
    BY <1>0, <2>1 DEF TypeOK
  <2> HIDE DEF r, b, u
  <2>3. Frame(s)
    BY <1>1, <2>1, <2>2 DEF Frame, ledger
  <2>4. TypeOK'
    BY <1>0, <1>1, <2>1, <2>2 DEF TypeOK
  <2>5. CallInv(s)'
    BY <1>0, <1>1, <2>1, <2>2 DEF CallInv, Row
  <2>6. Booked(s)' /\ Covered(s)'
    BY <2>2 DEF Booked, Covered, Working
  <2>7. AnswerInv(s)'
    BY <1>0, <1>1, <2>2 DEF AnswerInv
  <2>8. s \in Executors => ExecuteInv(s)'
    BY <1>1, <1>4, <2>2 DEF ExecuteInv
  <2> QED
    BY <1>r, <2>3, <2>4, <2>5, <2>6, <2>7, <2>8, OneSession
<1>6. CASE u.ok
  <2> DEFINE w == u.row
             row == Row(s, r)
             after == RowUpdate(seen[s], call[s], s)
  <2>1. stage' = [stage EXCEPT ![s] = "row"] /\ budgetLock' = s /\ budgetNew' = w
    BY <1>6 DEF BudgetStep
  <2>2. /\ stage' \in [Sessions -> {"idle", "budget", "row", "returned", "raised"}]
        /\ stage'[s] = "row" /\ \A q \in Sessions \ {s} : stage'[q] = stage[q]
    BY <1>0, <2>1 DEF TypeOK
  <2>3. b \in BudgetRows /\ row \in Rows /\ request[r] \in Rows /\ budget \in BudgetRows
    BY <1>0, <1>2, Typed
  <2>4. /\ w \in BudgetRows /\ after \in Rows
        /\ w.reserved + seen[s].reserved = b.reserved + after.reserved
        /\ w.used + seen[s].committed = b.used + after.committed
        /\ w.cost + seen[s].cost = b.cost + after.cost
        /\ Overrun(seen[s]) = 0
        /\ \/ w.used + w.reserved <= TokenLimit
           \/ w.used + w.reserved <= b.used + b.reserved + Overrun(after)
    <3> HIDE DEF r, b
    <3> QED BY <1>3, <1>6, <2>3, BudgetMoves
  <2>5. /\ b.reserved + request[r].reserved = budget.reserved + row.reserved
        /\ b.used + request[r].committed = budget.used + row.committed
        /\ b.cost + request[r].cost = budget.cost + row.cost
        /\ b.used + b.reserved + Overrun(request[r]) <= TokenLimit + TotalOverrun + Overrun(row)
    <3>1. After(s) = seen[s] /\ stage[s] \in Working
      BY <1>1 DEF After, Working
    <3> QED
      BY <1>2, <3>1, Settled
  <2>6. (IF requestLock'[job'[s]] = s THEN requestNew'[job'[s]] ELSE request'[job'[s]]) = row
    BY <1>1 DEF Row
  <2>7. After(s)' = after
    <3>1. call[s].op # "claim"
      BY <1>3 DEF BudgetOps
    <3> QED
      BY <1>1, <2>2, <3>1 DEF After
  <2>8. job'[s] = r /\ r \in Requests
    BY <1>1, <1>2
  <2> HIDE DEF r, b, u, w, row, after
  <2>9. Frame(s)
    BY <1>1, <1>q, <2>1, <2>2 DEF Frame, ledger
  <2>10. TypeOK'
    BY <1>0, <1>1, <2>1, <2>2, <2>4 DEF TypeOK
  <2>11. CallInv(s)'
    <3>1. Passed(seen[s], call[s])
      BY <1>3 DEF Passed
    <3>2. stage'[s] # "idle" /\ job'[s] # NoOne
      BY <1>0, <2>2, <2>8
    <3> QED
      BY <1>0, <1>1, <2>2, <3>1, <3>2 DEF CallInv, Row
  <2>n. /\ w.reserved \in Nat /\ w.used \in Nat /\ w.cost \in Nat
        /\ b.reserved \in Nat /\ b.used \in Nat /\ b.cost \in Nat
        /\ budget.reserved \in Nat /\ budget.used \in Nat /\ budget.cost \in Nat
    BY <2>3, <2>4 DEF BudgetRows
  <2>m. /\ row.reserved \in Nat /\ row.committed \in Nat /\ row.cost \in Nat
        /\ request[r].reserved \in Nat /\ request[r].committed \in Nat /\ request[r].cost \in Nat
        /\ seen[s].reserved \in Nat /\ seen[s].committed \in Nat /\ seen[s].cost \in Nat
        /\ after.reserved \in Nat /\ after.committed \in Nat /\ after.cost \in Nat
    BY <1>3, <2>3, <2>4, RowFields
  <2>12. Booked(s)'
    <3>1. Balanced(w, budget, row, request[r], seen[s], after)
      <4>1. w.reserved + request[r].reserved + seen[s].reserved = budget.reserved + row.reserved + after.reserved
        <5>1. w.reserved + seen[s].reserved = b.reserved + after.reserved
          BY <2>4
        <5>2. b.reserved + request[r].reserved = budget.reserved + row.reserved
          BY <2>5
        <5> QED BY <2>n, <2>m, <5>1, <5>2
      <4>2. w.used + request[r].committed + seen[s].committed = budget.used + row.committed + after.committed
        <5>1. w.used + seen[s].committed = b.used + after.committed
          BY <2>4
        <5>2. b.used + request[r].committed = budget.used + row.committed
          BY <2>5
        <5> QED BY <2>n, <2>m, <5>1, <5>2
      <4>3. w.cost + request[r].cost + seen[s].cost = budget.cost + row.cost + after.cost
        <5>1. w.cost + seen[s].cost = b.cost + after.cost
          BY <2>4
        <5>2. b.cost + request[r].cost = budget.cost + row.cost
          BY <2>5
        <5> QED BY <2>n, <2>m, <5>1, <5>2
      <4> QED
        BY <4>1, <4>2, <4>3 DEF Balanced
    <3> QED
      BY <1>1, <2>1, <2>6, <2>7, <2>8, <3>1 DEF Booked, Row, Budget
  <2>13. Covered(s)'
    <3>1. /\ Overrun(row) \in Nat /\ Overrun(after) \in Nat /\ Overrun(request[r]) \in Nat
          /\ TotalOverrun \in Nat /\ Overrun(request[r]) <= TotalOverrun /\ TokenLimit \in Nat
      BY <1>0, <2>3, <2>4, <2>8, OverrunTyped, TotalTyped, AIRequestAssumption
    <3>2. w.used + w.reserved + Overrun(request[r]) + Overrun(seen[s])
             <= TokenLimit + TotalOverrun + Overrun(row) + Overrun(after)
      BY <2>n, <2>4, <2>5, <3>1
    <3>3. TotalOverrun' = TotalOverrun
      BY <1>1 DEF TotalOverrun
    <3> QED
      BY <1>1, <2>1, <2>6, <2>7, <2>8, <3>2, <3>3 DEF Covered, Row
  <2>14. AnswerInv(s)'
    BY <1>0, <1>1, <2>2 DEF AnswerInv
  <2>15. s \in Executors => ExecuteInv(s)'
    BY <1>1, <1>4, <2>2 DEF ExecuteInv
  <2> QED
    BY <1>r, <2>9, <2>10, <2>11, <2>12, <2>13, <2>14, <2>15, OneSession
<1> QED
  BY <1>5, <1>6

(* The UPDATE of a row that matched.                                       *)
LEMMA RowMoves ==
  ASSUME IInv, NEW s \in Sessions, NEW r \in Requests, job[s] = r, stage[s] = "row", NEW row, row = Row(s, r),
         row.status # "ABSENT", RowMatches(row, call[s], seen[s]),
         NEW new, new = RowUpdate(row, call[s], s), NEW after, after = After(s)
  PROVE  /\ new \in Rows /\ after \in Rows /\ Sane(new) /\ Since(row, new) /\ new.status # "ABSENT"
         /\ call[s].op = "commit" => new.status = "COMPLETED"
         /\ call[s].op = "transition" => new.status = call[s].to
         /\ row.reserved + after.reserved = seen[s].reserved + new.reserved
         /\ row.committed + after.committed = seen[s].committed + new.committed
         /\ row.cost + after.cost = seen[s].cost + new.cost
         /\ Overrun(row) + Overrun(after) = Overrun(seen[s]) + Overrun(new)
<1>0. TypeOK /\ CallInv(s)
  BY DEF IInv
<1>1. row \in Rows /\ seen[s] \in Rows /\ call[s] \in Calls
  BY <1>0, Typed
<1>2. Sane(row) /\ Sane(seen[s])
  BY <1>0, OwnRowMovedOn DEF CallInv
<1>3. /\ row.reserved \in Nat /\ row.committed \in Nat /\ row.cost \in Nat
      /\ seen[s].reserved \in Nat /\ seen[s].committed \in Nat /\ seen[s].cost \in Nat
      /\ Overrun(row) \in Nat /\ Overrun(seen[s]) \in Nat
  BY <1>1, RowFields, OverrunTyped
<1>4. CASE call[s].op = "claim"
  <2>1. row.winner = NoOne /\ after = seen[s]
    BY <1>4 DEF RowMatches, After
  <2>2. /\ new \in Rows /\ new.status = row.status /\ new.reserved = row.reserved /\ new.granted = row.granted
        /\ new.committed = row.committed /\ new.cost = row.cost
    BY <1>1, <1>4, UpdateFields
  <2>3. Sane(new) /\ Since(row, new)
    BY <1>2, <2>1, <2>2 DEF Sane, Since
  <2>4. Overrun(new) = Overrun(row)
    BY <2>2 DEF Overrun
  <2> QED
    BY <1>1, <1>3, <1>4, <2>1, <2>2, <2>3, <2>4
<1>5. CASE call[s].op # "claim"
  <2>1. Passed(seen[s], call[s]) /\ row.status = seen[s].status /\ after = RowUpdate(seen[s], call[s], s)
    BY <1>0, <1>5 DEF CallInv, RowMatches, After
  <2>2. Since(seen[s], row)
    BY <1>0, <2>1 DEF CallInv
  <2>3. call[s].op = "release" => call[s].to \in {"FAILED", "CANCELLED"}
    BY <1>0 DEF CallInv
  <2>4. /\ after \in Rows /\ new \in Rows /\ Sane(new) /\ Since(row, new) /\ new.status # "ABSENT"
        /\ row.reserved = seen[s].reserved /\ row.committed = seen[s].committed /\ row.cost = seen[s].cost
        /\ new.reserved = after.reserved /\ new.committed = after.committed /\ new.cost = after.cost
        /\ Overrun(row) = Overrun(seen[s]) /\ Overrun(new) = Overrun(after)
    BY <1>1, <1>2, <2>1, <2>2, <2>3, UpdateAdvances
  <2>5. /\ call[s].op = "commit" => new.status = "COMPLETED"
        /\ call[s].op = "transition" => new.status = call[s].to
    BY <1>1, UpdateFields
  <2> QED
    BY <2>4, <2>5
<1> QED
  BY <1>4, <1>5

(* The compare-and-set of the row, matched or not.                         *)
LEMMA RowStepKeeps ==
  ASSUME IInv, NEW s \in Sessions, RowStep(s), UNCHANGED executeVars
  PROVE  IInv'
<1>0. TypeOK /\ CallInv(s) /\ AnswerInv(s) /\ Booked(s) /\ Covered(s) /\ s # NoOne /\ NoOne \notin Requests
  BY Typed DEF IInv
<1>1. /\ UNCHANGED <<budget, request, attempt, budgetLock, budgetNew, tries, job, call, step, number, again>>
      /\ stage[s] = "row" /\ requestLock[job[s]] \in {s, NoOne}
  BY DEF RowStep, ledger, executeVars
<1>2. job[s] \in Requests
  BY <1>0, <1>1, Typed DEF CallInv
<1>4. s \in Executors => step[s] \notin {"idle", "attempt"} /\ ExecuteInv(s)
  BY <1>1 DEF IInv, ExecuteInv
<1>q. \A q \in Sessions \ {s} : q # NoOne
  BY AIRequestAssumption
<1> DEFINE r == job[s]
           row == Row(s, r)
           match == row.status # "ABSENT" /\ RowMatches(row, call[s], seen[s])
<1>5. CASE ~match
  <2>1. /\ stage' = [stage EXCEPT ![s] = IF call[s].op = "claim" THEN "returned" ELSE "raised"]
        /\ UNCHANGED <<requestLock, requestNew, seen>>
    BY <1>5 DEF RowStep
  <2>2. /\ stage' \in [Sessions -> {"idle", "budget", "row", "returned", "raised"}]
        /\ stage'[s] = (IF call[s].op = "claim" THEN "returned" ELSE "raised")
        /\ \A q \in Sessions \ {s} : stage'[q] = stage[q]
    BY <1>0, <2>1 DEF TypeOK
  <2> HIDE DEF r, row, match
  <2>3. Frame(s)
    BY <1>1, <2>1, <2>2 DEF Frame, ledger
  <2>4. TypeOK'
    BY <1>0, <1>1, <2>1, <2>2 DEF TypeOK
  <2>5. CallInv(s)'
    BY <1>0, <1>1, <2>1, <2>2 DEF CallInv, Row
  <2>6. Booked(s)' /\ Covered(s)'
    <3>1. CASE call[s].op = "claim"
      <4>1. After(s)' = After(s) /\ stage[s] \in Working
        BY <1>1, <2>1, <2>2, <3>1 DEF After, Working
      <4>2. TotalOverrun' = TotalOverrun
        BY <1>1 DEF TotalOverrun
      <4> QED
        BY <1>0, <1>1, <2>1, <4>1, <4>2 DEF Booked, Covered, Row, Budget
    <3>2. CASE call[s].op # "claim"
      BY <2>2, <3>2 DEF Booked, Covered, Working
    <3> QED
      BY <3>1, <3>2
  <2>7. AnswerInv(s)'
    BY <1>0, <1>1, <2>1, <2>2 DEF AnswerInv
  <2>8. s \in Executors => ExecuteInv(s)'
    BY <1>1, <1>4, <2>1, <2>2 DEF ExecuteInv
  <2>r. \A x \in Requests : RowInv(x)'
    BY <1>1, <2>1 DEF IInv, RowInv
  <2> QED
    BY <2>r, <2>3, <2>4, <2>5, <2>6, <2>7, <2>8, OneSession
<1>6. CASE match
  <2> DEFINE new == RowUpdate(row, call[s], s)
             after == After(s)
             b == Budget(s)
  <2>1. /\ requestLock' = [requestLock EXCEPT ![r] = s] /\ requestNew' = [requestNew EXCEPT ![r] = new]
        /\ seen' = [seen EXCEPT ![s] = new] /\ stage' = [stage EXCEPT ![s] = "returned"]
    BY <1>6 DEF RowStep
  <2>2. /\ new \in Rows /\ after \in Rows /\ Sane(new) /\ Since(row, new) /\ new.status # "ABSENT"
        /\ call[s].op = "commit" => new.status = "COMPLETED"
        /\ call[s].op = "transition" => new.status = call[s].to
    <3> HIDE DEF new, after
    <3>1. row.status # "ABSENT" /\ RowMatches(row, call[s], seen[s])
      BY <1>6
    <3> QED
      BY <1>1, <1>2, <3>1, RowMoves DEF new, after
  <2>3. /\ row.reserved + after.reserved = seen[s].reserved + new.reserved
        /\ row.committed + after.committed = seen[s].committed + new.committed
        /\ row.cost + after.cost = seen[s].cost + new.cost
        /\ Overrun(row) + Overrun(after) = Overrun(seen[s]) + Overrun(new)
    <3>1. row.status # "ABSENT" /\ RowMatches(row, call[s], seen[s])
      BY <1>6
    <3> QED
      BY <1>1, <1>2, <3>1, RowMoves
  <2>4. row \in Rows /\ request[r] \in Rows /\ b \in BudgetRows /\ budget \in BudgetRows /\ seen[s] \in Rows
    BY <1>0, <1>2, Typed
  <2>5. Since(request[r], row) /\ Sane(request[r])
    BY <1>2, OwnRowMovedOn
  <2>6. Balanced(b, budget, row, request[r], seen[s], after)
    BY <1>0, <1>1 DEF Booked, Working
  <2>7. budgetLock = s => budgetNew.used + budgetNew.reserved + Overrun(request[r]) + Overrun(seen[s])
            <= TokenLimit + TotalOverrun + Overrun(row) + Overrun(after)
    BY <1>0, <1>1 DEF Covered, Working
  <2>8. job'[s] = r /\ r \in Requests /\ r = job[s] /\ (IF budgetLock' = s THEN budgetNew' ELSE budget') = b
    BY <1>1, <1>2 DEF Budget
  <2>9. requestLock[r] \in {s, NoOne}
    BY <1>1
  <2> HIDE DEF r, row, match, new, after, b
  <2>10. /\ stage' \in [Sessions -> {"idle", "budget", "row", "returned", "raised"}]
         /\ stage'[s] = "returned" /\ \A q \in Sessions \ {s} : stage'[q] = stage[q]
    BY <1>0, <2>1 DEF TypeOK
  <2>11. /\ seen' \in [Sessions -> Rows] /\ seen'[s] = new
         /\ \A q \in Sessions \ {s} : seen'[q] = seen[q]
    BY <1>0, <2>1, <2>2 DEF TypeOK
  <2>12. /\ requestLock' \in [Requests -> Sessions \cup {NoOne}] /\ requestNew' \in [Requests -> Rows]
         /\ requestLock'[r] = s /\ requestNew'[r] = new
         /\ \A x \in Requests \ {r} : requestLock'[x] = requestLock[x] /\ requestNew'[x] = requestNew[x]
    BY <1>0, <2>1, <2>2, <2>8 DEF TypeOK
  <2>13. Frame(s)
    <3>1. ASSUME NEW q \in Sessions \ {s}, NEW x \in Requests
          PROVE  /\ requestLock'[x] = q <=> requestLock[x] = q
                 /\ requestLock[x] = q => requestNew'[x] = requestNew[x]
      <4>1. q # NoOne
        BY AIRequestAssumption
      <4> QED
        BY <2>9, <2>12, <4>1
    <3> QED
      BY <1>1, <2>10, <2>11, <3>1 DEF Frame, ledger
  <2>14. TypeOK'
    BY <1>0, <1>1, <2>10, <2>11, <2>12 DEF TypeOK
  <2>15. \A x \in Requests : RowInv(x)'
    <3>1. ASSUME NEW x \in Requests, x = r PROVE RowInv(x)'
      <4>1. Since(request[r], new)
        BY <2>2, <2>5, SinceOnwards
      <4> QED
        BY <1>1, <2>2, <2>5, <2>8, <2>11, <2>12, <3>1, <4>1 DEF RowInv
    <3>2. ASSUME NEW x \in Requests \ {r} PROVE RowInv(x)'
      <4>1. RowInv(x) /\ requestLock[x] \in Sessions \cup {NoOne}
        BY <1>0 DEF IInv, TypeOK
      <4>2. requestLock[x] # s
        BY <1>0, <2>8, <4>1 DEF RowInv
      <4> QED
        BY <1>1, <2>11, <2>12, <4>1, <4>2 DEF RowInv
    <3> QED
      BY <3>1, <3>2
  <2>16. CallInv(s)'
    <3>1. Since(new, new)
      BY SinceItself
    <3>2. stage'[s] # "idle" /\ job'[s] # NoOne
      BY <1>0, <2>8, <2>10
    <3> QED
      BY <1>0, <1>1, <2>2, <2>8, <2>10, <2>11, <2>12, <3>1, <3>2 DEF CallInv, Row
  <2>17. After(s)' = new
    BY <2>10, <2>11 DEF After
  <2>n. /\ b.reserved \in Nat /\ b.used \in Nat /\ b.cost \in Nat
        /\ budget.reserved \in Nat /\ budget.used \in Nat /\ budget.cost \in Nat
    BY <2>4 DEF BudgetRows
  <2>m. /\ row.reserved \in Nat /\ row.committed \in Nat /\ row.cost \in Nat
        /\ request[r].reserved \in Nat /\ request[r].committed \in Nat /\ request[r].cost \in Nat
        /\ seen[s].reserved \in Nat /\ seen[s].committed \in Nat /\ seen[s].cost \in Nat
        /\ after.reserved \in Nat /\ after.committed \in Nat /\ after.cost \in Nat
        /\ new.reserved \in Nat /\ new.committed \in Nat /\ new.cost \in Nat
    BY <2>2, <2>4, RowFields
  <2>18. Booked(s)'
    <3>1. b.reserved + request[r].reserved + new.reserved = budget.reserved + new.reserved + new.reserved
      <4>1. b.reserved + request[r].reserved + seen[s].reserved = budget.reserved + row.reserved + after.reserved
        BY <2>6 DEF Balanced
      <4>2. row.reserved + after.reserved = seen[s].reserved + new.reserved
        BY <2>3
      <4> QED BY <2>n, <2>m, <4>1, <4>2
    <3>2. b.used + request[r].committed + new.committed = budget.used + new.committed + new.committed
      <4>1. b.used + request[r].committed + seen[s].committed = budget.used + row.committed + after.committed
        BY <2>6 DEF Balanced
      <4>2. row.committed + after.committed = seen[s].committed + new.committed
        BY <2>3
      <4> QED BY <2>n, <2>m, <4>1, <4>2
    <3>3. b.cost + request[r].cost + new.cost = budget.cost + new.cost + new.cost
      <4>1. b.cost + request[r].cost + seen[s].cost = budget.cost + row.cost + after.cost
        BY <2>6 DEF Balanced
      <4>2. row.cost + after.cost = seen[s].cost + new.cost
        BY <2>3
      <4> QED BY <2>n, <2>m, <4>1, <4>2
    <3>4. Balanced(b, budget, new, request[r], new, new)
      BY <3>1, <3>2, <3>3 DEF Balanced
    <3> QED
      BY <1>1, <2>8, <2>11, <2>12, <2>17, <3>4 DEF Booked, Row, Budget
  <2>19. Covered(s)'
    <3>1. /\ Overrun(row) \in Nat /\ Overrun(after) \in Nat /\ Overrun(request[r]) \in Nat /\ Overrun(seen[s]) \in Nat
          /\ Overrun(new) \in Nat
      BY <2>2, <2>4, OverrunTyped
    <3>2. TotalOverrun \in Nat /\ TokenLimit \in Nat
      BY <1>0, <2>8, TotalTyped, AIRequestAssumption
    <3>3. budgetNew.used \in Nat /\ budgetNew.reserved \in Nat
      BY <1>0 DEF TypeOK, BudgetRows
    <3>4. Overrun(row) + Overrun(after) = Overrun(seen[s]) + Overrun(new)
      BY <2>3
    <3>5. budgetLock = s => budgetNew.used + budgetNew.reserved + Overrun(request[r]) + Overrun(new)
             <= TokenLimit + TotalOverrun + Overrun(new) + Overrun(new)
      BY <2>7, <3>1, <3>2, <3>3, <3>4
    <3>6. TotalOverrun' = TotalOverrun
      BY <1>1 DEF TotalOverrun
    <3> QED
      BY <1>1, <2>8, <2>11, <2>12, <2>17, <3>5, <3>6 DEF Covered, Row
  <2>20. AnswerInv(s)'
    BY <1>0, <1>1, <2>2, <2>8, <2>11, <2>12 DEF AnswerInv
  <2>21. s \in Executors => ExecuteInv(s)'
    <3>1. s \in Executors /\ step[s] = "fly" => call[s].op = "transition" /\ call[s].to = "IN_FLIGHT"
      BY <1>4 DEF ExecuteInv
    <3> QED
      BY <1>1, <1>4, <2>2, <2>8, <2>10, <2>11, <2>12, <3>1 DEF ExecuteInv, Flying
  <2> QED
    BY <2>13, <2>14, <2>15, <2>16, <2>18, <2>19, <2>20, <2>21, OneSession
<1> QED
  BY <1>5, <1>6

-----------------------------------------------------------------------------
(* The end of a transaction.                                               *)

LEMMA NewBudgetTyped == NewBudget \in BudgetRows
BY DEF NewBudget, BudgetRows

(* A session that ends gives up its locks and its private rows.            *)
LEMMA SessionEnds ==
  ASSUME IInv, NEW s \in Sessions, EndSession(s)
  PROVE  /\ budgetLock' \in Sessions \cup {NoOne} /\ budgetNew' \in BudgetRows
         /\ requestLock' \in [Requests -> Sessions \cup {NoOne}] /\ requestNew' \in [Requests -> Rows]
         /\ tries' \in [Sessions -> [1 .. MaxAttempts -> AttemptStates]]
         /\ job' \in [Sessions -> Requests \cup {NoOne}]
         /\ stage' \in [Sessions -> {"idle", "budget", "row", "returned", "raised"}]
         /\ call' \in [Sessions -> Calls] /\ seen' \in [Sessions -> Rows]
         /\ job'[s] = NoOne /\ stage'[s] = "idle" /\ seen'[s] = AbsentRow /\ tries'[s] = NoTries
         /\ call'[s] = NoCall /\ budgetLock' # s
         /\ \A q \in Sessions \ {s} :
               /\ job'[q] = job[q] /\ stage'[q] = stage[q] /\ call'[q] = call[q]
               /\ seen'[q] = seen[q] /\ tries'[q] = tries[q]
               /\ budgetLock' = q <=> budgetLock = q
               /\ budgetLock = q => budgetNew' = budgetNew
         /\ \A r \in Requests :
               /\ requestLock'[r] = IF requestLock[r] = s THEN NoOne ELSE requestLock[r]
               /\ requestNew'[r] = IF requestLock[r] = s THEN AbsentRow ELSE requestNew[r]
<1>0. TypeOK /\ s # NoOne
  BY Typed DEF IInv
<1>1. AbsentRow \in Rows /\ NoCall \in Calls /\ NoTries \in [1 .. MaxAttempts -> AttemptStates]
  BY AbsentFields, NoCallFields DEF NoTries, AttemptStates
<1>2. \A q \in Sessions : q # NoOne
  BY AIRequestAssumption
<1>3. /\ budgetLock' \in Sessions \cup {NoOne} /\ budgetNew' \in BudgetRows /\ budgetLock' # s
      /\ \A q \in Sessions \ {s} : (budgetLock' = q <=> budgetLock = q) /\ (budgetLock = q => budgetNew' = budgetNew)
  BY <1>0, <1>2, NewBudgetTyped DEF EndSession, TypeOK
<1>4. /\ requestLock' = [r \in Requests |-> IF requestLock[r] = s THEN NoOne ELSE requestLock[r]]
      /\ requestNew' = [r \in Requests |-> IF requestLock[r] = s THEN AbsentRow ELSE requestNew[r]]
  BY DEF EndSession
<1>5. requestLock' \in [Requests -> Sessions \cup {NoOne}] /\ requestNew' \in [Requests -> Rows]
  BY <1>0, <1>1, <1>4 DEF TypeOK
<1>6. /\ tries' \in [Sessions -> [1 .. MaxAttempts -> AttemptStates]] /\ tries'[s] = NoTries
      /\ \A q \in Sessions \ {s} : tries'[q] = tries[q]
  BY <1>0, <1>1 DEF EndSession, TypeOK
<1>7. /\ job' \in [Sessions -> Requests \cup {NoOne}] /\ job'[s] = NoOne
      /\ stage' \in [Sessions -> {"idle", "budget", "row", "returned", "raised"}] /\ stage'[s] = "idle"
      /\ \A q \in Sessions \ {s} : job'[q] = job[q] /\ stage'[q] = stage[q]
  BY <1>0 DEF EndSession, TypeOK
<1>8. /\ call' \in [Sessions -> Calls] /\ seen' \in [Sessions -> Rows] /\ call'[s] = NoCall /\ seen'[s] = AbsentRow
      /\ \A q \in Sessions \ {s} : call'[q] = call[q] /\ seen'[q] = seen[q]
  BY <1>0, <1>1 DEF EndSession, TypeOK
<1> QED
  BY <1>3, <1>4, <1>5, <1>6, <1>7, <1>8

(* An idle session satisfies the invariant whatever the rest does.         *)
LEMMA IdleInv ==
  ASSUME NEW s \in Sessions, job'[s] = NoOne, stage'[s] = "idle", seen'[s] = AbsentRow, tries'[s] = NoTries,
         call'[s] = NoCall, budgetLock' # s, s \in Executors => step'[s] = "idle"
  PROVE  /\ CallInv(s)' /\ Booked(s)' /\ Covered(s)' /\ AnswerInv(s)'
         /\ s \in Executors => ExecuteInv(s)'
<1>1. CallInv(s)'
  BY AbsentFields, NoCallFields DEF CallInv
<1>2. Booked(s)' /\ Covered(s)'
  BY DEF Booked, Covered, Working
<1>3. AnswerInv(s)'
  BY DEF AnswerInv, NoTries
<1>4. s \in Executors => ExecuteInv(s)'
  BY DEF ExecuteInv
<1> QED
  BY <1>1, <1>2, <1>3, <1>4

(* What execute keeps of its control when the session of s ends.           *)
Ended(s) ==
    /\ step' \in [Executors -> {"idle", "create", "select", "route", "fly", "attempt", "failed", "giveup", "settled"}]
    /\ number' \in [Executors -> 1 .. MaxAttempts] /\ again' \in [Executors -> BOOLEAN]
    /\ \A q \in Executors \ {s} : step'[q] = step[q] /\ number'[q] = number[q] /\ again'[q] = again[q]
    /\ s \in Executors => step'[s] = "idle"

(* The rows it had locked are free and are the committed ones.             *)
LEMMA RowsAfterEnd ==
  ASSUME IInv, NEW s \in Sessions, EndSession(s), NEW r \in Requests, Sane(request'[r]),
         requestLock[r] # s => request'[r] = request[r]
  PROVE  RowInv(r)'
<1>0. RowInv(r) /\ requestLock[r] \in Sessions \cup {NoOne} /\ s # NoOne
  BY Typed DEF IInv, TypeOK
<1>1. /\ requestLock'[r] = IF requestLock[r] = s THEN NoOne ELSE requestLock[r]
      /\ requestNew'[r] = IF requestLock[r] = s THEN AbsentRow ELSE requestNew[r]
      /\ \A q \in Sessions \ {s} : job'[q] = job[q] /\ seen'[q] = seen[q]
  BY SessionEnds
<1>2. CASE requestLock[r] = s
  BY <1>1, <1>2, AbsentFields DEF RowInv
<1>3. CASE requestLock[r] # s
  BY <1>0, <1>1, <1>3 DEF RowInv
<1> QED
  BY <1>2, <1>3

(* A rollback, chosen, by deadlock or by crash.                            *)
LEMMA RollbackKeeps ==
  ASSUME IInv, NEW s \in Sessions, Rollback(s), Ended(s)
  PROVE  IInv'
<1>0. TypeOK /\ EndSession(s) /\ UNCHANGED <<budget, request, attempt>> /\ s # NoOne
  BY Typed DEF IInv, Rollback, ledger
<1>q. \A q \in Sessions \ {s} : q # NoOne
  BY AIRequestAssumption
<1>1. Frame(s)
  <2>1. ASSUME NEW q \in Sessions \ {s}, NEW r \in Requests
        PROVE  /\ requestLock'[r] = q <=> requestLock[r] = q
               /\ requestLock[r] = q => requestNew'[r] = requestNew[r]
    <3>1. /\ requestLock'[r] = IF requestLock[r] = s THEN NoOne ELSE requestLock[r]
          /\ requestNew'[r] = IF requestLock[r] = s THEN AbsentRow ELSE requestNew[r]
      BY <1>0, SessionEnds
    <3> QED
      BY <1>q, <3>1
  <2>2. \A q \in Sessions \ {s} :
           /\ job'[q] = job[q] /\ stage'[q] = stage[q] /\ call'[q] = call[q]
           /\ seen'[q] = seen[q] /\ tries'[q] = tries[q]
           /\ budgetLock' = q <=> budgetLock = q
           /\ budgetLock = q => budgetNew' = budgetNew
    BY <1>0, SessionEnds
  <2> QED
    BY <1>0, <2>1, <2>2 DEF Frame, Ended, ledger
<1>2. TypeOK'
  BY <1>0, SessionEnds DEF TypeOK, Ended
<1>3. \A r \in Requests : RowInv(r)'
  BY <1>0, RowsAfterEnd DEF IInv, RowInv
<1>4. /\ CallInv(s)' /\ Booked(s)' /\ Covered(s)' /\ AnswerInv(s)'
      /\ s \in Executors => ExecuteInv(s)'
  <2>1. /\ job'[s] = NoOne /\ stage'[s] = "idle" /\ seen'[s] = AbsentRow /\ tries'[s] = NoTries
        /\ call'[s] = NoCall /\ budgetLock' # s
    BY <1>0, SessionEnds
  <2> QED
    BY <2>1, IdleInv DEF Ended
<1> QED
  BY <1>1, <1>2, <1>3, <1>4, OneSession

(* A commit changes the committed row of one request, to the session's.    *)
LEMMA CommitWrites ==
  ASSUME IInv, NEW s \in Sessions, stage[s] = "returned", Commit(s), NEW r \in Requests, r = job[s]
  PROVE  /\ EndSession(s) /\ budget' = Budget(s) /\ request' \in [Requests -> Rows]
         /\ request'[r] = Row(s, r) /\ \A x \in Requests \ {r} : request'[x] = request[x]
         /\ \A x \in Requests : requestLock[x] # s => request'[x] = request[x]
         /\ attempt' \in [Requests -> [1 .. MaxAttempts -> AttemptStates]]
         /\ \A n \in 1 .. MaxAttempts : attempt'[r][n] = IF tries[s][n] # "none" THEN tries[s][n] ELSE attempt[r][n]
         /\ \A x \in Requests \ {r} : attempt'[x] = attempt[x]
<1>0. TypeOK /\ s # NoOne /\ NoOne \notin Requests /\ \A x \in Requests : Row(s, x) \in Rows
  BY Typed DEF IInv
<1>1. request' = [x \in Requests |-> Row(s, x)]
  BY DEF Commit
<1>2. \A x \in Requests \ {r} : requestLock[x] # s
  BY <1>0 DEF IInv, RowInv
<1>3. \A x \in Requests : requestLock[x] # s => Row(s, x) = request[x]
  BY DEF Row
<1> DEFINE tried == [n \in 1 .. MaxAttempts |-> Attempt(s, r, n)]
<1>4. attempt' = [attempt EXCEPT ![r] = tried]
  BY <1>0 DEF Commit
<1>5. tried \in [1 .. MaxAttempts -> AttemptStates]
  <2>1. \A n \in 1 .. MaxAttempts : Attempt(s, r, n) \in AttemptStates
    <3>1. tries[s] \in [1 .. MaxAttempts -> AttemptStates] /\ attempt[r] \in [1 .. MaxAttempts -> AttemptStates]
      BY <1>0 DEF TypeOK
    <3>2. \A n \in 1 .. MaxAttempts : tries[s][n] \in AttemptStates /\ attempt[r][n] \in AttemptStates
      BY <3>1
    <3> QED
      BY <3>2 DEF Attempt
  <2> QED
    BY <2>1
<1>6. \A n \in 1 .. MaxAttempts : tried[n] = IF tries[s][n] # "none" THEN tries[s][n] ELSE attempt[r][n]
  BY DEF Attempt
<1> HIDE DEF tried
<1>7. /\ attempt' \in [Requests -> [1 .. MaxAttempts -> AttemptStates]] /\ attempt'[r] = tried
      /\ \A x \in Requests \ {r} : attempt'[x] = attempt[x]
  BY <1>0, <1>4, <1>5 DEF TypeOK
<1>8. /\ request' \in [Requests -> Rows] /\ request'[r] = Row(s, r)
      /\ \A x \in Requests : requestLock[x] # s => request'[x] = request[x]
  BY <1>0, <1>1, <1>3
<1>9. EndSession(s) /\ budget' = Budget(s)
  BY DEF Commit
<1> QED
  BY <1>2, <1>6, <1>7, <1>8, <1>9

(* The sums after a commit: budget and one row change by the same amounts. *)
LEMMA CommitKeepsBooks ==
  ASSUME IInv, NEW s \in Sessions, stage[s] = "returned", Commit(s), NEW r \in Requests, r = job[s]
  PROVE  /\ BudgetIsLedger' /\ OverdraftIsOverrun'
         /\ budgetLock # s => TotalOverrun' = TotalOverrun /\ Overrun(request'[r]) = Overrun(request[r])
<1>0. TypeOK /\ BudgetIsLedger /\ IsFiniteSet(Requests) /\ TokenLimit \in Nat
  BY AIRequestAssumption DEF IInv
<1>1. /\ budget' = Budget(s) /\ request' \in [Requests -> Rows] /\ request \in [Requests -> Rows]
      /\ request'[r] = Row(s, r) /\ \A x \in Requests \ {r} : request'[x] = request[x]
  BY <1>0, CommitWrites DEF TypeOK
<1>2. After(s) = seen[s] /\ stage[s] \in Working
  BY DEF After, Working
<1>3. /\ budget'.reserved + request[r].reserved = budget.reserved + request'[r].reserved
      /\ budget'.used + request[r].committed = budget.used + request'[r].committed
      /\ budget'.cost + request[r].cost = budget.cost + request'[r].cost
      /\ budgetLock # s => Overrun(request'[r]) = Overrun(request[r])
      /\ budget'.used + budget'.reserved + Overrun(request[r]) <= TokenLimit + TotalOverrun + Overrun(request'[r])
  BY <1>1, <1>2, Settled
<1>n. /\ budget'.reserved \in Nat /\ budget'.used \in Nat /\ budget'.cost \in Nat
      /\ budget.reserved \in Nat /\ budget.used \in Nat /\ budget.cost \in Nat
  BY <1>0, <1>1, Typed DEF BudgetRows
<1>f. /\ \A x \in Requests : request[x] \in Rows /\ request'[x] \in Rows
      /\ \A x \in Requests : /\ request[x].reserved \in Nat /\ request[x].committed \in Nat /\ request[x].cost \in Nat
                             /\ request'[x].reserved \in Nat /\ request'[x].committed \in Nat /\ request'[x].cost \in Nat
      /\ \A x \in Requests : Overrun(request[x]) \in Nat /\ Overrun(request'[x]) \in Nat
  <2>1. \A x \in Requests : request[x] \in Rows /\ request'[x] \in Rows
    BY <1>1
  <2> QED
    BY <2>1, RowFields, OverrunTyped
<1>4. budget'.reserved = SumFunction([x \in Requests |-> request'[x].reserved])
  <2> DEFINE f == [x \in Requests |-> request[x].reserved]
             h == [x \in Requests |-> request'[x].reserved]
  <2>1. /\ f \in [Requests -> Nat] /\ h \in [Requests -> Nat] /\ f[r] = request[r].reserved /\ h[r] = request'[r].reserved
        /\ \A x \in Requests \ {r} : h[x] = f[x]
    BY <1>1, <1>f
  <2>2. budget.reserved = SumFunction(f)
    BY <1>0 DEF BudgetIsLedger
  <2>3. request[r].reserved \in Nat /\ request'[r].reserved \in Nat
    BY <1>f
  <2> HIDE DEF f, h
  <2>4. SumFunction(f) \in Nat /\ SumFunction(h) \in Nat /\ SumFunction(h) + f[r] = SumFunction(f) + h[r]
    BY <1>0, <2>1, SumUpdate
  <2>5. budget'.reserved = SumFunction(h)
    <3>1. budget'.reserved + request[r].reserved = budget.reserved + request'[r].reserved
      BY <1>3
    <3>2. budget'.reserved \in Nat /\ f[r] = request[r].reserved /\ h[r] = request'[r].reserved
      BY <1>n, <2>1
    <3> QED
      BY <2>2, <2>3, <2>4, <3>1, <3>2
  <2> QED
    BY <2>5 DEF h
<1>5. budget'.used = SumFunction([x \in Requests |-> request'[x].committed])
  <2> DEFINE f == [x \in Requests |-> request[x].committed]
             h == [x \in Requests |-> request'[x].committed]
  <2>1. /\ f \in [Requests -> Nat] /\ h \in [Requests -> Nat] /\ f[r] = request[r].committed /\ h[r] = request'[r].committed
        /\ \A x \in Requests \ {r} : h[x] = f[x]
    BY <1>1, <1>f
  <2>2. budget.used = SumFunction(f)
    BY <1>0 DEF BudgetIsLedger
  <2>3. request[r].committed \in Nat /\ request'[r].committed \in Nat
    BY <1>f
  <2> HIDE DEF f, h
  <2>4. SumFunction(f) \in Nat /\ SumFunction(h) \in Nat /\ SumFunction(h) + f[r] = SumFunction(f) + h[r]
    BY <1>0, <2>1, SumUpdate
  <2>5. budget'.used = SumFunction(h)
    <3>1. budget'.used + request[r].committed = budget.used + request'[r].committed
      BY <1>3
    <3>2. budget'.used \in Nat /\ f[r] = request[r].committed /\ h[r] = request'[r].committed
      BY <1>n, <2>1
    <3> QED
      BY <2>2, <2>3, <2>4, <3>1, <3>2
  <2> QED
    BY <2>5 DEF h
<1>6. budget'.cost = SumFunction([x \in Requests |-> request'[x].cost])
  <2> DEFINE f == [x \in Requests |-> request[x].cost]
             h == [x \in Requests |-> request'[x].cost]
  <2>1. /\ f \in [Requests -> Nat] /\ h \in [Requests -> Nat] /\ f[r] = request[r].cost /\ h[r] = request'[r].cost
        /\ \A x \in Requests \ {r} : h[x] = f[x]
    BY <1>1, <1>f
  <2>2. budget.cost = SumFunction(f)
    BY <1>0 DEF BudgetIsLedger
  <2>3. request[r].cost \in Nat /\ request'[r].cost \in Nat
    BY <1>f
  <2> HIDE DEF f, h
  <2>4. SumFunction(f) \in Nat /\ SumFunction(h) \in Nat /\ SumFunction(h) + f[r] = SumFunction(f) + h[r]
    BY <1>0, <2>1, SumUpdate
  <2>5. budget'.cost = SumFunction(h)
    <3>1. budget'.cost + request[r].cost = budget.cost + request'[r].cost
      BY <1>3
    <3>2. budget'.cost \in Nat /\ f[r] = request[r].cost /\ h[r] = request'[r].cost
      BY <1>n, <2>1
    <3> QED
      BY <2>2, <2>3, <2>4, <3>1, <3>2
  <2> QED
    BY <2>5 DEF h
<1>7. /\ TotalOverrun \in Nat /\ TotalOverrun' \in Nat
      /\ TotalOverrun' + Overrun(request[r]) = TotalOverrun + Overrun(request'[r])
  <2> DEFINE f == [x \in Requests |-> Overrun(request[x])]
             h == [x \in Requests |-> Overrun(request'[x])]
  <2>1. /\ f \in [Requests -> Nat] /\ h \in [Requests -> Nat] /\ f[r] = Overrun(request[r]) /\ h[r] = Overrun(request'[r])
        /\ \A x \in Requests \ {r} : h[x] = f[x]
    BY <1>1, <1>f
  <2>2. TotalOverrun = SumFunction(f) /\ TotalOverrun' = SumFunction(h)
    BY DEF TotalOverrun
  <2> HIDE DEF f, h
  <2>3. SumFunction(f) \in Nat /\ SumFunction(h) \in Nat /\ SumFunction(h) + f[r] = SumFunction(f) + h[r]
    BY <1>0, <2>1, SumUpdate
  <2> QED
    BY <2>1, <2>2, <2>3
<1>8. BudgetIsLedger'
  BY <1>4, <1>5, <1>6 DEF BudgetIsLedger
<1>9. budget'.used + budget'.reserved <= TokenLimit + TotalOverrun'
  <2>1. Overrun(request[r]) \in Nat /\ Overrun(request'[r]) \in Nat
    BY <1>f
  <2> QED
    BY <1>0, <1>3, <1>7, <1>n, <2>1
<1>10. budgetLock # s => TotalOverrun' = TotalOverrun
  <2>1. Overrun(request[r]) \in Nat
    BY <1>f
  <2> QED
    BY <1>3, <1>7, <2>1
<1> QED
  BY <1>3, <1>8, <1>9, <1>10 DEF OverdraftIsOverrun, TotalOverrun

(* The pending UPDATE makes a row.                                         *)
LEMMA AfterTyped ==
  ASSUME IInv, NEW s \in Sessions
  PROVE  After(s) \in Rows
<1>0. TypeOK /\ CallInv(s)
  BY DEF IInv
<1>1. seen[s] \in Rows /\ call[s] \in Calls
  BY <1>0, Typed
<1>2. CASE stage[s] = "row" /\ call[s].op # "claim"
  <2>1. call[s].op = "reserve" \/ call[s].op = "commit" \/ call[s].op = "release" \/ call[s].op = "transition"
    BY <1>0, <1>2 DEF CallInv, Passed, BudgetOps
  <2>2. RowUpdate(seen[s], call[s], s) \in Rows
    BY <1>1, <2>1, UpdateFields
  <2> QED
    BY <1>2, <2>2 DEF After
<1>3. CASE ~(stage[s] = "row" /\ call[s].op # "claim")
  BY <1>1, <1>3 DEF After
<1> QED
  BY <1>2, <1>3

(* What a commit changes for the others: the committed budget and row      *)
(* under them.  A session that waits has read a row before this one, and   *)
(* finds out by its status.                                                *)
LEMMA OthersAfterCommit ==
  ASSUME IInv, NEW s \in Sessions, stage[s] = "returned", Commit(s), Ended(s), NEW q \in Sessions, q # s
  PROVE  /\ CallInv(q)' /\ Booked(q)' /\ Covered(q)' /\ AnswerInv(q)'
         /\ q \in Executors => ExecuteInv(q)'
<1>0. TypeOK /\ CallInv(s) /\ s # NoOne /\ q # NoOne /\ NoOne \notin Requests
  BY Typed DEF IInv
<1>r. PICK r \in Requests : r = job[s]
  BY <1>0, Typed DEF CallInv
<1>1. /\ EndSession(s) /\ budget' = Budget(s)
      /\ request'[r] = Row(s, r) /\ \A x \in Requests \ {r} : request'[x] = request[x]
      /\ \A x \in Requests : requestLock[x] # s => request'[x] = request[x]
  BY <1>r, CommitWrites
<1>2. /\ job'[q] = job[q] /\ stage'[q] = stage[q] /\ call'[q] = call[q]
      /\ seen'[q] = seen[q] /\ tries'[q] = tries[q]
      /\ budgetLock' = q <=> budgetLock = q
      /\ budgetLock = q => budgetNew' = budgetNew
  BY <1>1, SessionEnds
<1>3. \A x \in Requests : /\ requestLock'[x] = q <=> requestLock[x] = q
                          /\ requestLock[x] = q => requestNew'[x] = requestNew[x]
  <2>1. \A x \in Requests :
           /\ requestLock'[x] = IF requestLock[x] = s THEN NoOne ELSE requestLock[x]
           /\ requestNew'[x] = IF requestLock[x] = s THEN AbsentRow ELSE requestNew[x]
    BY <1>1, SessionEnds
  <2> QED
    BY <1>0, <2>1
<1>4. q \in Executors => step'[q] = step[q] /\ number'[q] = number[q] /\ again'[q] = again[q]
  BY DEF Ended
<1>5. CallInv(q) /\ Booked(q) /\ Covered(q) /\ AnswerInv(q) /\ (q \in Executors => ExecuteInv(q)) /\ job[q] \in Requests \cup {NoOne}
  BY Typed DEF IInv
<1>6. CASE job[q] = NoOne
  <2>1. stage[q] = "idle" /\ seen[q].status = "ABSENT" /\ tries[q] = NoTries
    BY <1>5, <1>6 DEF CallInv
  <2>2. CallInv(q)'
    BY <1>2, <1>5, <1>6, <2>1 DEF CallInv
  <2>3. Booked(q)' /\ Covered(q)'
    BY <1>2, <2>1 DEF Booked, Covered, Working
  <2>4. AnswerInv(q)'
    BY <1>2, <2>1 DEF AnswerInv, NoTries
  <2>5. q \in Executors => ExecuteInv(q)'
    BY <1>2, <1>4, <1>5, <2>1 DEF ExecuteInv
  <2> QED
    BY <2>2, <2>3, <2>4, <2>5
<1>7. CASE job[q] \in Requests
  <2>p. PICK k \in Requests : k = job[q]
    BY <1>7
  <2> DEFINE old == Row(q, k)
             new == IF requestLock'[k] = q THEN requestNew'[k] ELSE request'[k]
             b == Budget(q)
             w == IF budgetLock' = q THEN budgetNew' ELSE budget'
  <2>1. job'[q] = k /\ (requestLock'[k] = q <=> requestLock[k] = q)
    BY <1>2, <1>3, <2>p
  <2>2. \/ new = old /\ request'[k] = request[k]
        \/ new = request'[k] /\ old = request[k]
    BY <1>0, <1>1, <1>3 DEF Row
  <2>3. (w = b /\ budget' = budget) \/ (w = budget' /\ b = budget)
    BY <1>1, <1>2 DEF Budget
  <2>4. Since(old, new)
    <3>1. Since(request[k], request'[k])
      <4>1. CASE k = r
        BY <1>1, <4>1, OwnRowMovedOn
      <4>2. CASE k # r
        BY <1>1, <4>2, SinceItself
      <4> QED BY <4>1, <4>2
    <3>2. Since(old, old)
      BY SinceItself
    <3> QED
      BY <2>2, <3>1, <3>2
  <2>5. After(q)' = After(q)
    BY <1>2 DEF After
  <2>6. CallInv(q)'
    <3>1. seen[q].status # "ABSENT" => Since(seen[q], new)
      <4>1. seen[q].status # "ABSENT" => Since(seen[q], old)
        BY <1>5, <2>p DEF CallInv
      <4> HIDE DEF old, new
      <4> QED
        BY <2>4, <4>1, SinceOnwards
    <3> QED
      BY <1>2, <1>5, <2>1, <3>1 DEF CallInv, Row
  <2>t. /\ old \in Rows /\ request[k] \in Rows /\ request'[k] \in Rows /\ seen[q] \in Rows
        /\ b \in BudgetRows /\ budget \in BudgetRows /\ budget' \in BudgetRows
    <3>1. request' \in [Requests -> Rows] /\ Budget(s) \in BudgetRows
      BY <1>0, <1>r, CommitWrites, Typed
    <3> QED
      BY <1>0, <1>1, <3>1, Typed
  <2>7. Booked(q)'
    <3> SUFFICES ASSUME stage[q] \in Working PROVE Balanced(w, budget', new, request'[k], seen[q], After(q))
      BY <1>2, <2>1, <2>5 DEF Booked, Row, Budget
    <3>1. Balanced(b, budget, old, request[k], seen[q], After(q))
      BY <1>5, <2>p DEF Booked
    <3>2. After(q) \in Rows
      BY AfterTyped
    <3>3. new \in Rows /\ w \in BudgetRows
      BY <2>2, <2>3, <2>t
    <3>n. /\ w.reserved \in Nat /\ w.used \in Nat /\ w.cost \in Nat
          /\ b.reserved \in Nat /\ b.used \in Nat /\ b.cost \in Nat
          /\ budget.reserved \in Nat /\ budget.used \in Nat /\ budget.cost \in Nat
          /\ budget'.reserved \in Nat /\ budget'.used \in Nat /\ budget'.cost \in Nat
      <4> HIDE DEF w, b
      <4> QED BY <2>t, <3>3 DEF BudgetRows
    <3> HIDE DEF old, new, w, b
    <3>m. /\ old.reserved \in Nat /\ old.committed \in Nat /\ old.cost \in Nat
          /\ new.reserved \in Nat /\ new.committed \in Nat /\ new.cost \in Nat
          /\ request[k].reserved \in Nat /\ request[k].committed \in Nat /\ request[k].cost \in Nat
          /\ request'[k].reserved \in Nat /\ request'[k].committed \in Nat /\ request'[k].cost \in Nat
          /\ seen[q].reserved \in Nat /\ seen[q].committed \in Nat /\ seen[q].cost \in Nat
          /\ After(q).reserved \in Nat /\ After(q).committed \in Nat /\ After(q).cost \in Nat
      BY <2>t, <3>2, <3>3, RowFields
    <3>4. w.reserved + request'[k].reserved + seen[q].reserved = budget'.reserved + new.reserved + After(q).reserved
      <4>1. b.reserved + request[k].reserved + seen[q].reserved = budget.reserved + old.reserved + After(q).reserved
        BY <3>1 DEF Balanced
      <4>2. /\ (w.reserved = b.reserved /\ budget'.reserved = budget.reserved) \/ (w.reserved = budget'.reserved /\ b.reserved = budget.reserved)
            /\ (new.reserved = old.reserved /\ request'[k].reserved = request[k].reserved) \/ (new.reserved = request'[k].reserved /\ old.reserved = request[k].reserved)
        BY <2>2, <2>3
      <4>3. /\ w.reserved \in Nat /\ b.reserved \in Nat /\ budget.reserved \in Nat /\ budget'.reserved \in Nat
            /\ old.reserved \in Nat /\ new.reserved \in Nat /\ request[k].reserved \in Nat /\ request'[k].reserved \in Nat
            /\ seen[q].reserved \in Nat /\ After(q).reserved \in Nat
        BY <3>n, <3>m
      <4>4. w.reserved + budget.reserved = b.reserved + budget'.reserved
        BY <4>2, <4>3
      <4>5. new.reserved + request[k].reserved = old.reserved + request'[k].reserved
        BY <4>2, <4>3
      <4> DEFINE w1 == w.reserved
                 b1 == b.reserved
                 g1 == budget.reserved
                 h1 == budget'.reserved
                 o1 == old.reserved
                 n1 == new.reserved
                 p1 == request[k].reserved
                 t1 == request'[k].reserved
                 l1 == seen[q].reserved
                 a1 == After(q).reserved
      <4>6. /\ w1 \in Nat /\ b1 \in Nat /\ g1 \in Nat /\ h1 \in Nat /\ o1 \in Nat /\ n1 \in Nat
            /\ p1 \in Nat /\ t1 \in Nat /\ l1 \in Nat /\ a1 \in Nat
            /\ b1 + p1 + l1 = g1 + o1 + a1 /\ w1 + g1 = b1 + h1 /\ n1 + p1 = o1 + t1
        BY <4>1, <4>3, <4>4, <4>5
      <4>7. w1 + t1 + l1 = h1 + n1 + a1
        <5> HIDE DEF w1, b1, g1, h1, o1, n1, p1, t1, l1, a1
        <5> QED BY <4>6
      <4> QED BY <4>7
    <3>5. w.used + request'[k].committed + seen[q].committed = budget'.used + new.committed + After(q).committed
      <4>1. b.used + request[k].committed + seen[q].committed = budget.used + old.committed + After(q).committed
        BY <3>1 DEF Balanced
      <4>2. /\ (w.used = b.used /\ budget'.used = budget.used) \/ (w.used = budget'.used /\ b.used = budget.used)
            /\ (new.committed = old.committed /\ request'[k].committed = request[k].committed) \/ (new.committed = request'[k].committed /\ old.committed = request[k].committed)
        BY <2>2, <2>3
      <4>3. /\ w.used \in Nat /\ b.used \in Nat /\ budget.used \in Nat /\ budget'.used \in Nat
            /\ old.committed \in Nat /\ new.committed \in Nat /\ request[k].committed \in Nat /\ request'[k].committed \in Nat
            /\ seen[q].committed \in Nat /\ After(q).committed \in Nat
        BY <3>n, <3>m
      <4>4. w.used + budget.used = b.used + budget'.used
        BY <4>2, <4>3
      <4>5. new.committed + request[k].committed = old.committed + request'[k].committed
        BY <4>2, <4>3
      <4> DEFINE w1 == w.used
                 b1 == b.used
                 g1 == budget.used
                 h1 == budget'.used
                 o1 == old.committed
                 n1 == new.committed
                 p1 == request[k].committed
                 t1 == request'[k].committed
                 l1 == seen[q].committed
                 a1 == After(q).committed
      <4>6. /\ w1 \in Nat /\ b1 \in Nat /\ g1 \in Nat /\ h1 \in Nat /\ o1 \in Nat /\ n1 \in Nat
            /\ p1 \in Nat /\ t1 \in Nat /\ l1 \in Nat /\ a1 \in Nat
            /\ b1 + p1 + l1 = g1 + o1 + a1 /\ w1 + g1 = b1 + h1 /\ n1 + p1 = o1 + t1
        BY <4>1, <4>3, <4>4, <4>5
      <4>7. w1 + t1 + l1 = h1 + n1 + a1
        <5> HIDE DEF w1, b1, g1, h1, o1, n1, p1, t1, l1, a1
        <5> QED BY <4>6
      <4> QED BY <4>7
    <3>6. w.cost + request'[k].cost + seen[q].cost = budget'.cost + new.cost + After(q).cost
      <4>1. b.cost + request[k].cost + seen[q].cost = budget.cost + old.cost + After(q).cost
        BY <3>1 DEF Balanced
      <4>2. /\ (w.cost = b.cost /\ budget'.cost = budget.cost) \/ (w.cost = budget'.cost /\ b.cost = budget.cost)
            /\ (new.cost = old.cost /\ request'[k].cost = request[k].cost) \/ (new.cost = request'[k].cost /\ old.cost = request[k].cost)
        BY <2>2, <2>3
      <4>3. /\ w.cost \in Nat /\ b.cost \in Nat /\ budget.cost \in Nat /\ budget'.cost \in Nat
            /\ old.cost \in Nat /\ new.cost \in Nat /\ request[k].cost \in Nat /\ request'[k].cost \in Nat
            /\ seen[q].cost \in Nat /\ After(q).cost \in Nat
        BY <3>n, <3>m
      <4>4. w.cost + budget.cost = b.cost + budget'.cost
        BY <4>2, <4>3
      <4>5. new.cost + request[k].cost = old.cost + request'[k].cost
        BY <4>2, <4>3
      <4> DEFINE w1 == w.cost
                 b1 == b.cost
                 g1 == budget.cost
                 h1 == budget'.cost
                 o1 == old.cost
                 n1 == new.cost
                 p1 == request[k].cost
                 t1 == request'[k].cost
                 l1 == seen[q].cost
                 a1 == After(q).cost
      <4>6. /\ w1 \in Nat /\ b1 \in Nat /\ g1 \in Nat /\ h1 \in Nat /\ o1 \in Nat /\ n1 \in Nat
            /\ p1 \in Nat /\ t1 \in Nat /\ l1 \in Nat /\ a1 \in Nat
            /\ b1 + p1 + l1 = g1 + o1 + a1 /\ w1 + g1 = b1 + h1 /\ n1 + p1 = o1 + t1
        BY <4>1, <4>3, <4>4, <4>5
      <4>7. w1 + t1 + l1 = h1 + n1 + a1
        <5> HIDE DEF w1, b1, g1, h1, o1, n1, p1, t1, l1, a1
        <5> QED BY <4>6
      <4> QED BY <4>7
    <3> QED
      BY <3>4, <3>5, <3>6 DEF Balanced
  <2>8. Covered(q)'
    <3> SUFFICES ASSUME stage[q] \in Working, budgetLock = q
        PROVE  budgetNew.used + budgetNew.reserved + Overrun(request'[k]) + Overrun(seen[q])
                  <= TokenLimit + TotalOverrun + Overrun(new) + Overrun(After(q))
      <4>1. budgetLock = q => TotalOverrun' = TotalOverrun
        BY <1>r, CommitKeepsBooks
      <4> QED
        BY <1>2, <2>1, <2>5, <4>1 DEF Covered, Row
    <3>1. budgetNew.used + budgetNew.reserved + Overrun(request[k]) + Overrun(seen[q])
             <= TokenLimit + TotalOverrun + Overrun(old) + Overrun(After(q))
      BY <1>5, <2>p DEF Covered
    <3> HIDE DEF old, new, w, b
    <3>2. After(q) \in Rows
      BY AfterTyped
    <3>3. /\ Overrun(request[k]) \in Nat /\ Overrun(request'[k]) \in Nat /\ Overrun(seen[q]) \in Nat
          /\ Overrun(old) \in Nat /\ Overrun(After(q)) \in Nat
      BY <2>t, <3>2, OverrunTyped
    <3>4. budgetNew.used \in Nat /\ budgetNew.reserved \in Nat /\ TotalOverrun \in Nat /\ TokenLimit \in Nat
      BY <1>0, TotalTyped, AIRequestAssumption DEF TypeOK, BudgetRows
    <3>5. \/ Overrun(new) = Overrun(old) /\ Overrun(request'[k]) = Overrun(request[k])
          \/ Overrun(new) = Overrun(request'[k]) /\ Overrun(old) = Overrun(request[k])
      BY <2>2
    <3> QED
      BY <3>1, <3>3, <3>4, <3>5
  <2>9. AnswerInv(q)'
    <3> SUFFICES ASSUME NEW n \in 1 .. MaxAttempts, tries[q][n] = "COMPLETED"
        PROVE  /\ q \in Executors /\ step[q] = "settled" /\ n = number[q] /\ call[q].op = "commit"
               /\ requestLock[k] = q /\ request'[k].status \notin TerminalStates
               /\ stage[q] = "returned" => seen[q].status = "COMPLETED"
      <4> HIDE DEF old, new, w, b
      <4> QED BY <1>2, <1>4, <2>1 DEF AnswerInv
    <3>1. /\ q \in Executors /\ step[q] = "settled" /\ n = number[q] /\ call[q].op = "commit"
          /\ requestLock[k] = q /\ request[k].status \notin TerminalStates
          /\ stage[q] = "returned" => seen[q].status = "COMPLETED"
      BY <1>5, <2>p DEF AnswerInv
    <3>2. request'[k] = request[k]
      BY <1>1, <3>1
    <3> QED
      BY <3>1, <3>2
  <2>10. q \in Executors => ExecuteInv(q)'
    BY <1>2, <1>4, <1>5, <2>1, <2>p DEF ExecuteInv, Flying
  <2> QED
    BY <2>6, <2>7, <2>8, <2>9, <2>10
<1> QED
  BY <1>5, <1>6, <1>7

(* At most one element, counted or compared.                               *)
LEMMA AtMostOne ==
  ASSUME NEW A, IsFiniteSet(A)
  PROVE  Cardinality(A) <= 1 <=> \A m, n \in A : m = n
<1>0. Cardinality(A) \in Nat
  BY FS_CardinalityType
<1>1. ASSUME \A m, n \in A : m = n PROVE Cardinality(A) <= 1
  <2>1. CASE A = {}
    BY <2>1, FS_EmptySet
  <2>2. CASE A # {}
    <3>1. PICK m \in A : TRUE
      BY <2>2
    <3>2. A = {m}
      BY <1>1, <3>1
    <3>3. Cardinality({m}) = 1
      BY FS_Singleton
    <3> QED
      BY <3>2, <3>3
  <2> QED
    BY <2>1, <2>2
<1>2. ASSUME Cardinality(A) <= 1, NEW m \in A, NEW n \in A PROVE m = n
  <2>1. Cardinality(A \ {m}) = Cardinality(A) - 1 /\ IsFiniteSet(A \ {m})
    BY FS_RemoveElement
  <2>2. Cardinality(A \ {m}) \in Nat
    BY <2>1, FS_CardinalityType
  <2>3. Cardinality(A \ {m}) = 0
    BY <1>0, <1>2, <2>1, <2>2
  <2>4. A \ {m} = {}
    BY <2>1, <2>3, FS_EmptySet
  <2> QED
    BY <2>4
<1> QED
  BY <1>1, <1>2

(* The attempts that were answered.                                        *)
Answers(tried) == {n \in 1 .. MaxAttempts : tried[n] = "COMPLETED"}

(* There are finitely many,                                                *)
LEMMA AnswersFinite ==
  ASSUME NEW tried
  PROVE  IsFiniteSet(Answers(tried))
<1>1. IsFiniteSet(1 .. MaxAttempts)
  BY AIRequestAssumption, FS_Interval
<1> QED
  BY <1>1, FS_Subset DEF Answers

(* so AnswerIsCharged can be said without counting.                        *)
LEMMA AnswersCounted ==
  AnswerIsCharged <=> \A r \in Requests : /\ Answers(attempt[r]) # {} => request[r].status = "COMPLETED"
                                          /\ \A m, n \in Answers(attempt[r]) : m = n
<1>1. AnswerIsCharged <=> \A r \in Requests : /\ Answers(attempt[r]) # {} => request[r].status = "COMPLETED"
                                              /\ Cardinality(Answers(attempt[r])) <= 1
  BY DEF AnswerIsCharged, Answers
<1>2. \A r \in Requests : Cardinality(Answers(attempt[r])) <= 1 <=> \A m, n \in Answers(attempt[r]) : m = n
  BY AnswersFinite, AtMostOne
<1> QED
  BY <1>1, <1>2

(* A committed answer comes with its COMPLETED row, and no other session   *)
(* has one.                                                                *)
LEMMA CommitKeepsAnswers ==
  ASSUME IInv, NEW s \in Sessions, stage[s] = "returned", Commit(s)
  PROVE  AnswerIsCharged'
<1>0. TypeOK /\ CallInv(s) /\ AnswerInv(s) /\ AnswerIsCharged /\ s # NoOne
  BY Typed DEF IInv
<1>r. PICK r \in Requests : r = job[s]
  BY <1>0, Typed DEF CallInv
<1>1. /\ request'[r] = Row(s, r) /\ \A x \in Requests \ {r} : request'[x] = request[x]
      /\ \A n \in 1 .. MaxAttempts : attempt'[r][n] = IF tries[s][n] # "none" THEN tries[s][n] ELSE attempt[r][n]
      /\ \A x \in Requests \ {r} : attempt'[x] = attempt[x]
  BY <1>r, CommitWrites
<1>2. \A x \in Requests : /\ Answers(attempt[x]) # {} => request[x].status = "COMPLETED"
                          /\ \A m, n \in Answers(attempt[x]) : m = n
  BY <1>0, AnswersCounted
<1>3. ASSUME NEW x \in Requests
      PROVE  /\ Answers(attempt'[x]) # {} => request'[x].status = "COMPLETED"
             /\ \A m, n \in Answers(attempt'[x]) : m = n
  <2>1. CASE x # r
    BY <1>1, <1>2, <2>1
  <2>2. CASE x = r /\ \E n \in 1 .. MaxAttempts : tries[s][n] = "COMPLETED"
    <3>1. PICK n \in 1 .. MaxAttempts : tries[s][n] = "COMPLETED"
      BY <2>2
    <3>2. /\ requestLock[r] = s /\ request[r].status \notin TerminalStates /\ seen[s].status = "COMPLETED"
          /\ \A m \in 1 .. MaxAttempts : tries[s][m] = "COMPLETED" => m = number[s]
      BY <1>0, <1>r, <3>1 DEF AnswerInv
    <3>3. request'[r].status = "COMPLETED"
      <4>1. seen[s] = requestNew[r]
        BY <1>0, <3>2 DEF IInv, RowInv
      <4> QED
        BY <1>1, <3>2, <4>1 DEF Row
    <3>4. Answers(attempt[r]) = {}
      BY <1>2, <3>2 DEF TerminalStates
    <3>5. \A m \in Answers(attempt'[r]) : m = number[s]
      BY <1>1, <3>2, <3>4 DEF Answers
    <3> QED
      BY <2>2, <3>3, <3>5
  <2>3. CASE x = r /\ \A n \in 1 .. MaxAttempts : tries[s][n] # "COMPLETED"
    <3>1. Answers(attempt'[r]) \subseteq Answers(attempt[r])
      BY <1>1, <2>3 DEF Answers
    <3>2. request[r].status = "COMPLETED" => request'[r].status = "COMPLETED"
      BY <1>1, OwnRowMovedOn DEF Since, TerminalStates
    <3> QED
      BY <1>2, <2>3, <3>1, <3>2
  <2> QED
    BY <2>1, <2>2, <2>3
<1>4. AnswerIsCharged' <=> \A x \in Requests : /\ Answers(attempt'[x]) # {} => request'[x].status = "COMPLETED"
                                               /\ Cardinality(Answers(attempt'[x])) <= 1
  BY DEF AnswerIsCharged, Answers
<1>5. \A x \in Requests : Cardinality(Answers(attempt'[x])) <= 1 <=> \A m, n \in Answers(attempt'[x]) : m = n
  BY AnswersFinite, AtMostOne
<1> QED
  BY <1>3, <1>4, <1>5

(* A commit keeps the invariant.                                           *)
LEMMA CommitKeeps ==
  ASSUME IInv, NEW s \in Sessions, stage[s] = "returned", Commit(s), Ended(s)
  PROVE  IInv'
<1>0. TypeOK /\ CallInv(s) /\ s # NoOne
  BY Typed DEF IInv
<1>r. PICK r \in Requests : r = job[s]
  BY <1>0, Typed DEF CallInv
<1>1. /\ EndSession(s) /\ budget' = Budget(s) /\ request' \in [Requests -> Rows]
      /\ request'[r] = Row(s, r) /\ \A x \in Requests \ {r} : request'[x] = request[x]
      /\ \A x \in Requests : requestLock[x] # s => request'[x] = request[x]
      /\ attempt' \in [Requests -> [1 .. MaxAttempts -> AttemptStates]]
  BY <1>r, CommitWrites
<1>2. TypeOK'
  <2>1. budget' \in BudgetRows
    BY <1>0, <1>1, Typed
  <2> QED
    BY <1>1, <2>1, SessionEnds DEF TypeOK, Ended
<1>3. \A x \in Requests : RowInv(x)'
  <2> SUFFICES ASSUME NEW x \in Requests PROVE RowInv(x)'
    OBVIOUS
  <2>1. Sane(request'[x])
    <3>1. CASE x = r
      BY <1>1, <3>1, OwnRowMovedOn
    <3>2. CASE x # r
      BY <1>1, <3>2, OwnRowMovedOn
    <3> QED BY <3>1, <3>2
  <2> QED
    BY <1>1, <2>1, RowsAfterEnd
<1>4. /\ CallInv(s)' /\ Booked(s)' /\ Covered(s)' /\ AnswerInv(s)'
      /\ s \in Executors => ExecuteInv(s)'
  <2>1. /\ job'[s] = NoOne /\ stage'[s] = "idle" /\ seen'[s] = AbsentRow /\ tries'[s] = NoTries
        /\ call'[s] = NoCall /\ budgetLock' # s
    BY <1>1, SessionEnds
  <2> QED
    BY <2>1, IdleInv DEF Ended
<1>5. \A q \in Sessions : CallInv(q)' /\ Booked(q)' /\ Covered(q)' /\ AnswerInv(q)'
  BY <1>4, OthersAfterCommit
<1>6. \A q \in Executors : ExecuteInv(q)'
  BY <1>4, OthersAfterCommit DEF Sessions
<1>7. BudgetIsLedger' /\ OverdraftIsOverrun' /\ AnswerIsCharged'
  BY <1>r, CommitKeepsBooks, CommitKeepsAnswers
<1> QED
  BY <1>2, <1>3, <1>5, <1>6, <1>7 DEF IInv

-----------------------------------------------------------------------------
(* The theorems.                                                           *)

LEMMA SumOfZeros ==
  ASSUME NEW D, IsFiniteSet(D), NEW f, f = [x \in D |-> 0]
  PROVE  SumFunction(f) = 0
<1>1. PICK F : Recursion(D, f, F) /\ SumFunction(f) = F[D]
  BY SumByRecursion
<1> DEFINE Bad == {s \in SUBSET D : F[s] # 0}
<1>2. Bad = {}
  <2>1. SUFFICES ASSUME Bad # {} PROVE FALSE
    OBVIOUS
  <2>2. PICK s \in Bad : \A z \in Bad : z \subseteq s => z = s
    <3>1. Bad \subseteq SUBSET D
      OBVIOUS
    <3> HIDE DEF Bad
    <3> QED BY <2>1, <3>1, LeastSubset
  <2>3. s # {}
    BY <1>1, <2>2 DEF Recursion
  <2>4. Named(s) \in s
    BY <2>3 DEF Named
  <2>5. F[s \ {Named(s)}] = 0
    BY <2>2, <2>4
  <2>6. F[s] = f[Named(s)] + F[s \ {Named(s)}] /\ f[Named(s)] = 0
    BY <1>1, <2>3, <2>4 DEF Recursion
  <2> QED
    BY <2>5, <2>6
<1> QED
  BY <1>1, <1>2

(* The invariant holds at the start.                                       *)
LEMMA InitInv ==
  ASSUME Init
  PROVE  IInv
<1>a. /\ budget = NewBudget /\ budgetNew = NewBudget /\ budgetLock = NoOne
      /\ request = [r \in Requests |-> AbsentRow] /\ requestNew = [r \in Requests |-> AbsentRow]
      /\ requestLock = [r \in Requests |-> NoOne] /\ attempt = [r \in Requests |-> NoTries]
      /\ tries = [s \in Sessions |-> NoTries] /\ job = [s \in Sessions |-> NoOne]
      /\ stage = [s \in Sessions |-> "idle"] /\ call = [s \in Sessions |-> NoCall]
      /\ seen = [s \in Sessions |-> AbsentRow]
      /\ step = [s \in Executors |-> "idle"] /\ number = [s \in Executors |-> 1] /\ again = [s \in Executors |-> FALSE]
  BY DEF Init, AIRequestInit
<1>b. /\ AbsentRow \in Rows /\ Sane(AbsentRow) /\ AbsentRow.status = "ABSENT" /\ NoCall \in Calls
      /\ NoCall.op = "none" /\ NewBudget \in BudgetRows /\ 1 \in 1 .. MaxAttempts
      /\ NoTries \in [1 .. MaxAttempts -> AttemptStates] /\ \A s \in Sessions : s # NoOne
  <2>1. 1 \in 1 .. MaxAttempts /\ \A s \in Sessions : s # NoOne
    BY AIRequestAssumption
  <2>2. NoTries \in [1 .. MaxAttempts -> AttemptStates]
    BY DEF NoTries, AttemptStates
  <2>3. AbsentRow \in Rows /\ Sane(AbsentRow) /\ AbsentRow.status = "ABSENT"
    BY AbsentFields
  <2>4. NoCall \in Calls /\ NoCall.op = "none" /\ NewBudget \in BudgetRows
    BY NoCallFields, NewBudgetTyped
  <2> QED
    BY <2>1, <2>2, <2>3, <2>4
<1>1. TypeOK
  BY <1>a, <1>b DEF TypeOK
<1>2. \A r \in Requests : RowInv(r)
  BY <1>a, <1>b DEF RowInv
<1>3. \A s \in Sessions : CallInv(s)
  BY <1>a, <1>b DEF CallInv
<1>4. \A s \in Sessions : Booked(s) /\ Covered(s)
  BY <1>a DEF Booked, Covered, Working
<1>5. \A s \in Sessions : AnswerInv(s)
  BY <1>a DEF AnswerInv, NoTries
<1>6. \A s \in Executors : ExecuteInv(s)
  <2>1. \A s \in Executors : s \in Sessions
    BY DEF Sessions
  <2> QED
    BY <1>a, <2>1 DEF ExecuteInv
<1>7. BudgetIsLedger /\ OverdraftIsOverrun
  <2>1. AbsentRow.reserved = 0 /\ AbsentRow.committed = 0 /\ AbsentRow.cost = 0 /\ Overrun(AbsentRow) = 0
    BY DEF AbsentRow, Overrun
  <2>2. SumFunction([r \in Requests |-> 0]) = 0
    BY SumOfZeros, AIRequestAssumption
  <2>3. /\ [r \in Requests |-> request[r].reserved] = [r \in Requests |-> 0]
        /\ [r \in Requests |-> request[r].committed] = [r \in Requests |-> 0]
        /\ [r \in Requests |-> request[r].cost] = [r \in Requests |-> 0]
        /\ [r \in Requests |-> Overrun(request[r])] = [r \in Requests |-> 0]
    BY <1>a, <2>1
  <2>4. budget.used = 0 /\ budget.reserved = 0 /\ budget.cost = 0
    BY <1>a DEF NewBudget
  <2>5. BudgetIsLedger
    BY <2>2, <2>3, <2>4 DEF BudgetIsLedger
  <2>6. OverdraftIsOverrun
    BY <2>2, <2>3, <2>4, AIRequestAssumption DEF OverdraftIsOverrun
  <2> QED
    BY <2>5, <2>6
<1>8. AnswerIsCharged
  <2>1. \A r \in Requests : Answers(attempt[r]) = {}
    BY <1>a DEF Answers, NoTries
  <2> QED
    BY <2>1, AnswersCounted
<1> QED
  BY <1>1, <1>2, <1>3, <1>4, <1>5, <1>6, <1>7, <1>8 DEF IInv

(* Every call a caller can begin,                                          *)
LEMMA CallerBeginsKeeps ==
  ASSUME IInv, NEW s \in Callers, CallerBegins(s), UNCHANGED executeVars
  PROVE  IInv'
<1>0. stage[s] = "idle" /\ s \in Sessions /\ s \notin Executors /\ TypeOK
  BY AIRequestAssumption DEF CallerBegins, Sessions, IInv
<1>1. PICK r \in Requests :
        \/ \E p \in Payloads : BeginCreate(s, r, p)
        \/ \E n \in Estimates : Begin(s, r, reserve_budget(n))
        \/ \E from \in AllStates :
           \E to \in AllowedTransitions[from] \cap {"ROUTED", "IN_FLIGHT", "PROVIDER_FAILED"} :
              Begin(s, r, transition_status(from, to))
        \/ \E c \in Charges : Begin(s, r, commit_execution(c))
        \/ \E to \in {"FAILED", "CANCELLED"} : Begin(s, r, release_reservation(to))
        \/ \E n \in Recorded : BeginAttempt(s, r, n)
        \/ r \in Hedged /\ BeginClaim(s, r)
  BY DEF CallerBegins
<1>u. step' = step /\ number' = number /\ again' = again
  BY DEF executeVars
<1>2. ASSUME NEW p \in Payloads, BeginCreate(s, r, p) PROVE IInv'
  BY <1>0, <1>2, <1>u, CreateKeeps DEF TypeOK
<1>3. ASSUME NEW n \in Estimates, Begin(s, r, reserve_budget(n)) PROVE IInv'
  <2>1. n \in Nat
    BY AIRequestAssumption
  <2> QED
    BY <1>0, <1>3, <2>1, SendableCalls, CallerBeginKeeps
<1>4. ASSUME NEW from \in AllStates, NEW to \in AllowedTransitions[from] \cap {"ROUTED", "IN_FLIGHT", "PROVIDER_FAILED"},
             Begin(s, r, transition_status(from, to))
      PROVE  IInv'
  <2>1. to \in WorkStates
    BY DEF WorkStates
  <2> QED
    BY <1>0, <1>4, <2>1, SendableCalls, CallerBeginKeeps
<1>5. ASSUME NEW c \in Charges, Begin(s, r, commit_execution(c)) PROVE IInv'
  <2>1. c \in Nat \X Nat
    BY AIRequestAssumption
  <2> QED
    BY <1>0, <1>5, <2>1, SendableCalls, CallerBeginKeeps
<1>6. ASSUME NEW to \in {"FAILED", "CANCELLED"}, Begin(s, r, release_reservation(to)) PROVE IInv'
  BY <1>0, <1>6, SendableCalls, CallerBeginKeeps
<1>7. ASSUME NEW n \in Recorded, BeginAttempt(s, r, n) PROVE IInv'
  <2>1. n \in 1 .. MaxAttempts /\ Ready(s, r)
    BY <1>0, AIRequestAssumption DEF Ready
  <2> QED
    BY <1>0, <1>7, <1>u, <2>1, AttemptKeeps DEF TypeOK
<1>8. ASSUME BeginClaim(s, r) PROVE IInv'
  BY <1>0, <1>8, ClaimKeeps
<1> QED
  BY <1>1, <1>2, <1>3, <1>4, <1>5, <1>6, <1>7, <1>8

(* the end of an execution                                                 *)
LEMMA EndExecuteEnds ==
  ASSUME IInv, NEW s \in Executors, EndExecute(s)
  PROVE  Ended(s)
<1>1. 1 \in 1 .. MaxAttempts
  BY AIRequestAssumption
<1> QED
  BY <1>1 DEF IInv, TypeOK, EndExecute, Ended

(* and of a caller's transaction,                                          *)
LEMMA CallerEnds ==
  ASSUME IInv, NEW s, s \notin Executors, UNCHANGED executeVars
  PROVE  Ended(s)
BY DEF IInv, TypeOK, Ended, executeVars

(* every step of execute                                                   *)
LEMMA ExecuteKeeps ==
  ASSUME IInv, NEW s \in Executors, ExecuteNext(s)
  PROVE  IInv'
<1>0. s \in Sessions /\ TypeOK
  BY DEF Sessions, IInv
<1>s. /\ Estimate \in Nat /\ {"RESERVED", "PROVIDER_FAILED", "ROUTED"} \subseteq AllStates
      /\ {"ROUTED", "IN_FLIGHT"} \subseteq WorkStates
  BY AIExecutionAssumption, StateFacts DEF WorkStates
<1>1. CASE ExecuteReserve(s)
  BY <1>1, <1>s, SendableCalls, ExecuteBeginKeeps DEF ExecuteReserve
<1>2. CASE ExecuteRoute(s)
  <2>1. Returned(s, "select") /\ Goto(s, "route")
    BY <1>2 DEF ExecuteRoute
  <2>2. PICK c : Sendable(c) /\ Begin(s, job[s], c)
    <3>1. BeforeRouting(s) \in AllStates
      BY <1>s DEF BeforeRouting
    <3>2. Begin(s, job[s], transition_status(BeforeRouting(s), "ROUTED"))
      BY <1>2 DEF ExecuteRoute
    <3>3. Sendable(transition_status(BeforeRouting(s), "ROUTED"))
      BY <1>s, <3>1, SendableCalls
    <3> QED
      BY <3>2, <3>3
  <2> QED
    BY <2>1, <2>2, ExecuteBeginKeeps
<1>3. CASE ExecuteNoProvider(s)
  BY <1>3, SendableCalls, ExecuteBeginKeeps DEF ExecuteNoProvider
<1>4. CASE ExecuteFly(s)
  BY <1>4, <1>s, SendableCalls, ExecuteBeginKeeps DEF ExecuteFly
<1>5. CASE ExecuteAttempt(s)
  <2>1. stage[s] = "returned" /\ step[s] = "fly" /\ BeginAttempt(s, job[s], number[s])
    BY <1>5 DEF ExecuteAttempt, Returned
  <2>2. number[s] \in 1 .. MaxAttempts
    BY <1>0 DEF TypeOK
  <2>3. PICK r \in Requests : r = job[s]
    <3>1. CallInv(s)
      BY <1>0 DEF IInv
    <3> QED
      BY <1>0, <2>1, <3>1, Typed DEF CallInv
  <2>4. PICK n \in 1 .. MaxAttempts : n = number[s]
    BY <2>2
  <2>5. BeginAttempt(s, r, n) /\ Ready(s, r)
    BY <2>1, <2>3, <2>4 DEF Ready
  <2>6. /\ step' \in [Executors -> {"idle", "create", "select", "route", "fly", "attempt", "failed", "giveup", "settled"}]
        /\ step'[s] = "attempt" /\ number' = number /\ again' = again
        /\ \A q \in Executors \ {s} : step'[q] = step[q]
    BY <1>0, <1>5 DEF ExecuteAttempt, Goto, TypeOK
  <2> QED
    BY <1>0, <2>1, <2>3, <2>5, <2>6, AttemptKeeps
<1>6. CASE ExecuteSucceeds(s)
  BY <1>6, SucceedsKeeps
<1>7. CASE ExecuteFails(s)
  BY <1>7, FailsKeeps
<1>8. CASE ExecuteBlowsUp(s)
  BY <1>8, BlowsUpKeeps
<1>9. CASE ExecuteRetries(s)
  BY <1>9, RetriesKeeps
<1>10. CASE ExecuteExhausted(s)
  BY <1>10, SendableCalls, ExecuteBeginKeeps DEF ExecuteExhausted
<1>11. CASE ExecuteReturns(s)
  <2>1. stage[s] = "returned" /\ Commit(s) /\ EndExecute(s)
    BY <1>11 DEF ExecuteReturns, Returned
  <2> QED
    BY <1>0, <2>1, EndExecuteEnds, CommitKeeps
<1>12. CASE ExecuteReraises(s)
  BY <1>0, <1>12, EndExecuteEnds, RollbackKeeps DEF ExecuteReraises
<1> QED
  BY <1>1, <1>2, <1>3, <1>4, <1>5, <1>6, <1>7, <1>8, <1>9, <1>10, <1>11, <1>12 DEF ExecuteNext

(* and every step keep the invariant.                                      *)
LEMMA StepKeeps ==
  ASSUME IInv, Next
  PROVE  IInv'
<1>1. ASSUME NEW s \in Callers, CallerBegins(s) /\ UNCHANGED executeVars PROVE IInv'
  BY <1>1, CallerBeginsKeeps
<1>2. ASSUME NEW s \in Executors, ExecuteCreate(s) PROVE IInv'
  <2>0. s \in Sessions /\ TypeOK /\ stage[s] = "idle" /\ 1 \in 1 .. MaxAttempts
    BY <1>2, AIRequestAssumption DEF Sessions, IInv, ExecuteCreate
  <2>1. PICK r \in Asked[s] : BeginCreate(s, r, Payload[s])
    BY <1>2 DEF ExecuteCreate
  <2>2. r \in Requests /\ Payload[s] \in Payloads
    BY AIExecutionAssumption
  <2>3. /\ step' \in [Executors -> {"idle", "create", "select", "route", "fly", "attempt", "failed", "giveup", "settled"}]
        /\ step'[s] = "create" /\ again' = again
        /\ \A q \in Executors \ {s} : step'[q] = step[q]
    BY <1>2, <2>0 DEF ExecuteCreate, TypeOK
  <2>4. number' \in [Executors -> 1 .. MaxAttempts] /\ \A q \in Executors \ {s} : number'[q] = number[q]
    BY <1>2, <2>0 DEF ExecuteCreate, TypeOK
  <2> QED
    BY <2>0, <2>1, <2>2, <2>3, <2>4, CreateKeeps
<1>3. ASSUME NEW s \in Sessions, Rollback(s), IF s \in Executors THEN EndExecute(s) ELSE UNCHANGED executeVars PROVE IInv'
  <2>1. Ended(s)
    BY <1>3, EndExecuteEnds, CallerEnds
  <2> QED
    BY <1>3, <2>1, RollbackKeeps
<1>4. ASSUME NEW s \in Sessions, Proceed(s) PROVE IInv'
  <2>1. CASE BudgetStep(s) /\ UNCHANGED executeVars
    BY <2>1, BudgetStepKeeps
  <2>2. CASE RowStep(s) /\ UNCHANGED executeVars
    BY <2>2, RowStepKeeps
  <2>3. CASE Raised(s) /\ (IF s \in Executors THEN EndExecute(s) ELSE UNCHANGED executeVars)
    BY <1>3, <2>3 DEF Raised
  <2>4. CASE s \in Callers /\ CallerCommits(s) /\ UNCHANGED executeVars
    <3>1. s \notin Executors
      BY <2>4, AIRequestAssumption
    <3>2. Ended(s)
      BY <2>4, <3>1, CallerEnds
    <3> QED
      BY <2>4, <3>2, CommitKeeps DEF CallerCommits
  <2>5. CASE s \in Executors /\ ExecuteNext(s)
    BY <2>5, ExecuteKeeps
  <2> QED
    BY <1>4, <2>1, <2>2, <2>3, <2>4, <2>5 DEF Proceed
<1>5. ASSUME NEW s \in Sessions, Interrupted(s) PROVE IInv'
  BY <1>3, <1>5 DEF Interrupted, Crash
<1>6. ASSUME NEW s \in Sessions, Aborted(s) PROVE IInv'
  BY <1>3, <1>6 DEF Aborted, DeadlockAbort
<1> QED
  BY <1>1, <1>2, <1>4, <1>5, <1>6 DEF Next

(* So does a step that changes nothing.                                    *)
LEMMA StutterKeeps ==
  ASSUME IInv, UNCHANGED vars
  PROVE  IInv'
<1>1. /\ UNCHANGED <<budget, request, attempt, budgetLock, budgetNew, requestLock, requestNew, tries>>
      /\ UNCHANGED <<job, stage, call, seen, step, number, again>>
  BY DEF vars, aiVars, ledger, locks, sessions, executeVars
<1>2. TypeOK' /\ BudgetIsLedger' /\ OverdraftIsOverrun' /\ AnswerIsCharged'
  BY <1>1 DEF IInv, TypeOK, BudgetIsLedger, OverdraftIsOverrun, AnswerIsCharged
<1>3. \A r \in Requests : RowInv(r)'
  BY <1>1 DEF IInv, RowInv
<1>4. ASSUME NEW s \in Sessions PROVE CallInv(s)' /\ Booked(s)' /\ Covered(s)' /\ AnswerInv(s)'
  <2>1. CallInv(s) /\ Booked(s) /\ Covered(s) /\ AnswerInv(s)
    BY DEF IInv
  <2>2. CallInv(s)'
    BY <1>1, <2>1 DEF CallInv, Row
  <2>3. After(s)' = After(s) /\ TotalOverrun' = TotalOverrun
    BY <1>1 DEF After, TotalOverrun
  <2>4. Booked(s)' /\ Covered(s)'
    BY <1>1, <2>1, <2>3 DEF Booked, Covered, Row, Budget
  <2>5. AnswerInv(s)'
    BY <1>1, <2>1 DEF AnswerInv
  <2> QED
    BY <2>2, <2>4, <2>5
<1>5. \A s \in Executors : ExecuteInv(s)'
  BY <1>1 DEF IInv, ExecuteInv, Flying
<1> QED
  BY <1>2, <1>3, <1>4, <1>5 DEF IInv

(* The inductive invariant holds in every reachable state.                 *)
THEOREM InvariantHolds == Spec => []IInv
<1>1. Init => IInv
  BY InitInv
<1>2. IInv /\ [Next]_vars => IInv'
  BY StepKeeps, StutterKeeps
<1> QED
  BY <1>1, <1>2, PTL DEF Spec

(* The ledger and the sessions have the types the code gives them; no      *)
(* budget counter ever goes below zero and no execution numbers an attempt *)
(* beyond max_attempts.                                                    *)
THEOREM TypeCorrect == Spec => []TypeOK
<1>1. IInv => TypeOK
  BY DEF IInv
<1> QED
  BY <1>1, InvariantHolds, PTL

(* The budget counters are the sums of what the requests hold and were     *)
(* charged, however many sessions reserve, commit and release at once and  *)
(* whichever of them crash, lose a compare-and-set or a deadlock.          *)
THEOREM BooksAgree == Spec => []BudgetIsLedger
<1>1. IInv => BudgetIsLedger
  BY DEF IInv
<1> QED
  BY <1>1, InvariantHolds, PTL

(* token_limit is exceeded by no more than the answers that cost more than *)
(* their requests had reserved.                                            *)
THEOREM OverdraftBounded == Spec => []OverdraftIsOverrun
<1>1. IInv => OverdraftIsOverrun
  BY DEF IInv
<1> QED
  BY <1>1, InvariantHolds, PTL

(* A finished request holds no tokens, an unfinished one what it was       *)
(* granted.                                                                *)
THEOREM ReservationsFollow == Spec => []ReservationFollowsStatus
<1>1. IInv => ReservationFollowsStatus
  BY DEF IInv, RowInv, Sane, ReservationFollowsStatus
<1> QED
  BY <1>1, InvariantHolds, PTL

(* An attempt marked COMPLETED belongs to a COMPLETED request and is its   *)
(* only one.                                                               *)
THEOREM AnswersCharged == Spec => []AnswerIsCharged
<1>1. IInv => AnswerIsCharged
  BY DEF IInv
<1> QED
  BY <1>1, InvariantHolds, PTL

(* A committed row only ever moves on: every step that changes it is the   *)
(* commit of a session whose private row came after it.                    *)
LEMMA RowsMoveOn ==
  ASSUME IInv, [Next]_vars, NEW r \in Requests
  PROVE  Since(request[r], request'[r])
<1>1. CASE request' = request
  BY <1>1, SinceItself
<1>2. ASSUME NEW s \in Sessions, Commit(s) PROVE Since(request[r], request'[r])
  <2>1. request'[r] = Row(s, r)
    BY <1>2 DEF Commit
  <2> QED
    BY <2>1, OwnRowMovedOn
<1>3. \/ request' = request
      \/ \E s \in Sessions : Commit(s)
  <2>1. CASE UNCHANGED vars
    BY <2>1 DEF vars, aiVars, ledger
  <2>2. ASSUME NEW s \in Callers, CallerBegins(s) PROVE request' = request
    BY <2>2 DEF CallerBegins, BeginCreate, Begin, BeginAttempt, BeginClaim, ledger
  <2>3. ASSUME NEW s \in Executors, ExecuteCreate(s) PROVE request' = request
    BY <2>3 DEF ExecuteCreate, BeginCreate, ledger
  <2>4. ASSUME NEW s \in Sessions, Proceed(s) PROVE request' = request \/ Commit(s)
    <3>1. ASSUME ExecuteNext(s) PROVE request' = request \/ Commit(s)
      <4>1. CASE ExecuteReserve(s) \/ ExecuteRoute(s) \/ ExecuteNoProvider(s) \/ ExecuteFly(s) \/ ExecuteExhausted(s)
        BY <4>1 DEF ExecuteReserve, ExecuteRoute, ExecuteNoProvider, ExecuteFly, ExecuteExhausted, Begin, ledger
      <4>2. CASE ExecuteAttempt(s)
        BY <4>2 DEF ExecuteAttempt, BeginAttempt, ledger
      <4>3. CASE ExecuteSucceeds(s) \/ ExecuteFails(s) \/ ExecuteBlowsUp(s)
        BY <4>3 DEF ExecuteSucceeds, ExecuteFails, ExecuteBlowsUp, ledger
      <4>4. CASE ExecuteRetries(s)
        BY <4>4 DEF ExecuteRetries, aiVars, ledger
      <4>5. CASE ExecuteReturns(s)
        BY <4>5 DEF ExecuteReturns
      <4>6. CASE ExecuteReraises(s)
        BY <4>6 DEF ExecuteReraises, Rollback, ledger
      <4> QED
        BY <3>1, <4>1, <4>2, <4>3, <4>4, <4>5, <4>6 DEF ExecuteNext
    <3>2. CASE BudgetStep(s) \/ RowStep(s) \/ Raised(s)
      BY <3>2 DEF BudgetStep, RowStep, Raised, Rollback, ledger
    <3>3. CASE CallerCommits(s)
      BY <3>3 DEF CallerCommits
    <3> QED
      BY <2>4, <3>1, <3>2, <3>3 DEF Proceed
  <2>5. ASSUME NEW s \in Sessions, Interrupted(s) \/ Aborted(s) PROVE request' = request
    BY <2>5 DEF Interrupted, Aborted, Crash, DeadlockAbort, Rollback, ledger
  <2> QED
    BY <2>1, <2>2, <2>3, <2>4, <2>5 DEF Next
<1> QED
  BY <1>1, <1>2, <1>3

(* A terminal request keeps its status and its charge, a hedged one its    *)
(* winner.                                                                 *)
THEOREM SettledStays == Spec => SettledIsFinal
<1> DEFINE Final == \A r \in Requests :
              /\ request[r].status \in TerminalStates =>
                    /\ request'[r].status = request[r].status
                    /\ request'[r].committed = request[r].committed
              /\ request[r].winner # NoOne => request'[r].winner = request[r].winner
<1>1. IInv /\ [Next]_vars => [Final]_vars
  <2> SUFFICES ASSUME IInv, [Next]_vars PROVE Final
    OBVIOUS
  <2>1. \A r \in Requests : Since(request[r], request'[r])
    BY RowsMoveOn
  <2> QED
    BY <2>1 DEF Since
<1> HIDE DEF Final
<1>2. Spec => [][Final]_vars
  BY <1>1, InvariantHolds, PTL DEF Spec
<1> QED
  BY <1>2 DEF SettledIsFinal, Final

=============================================================================
