---------------------------- MODULE PathAnalysis ----------------------------
(***************************************************************************)
(* One execution of a function beside what the analysis passes on along    *)
(* its path.  known is the environment on the way from block to block:     *)
(* _transfer_block takes it over an assignment, _refine_edge over a branch *)
(* and join into a merge, where the other paths bring whatever environment *)
(* they may; actual is the state of the program.  Nothing is said of the   *)
(* order in which the worklist gets there.                                 *)
(*                                                                         *)
(* Every statement and condition of the language may be on the path, those *)
(* the analysis misreads too: intval($z) . $x, $x .= $y, $x == 5.  What it *)
(* says of a variable is right as long as it is followed: it was last      *)
(* assigned an Exact right-hand side of followed variables, and no         *)
(* condition was misread for it since.  followed is no part of the code.   *)
(***************************************************************************)
EXTENDS ValueSemantics, SinkCompatibility

State == [Vars -> ConcreteValue]

(* What every environment the analysis builds satisfies: a variable never  *)
(* assigned has no taint of its own, only what a guard found out.          *)
WellFormed(env) ==
    /\ env.count \in [Vars -> Nat]
    /\ \A k \in DOMAIN env.values : env.values[k] \in AbstractValue
    /\ \A v \in Vars : env.count[v] = 0 => get_value(env, v).taint \notin Suspect

VARIABLES known, actual, followed

pathVars == <<known, actual, followed>>

PathInit ==
    /\ known = EmptyEnvironment
    /\ actual = [v \in Vars |-> Literal]
    /\ followed = Vars

AssignStep(v, rhs) ==
    /\ known' = Assign(known, v, rhs)
    /\ \E x \in Results(actual, rhs) : actual' = [actual EXCEPT ![v] = x]
    /\ followed' = IF Exact(rhs) /\ Operands(rhs) \subseteq followed THEN followed \cup {v} ELSE followed \ {v}

(* .=, += and element assignments: the analysis does not see them.         *)
UpdateStep(v, rhs) ==
    /\ \E x \in Updated(actual, v, rhs) : actual' = [actual EXCEPT ![v] = x]
    /\ followed' = followed \ {v}
    /\ UNCHANGED known

(* A comparison is misread as an assignment, and the first known test of a *)
(* condition is believed even where it does not decide the branch.         *)
Misread(cond) == cond.pred = "equals" \/ (cond.pred \in DOMAIN Predicates /\ ~Decides(cond))

BranchStep(cond, taken) ==
    /\ taken \in Truth(actual, cond)
    /\ known' = RefineEdge(ReadCondition(known, cond), IF taken THEN "TRUE_BRANCH" ELSE "FALSE_BRANCH", cond)
    /\ followed' = IF Misread(cond) THEN followed \ {cond.var} ELSE followed
    /\ UNCHANGED actual

MergeStep(other) ==
    /\ WellFormed(other)
    /\ known' \in {join(known, other), join(other, known)}
    /\ UNCHANGED <<actual, followed>>

PathNext ==
    \/ \E v \in Vars, rhs \in Rhs : AssignStep(v, rhs) \/ UpdateStep(v, rhs)
    \/ \E cond \in Cond, taken \in BOOLEAN : BranchStep(cond, taken)
    \/ \E other : MergeStep(other)

PathSpec == PathInit /\ [][PathNext]_pathVars

-----------------------------------------------------------------------------
(* At every point of every path the environment is right about each        *)
(* followed variable: its facts hold, and it is suspect if untrusted input *)
(* went into it.                                                           *)
SoundAlongPath == WellFormed(known) /\ \A v \in followed : Describes(known, actual, v)

(* A sink of one followed variable that would be called SAFE there is so   *)
(* for a constraint the value really has.                                  *)
SafeIsProven ==
    \A sink \in Sinks : \A v \in followed :
        sink.vars = {v} /\ Correlated(known, sink) # "NONE" => Correlated(known, sink) \in actual[v].has
=============================================================================
