---------------------------- MODULE AbstractState ----------------------------
(***************************************************************************)
(* What the path-sensitive analysis of a PHP function knows of a variable  *)
(* (AbstractValue), of all of them at one program point                    *)
(* (AbstractEnvironment), and how a statement, a branch and a merge change *)
(* it (the transfer functions of WorklistFixpointAnalyzer).                *)
(*                                                                         *)
(* An environment keeps the version counters (0: no counter) and a value   *)
(* for some of the versions.  type_facts and sanitization_facts are one    *)
(* set: the category of a constraint says which of the two it is in.       *)
(* Provenance texts are left out.  A statement is the record the regular   *)
(* expressions of _transfer_block make of its text.                        *)
(***************************************************************************)
EXTENDS Naturals

CONSTANT Vars   \* the variables of the analysed function

TypeConstraints == {"NUMERIC", "INTEGER", "DIGITS_ONLY"}
SemanticConstraint == TypeConstraints \cup {"SHELL_ESCAPED", "HTML_ESCAPED", "SQL_ESCAPED", "PATH_NORMALIZED"}
TaintState == {"UNTAINTED", "TAINTED", "SANITIZED", "CONSTRAINED", "UNKNOWN"}
AbstractValue == [taint : TaintState, facts : SUBSET SemanticConstraint]

(* The two states that say: untrusted input may be in here.                *)
Suspect == {"TAINTED", "CONSTRAINED"}

(* Mutant: an unknown side hides the suspect one.                          *)
join_taint_state_both(a, b) ==
    IF a = b THEN a ELSE IF a \in Suspect /\ b \in Suspect THEN "TAINTED" ELSE "UNKNOWN"

join_taint_state(a, b) ==
    IF a = b THEN a ELSE IF a \in Suspect \/ b \in Suspect THEN "TAINTED" ELSE "UNKNOWN"

(* Mutant: a constraint of one path survives the merge.                    *)
join_constraints_union(a, b) == a \cup b

join_constraints(a, b) == a \cap b

with_constraints(val, new) ==
    [taint |-> IF val.taint = "TAINTED" /\ new # {} THEN "CONSTRAINED" ELSE val.taint,
     facts |-> val.facts \cup new]

-----------------------------------------------------------------------------
(* AbstractEnvironment.                                                    *)

EmptyEnvironment == [count |-> [v \in Vars |-> 0], values |-> [k \in {} |-> 0]]

Unassigned == [taint |-> "UNKNOWN", facts |-> {}]

Counter(env, v) == IF env.count[v] = 0 THEN 1 ELSE env.count[v]

get_version(env, v) == <<v, Counter(env, v)>>

get_value(env, v) ==
    IF get_version(env, v) \in DOMAIN env.values THEN env.values[get_version(env, v)] ELSE Unassigned

Stored(values, key, val) == [k \in DOMAIN values \cup {key} |-> IF k = key THEN val ELSE values[k]]

set_value(env, v, val) == [count |-> env.count, values |-> Stored(env.values, get_version(env, v), val)]

(* A new version of v: whatever was known of the old one is not known of it. *)
assignment_kill(env, v, val) ==
    [count |-> [env.count EXCEPT ![v] = @ + 1],
     values |-> Stored(env.values, <<v, env.count[v] + 1>>, val)]

JoinedValue(e, f, v) ==
    [taint |-> join_taint_state(get_value(e, v).taint, get_value(f, v).taint),
     facts |-> join_constraints(get_value(e, v).facts, get_value(f, v).facts)]

JoinedCounter(e, f, v) == IF Counter(e, v) > Counter(f, v) THEN Counter(e, v) ELSE Counter(f, v)

(* Only variables with a counter on a side survive a join, in one version. *)
join(e, f) ==
    LET all_vars == {v \in Vars : e.count[v] # 0 \/ f.count[v] # 0}
    IN [count |-> [v \in Vars |-> IF v \in all_vars THEN JoinedCounter(e, f, v) ELSE 0],
        values |-> [k \in {<<v, JoinedCounter(e, f, v)>> : v \in all_vars} |-> JoinedValue(e, f, k[1])]]

-----------------------------------------------------------------------------
(* The tables of GuardCapabilityRegistry: what a predicate establishes in  *)
(* the branch where it is true (nothing where it is false), and what a     *)
(* transformation establishes of its result.  Names with the entry of      *)
(* another (is_integer, (int), htmlentities, realpath...) are not repeated. *)

Predicates ==
    [is_numeric |-> {"NUMERIC"}, ctype_digit |-> {"DIGITS_ONLY", "NUMERIC"}, is_int |-> {"INTEGER", "NUMERIC"}]

Transformations ==
    [intval |-> {"INTEGER", "NUMERIC"}, floatval |-> {"NUMERIC"}, escapeshellarg |-> {"SHELL_ESCAPED"},
     htmlspecialchars |-> {"HTML_ESCAPED"}, basename |-> {"PATH_NORMALIZED"}]

(* The right-hand sides the analysis tells apart: text with the name of a  *)
(* transformation somewhere in it, a copy, any other expression with its   *)
(* variables.  Of the first, arg is the first variable alone in            *)
(* parentheses (Untrusted: there is none), and rest what else the text is  *)
(* put together of.  intval($z) is [arg z, rest {}], intval($z) . $x is    *)
(* [arg z, rest {x}], $_GET['basename'] is [arg Untrusted, rest {Untrusted}]. *)
(* cond.with is how a second, unknown operand is attached.                 *)
Untrusted == "$_GET"
OtherText == "text"
Rhs == [form : {"trans"}, fn : DOMAIN Transformations, arg : Vars \cup {Untrusted},
        rest : SUBSET (Vars \cup {Untrusted, OtherText})]
    \cup [form : {"copy"}, arg : Vars]
    \cup [form : {"expr"}, vars : SUBSET Vars, source : BOOLEAN]
Cond == [pred : DOMAIN Predicates \cup {"unknown", "equals"}, var : Vars, negated : BOOLEAN, with : {"none", "and", "or"}]

(* _transfer_block's value of a right-hand side: the name of a             *)
(* transformation is looked for anywhere in the text and decides it all,   *)
(* so what else the text has (rhs.rest) counts for nothing.                *)
RhsValue(env, rhs) ==
    CASE rhs.form = "trans" ->
            with_constraints([taint |-> IF rhs.arg = Untrusted THEN "TAINTED" ELSE get_value(env, rhs.arg).taint,
                              facts |-> {}], Transformations[rhs.fn])
      [] rhs.form = "copy" ->
            with_constraints([taint |-> get_value(env, rhs.arg).taint, facts |-> {}], get_value(env, rhs.arg).facts)
      [] rhs.form = "expr" ->
            with_constraints(
                [taint |-> IF rhs.source \/ \E v \in rhs.vars : get_value(env, v).taint \in Suspect
                           THEN "TAINTED" ELSE "UNKNOWN",
                 facts |-> {}], UNION {get_value(env, v).facts : v \in rhs.vars})

Assign(env, v, rhs) == assignment_kill(env, v, RhsValue(env, rhs))

(* The text of a condition is searched for an assignment too, and          *)
(* "$x == 5" is one to the regular expression.                             *)
ReadCondition(env, cond) ==
    IF cond.pred = "equals" THEN Assign(env, cond.var, [form |-> "expr", vars |-> {}, source |-> FALSE]) ELSE env

(* _refine_edge takes the first known predicate of the condition and a     *)
(* leading "!"; how further operands are attached is not looked at.        *)
Established(kind, cond) ==
    IF /\ kind \in {"TRUE_BRANCH", "FALSE_BRANCH"}
       /\ cond.pred \in DOMAIN Predicates
       /\ (kind = "TRUE_BRANCH") # cond.negated
    THEN Predicates[cond.pred]
    ELSE {}

RefineEdge(env, kind, cond) ==
    IF Established(kind, cond) = {} THEN env
    ELSE set_value(env, cond.var, with_constraints(get_value(env, cond.var), Established(kind, cond)))
==============================================================================
