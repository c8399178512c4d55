--------------------------- MODULE ValueSemantics ---------------------------
(***************************************************************************)
(* Values, expressions and conditions of the analysed programs as they     *)
(* really are.  Two things matter of a value: whether untrusted input went *)
(* into it, and which constraints hold of it.                              *)
(***************************************************************************)
EXTENDS AbstractState

(* An integer and a string of digits are numeric.                          *)
ConcreteValue ==
    {x \in [tainted : BOOLEAN, has : SUBSET SemanticConstraint] :
        "INTEGER" \in x.has \/ "DIGITS_ONLY" \in x.has => "NUMERIC" \in x.has}

(* Text that nothing converted may happen to be a number or digits.        *)
Texts(tainted) == {[tainted |-> tainted, has |-> h] : h \in {{}, {"NUMERIC"}, {"NUMERIC", "DIGITS_ONLY"}}}
Literal == [tainted |-> FALSE, has |-> {}]

(* PHP's conversions and escapes, and the constraint each test decides.    *)
Converted ==
    [intval |-> {"INTEGER", "NUMERIC"}, floatval |-> {"NUMERIC"}, escapeshellarg |-> {"SHELL_ESCAPED"},
     htmlspecialchars |-> {"HTML_ESCAPED"}, basename |-> {"PATH_NORMALIZED"}]
Tests == [is_numeric |-> "NUMERIC", ctype_digit |-> "DIGITS_ONLY", is_int |-> "INTEGER"]

(* Does untrusted input go into an expression?                             *)
Carries(st, rhs) ==
    LET from(a) == a = Untrusted \/ (a \in Vars /\ st[a].tainted)
    IN CASE rhs.form = "trans" -> \E a \in {rhs.arg} \cup rhs.rest : from(a)
         [] rhs.form = "copy" -> st[rhs.arg].tainted
         [] rhs.form = "expr" -> rhs.source \/ \E v \in rhs.vars : st[v].tainted

(* A conversion and nothing else.                                          *)
Alone(rhs) == rhs.form = "trans" => rhs.rest = {}

(* The values an expression may have in state st.  One that puts several   *)
(* values together keeps their taint and none of their constraints.        *)
Results(st, rhs) ==
    CASE rhs.form = "trans" /\ rhs.rest = {} -> {[tainted |-> Carries(st, rhs), has |-> Converted[rhs.fn]]}
      [] rhs.form = "copy" -> {st[rhs.arg]}
      [] OTHER -> Texts(Carries(st, rhs))

(* The values variable v may have after .=, += or an element assignment.   *)
Updated(st, v, rhs) == Texts(st[v].tainted \/ Carries(st, rhs))

(* The right-hand sides whose value the analysis reads for what it is: not *)
(* made of several variables, nor of a conversion and something else.      *)
Exact(rhs) == Alone(rhs) /\ (rhs.form = "expr" => rhs.vars = {})

Operands(rhs) == IF rhs.form = "expr" THEN rhs.vars ELSE {rhs.arg} \cap Vars

(* The truth values a condition may have: the unknown operand of && or ||  *)
(* may be anything.                                                        *)
Truth(st, cond) ==
    LET first == IF cond.pred \notin DOMAIN Tests THEN BOOLEAN
                 ELSE IF Tests[cond.pred] \in st[cond.var].has THEN {~cond.negated} ELSE {cond.negated}
    IN CASE cond.with = "none" -> first
         [] cond.with = "and" -> first \cup {FALSE}
         [] cond.with = "or" -> first \cup {TRUE}

(* Conditions whose first test decides the branch its fact is used for.    *)
Decides(cond) == cond.with = "none" \/ cond.with = (IF cond.negated THEN "or" ELSE "and")

(* env says nothing of variable v that is not so in st: the facts it has   *)
(* hold, and a variable that holds untrusted input is suspect.             *)
Describes(env, st, v) ==
    /\ get_value(env, v).facts \subseteq st[v].has
    /\ st[v].tainted => get_value(env, v).taint \in Suspect
==============================================================================
