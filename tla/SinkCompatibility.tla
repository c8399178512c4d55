-------------------------- MODULE SinkCompatibility --------------------------
(***************************************************************************)
(* SinkCompatibilityMatrix and the way SemanticSinkCorrelator asks it: is  *)
(* what is known of the variables of a sink enough for that kind of sink?  *)
(***************************************************************************)
EXTENDS AbstractState

Sinks == [vars : SUBSET Vars, category : {"SQL", "COMMAND", "XSS", "FILE"}, ident : BOOLEAN]

(* The context of a sink: sql is the only category with two of them.       *)
sink_context(sink) ==
    CASE sink.category = "SQL" -> IF sink.ident THEN "SQL_IDENTIFIER" ELSE "SQL_VALUE"
      [] sink.category = "COMMAND" -> "SHELL_ARGUMENT"
      [] sink.category = "XSS" -> "HTML_TEXT"
      [] sink.category = "FILE" -> "FILE_PATH"

MatchedType(constraints) ==
    IF "INTEGER" \in constraints THEN "INTEGER"
    ELSE IF "DIGITS_ONLY" \in constraints THEN "DIGITS_ONLY" ELSE "NUMERIC"

(* SinkCompatibilityMatrix.evaluate: the constraint that makes the value   *)
(* COMPATIBLE with the sink, or "NONE" (NOT_PROVEN).                       *)
evaluate(constraints, sink) ==
    LET typed == constraints \cap TypeConstraints # {}
        compatible(c, category) == IF sink.category = category THEN c ELSE "NONE"
    IN CASE typed /\ sink.category \in {"COMMAND", "XSS"} -> MatchedType(constraints)
         [] typed /\ sink.category = "SQL" ->
                IF sink_context(sink) = "SQL_VALUE" THEN MatchedType(constraints) ELSE "NONE"
         [] ~(typed /\ sink.category # "FILE") /\ "SHELL_ESCAPED" \in constraints ->
                compatible("SHELL_ESCAPED", "COMMAND")
         [] ~(typed /\ sink.category # "FILE") /\ "SHELL_ESCAPED" \notin constraints /\ "HTML_ESCAPED" \in constraints ->
                compatible("HTML_ESCAPED", "XSS")
         [] OTHER -> IF "PATH_NORMALIZED" \in constraints THEN compatible("PATH_NORMALIZED", "FILE") ELSE "NONE"

(* correlate_and_evaluate gathers the constraints of all the variables of  *)
(* the sink before it asks the matrix.                                     *)
Correlated(env, sink) == evaluate(UNION {get_value(env, v).facts : v \in sink.vars}, sink)
==============================================================================
