----------------------- MODULE MCRemediationLifecycle -----------------------
EXTENDS RemediationLifecycle, TLC
CONSTANTS l1, l2, f1, f2, a, s, x, r1, r2, Cwe, Sql

(* Both calls remediate the same finding: the second is a retry, and may   *)
(* come with the token of the first.                                       *)
const_Source == (f1 :> <<a>>) @@ (f2 :> <<x>>)

(* The patched line is still mentioned by the rule, with a verdict of SAFE *)
(* and by a scanner that gives none; x is VULNERABLE by another rule for the  *)
(* same weakness only.                                                     *)
Report(rule, verdict) == [rule |-> rule, cwe |-> Cwe, category |-> Sql, verdict |-> verdict]
const_Reports == (a :> {Report(r1, "VULNERABLE")})
              @@ (s :> {Report(r1, "SAFE"), Report(r1, NoVerdict)})
              @@ (x :> {Report(r1, "NOT_PROVEN"), Report(r2, "VULNERABLE")})
const_Finding == [l \in {l1, l2} |-> [file |-> f1, rule |-> r1, cwe |-> Cwe, category |-> Sql]]
const_Proposals ==
    [l \in {l1, l2} |-> [files |-> <<f1, f2>>,
                         hunks |-> <<[file |-> f1, orig |-> a, prop |-> s],
                                     [file |-> f2, orig |-> x, prop |-> s]>>]]
const_Edits == (f1 :> {<<a, x>>}) @@ (f2 :> {})
=============================================================================
