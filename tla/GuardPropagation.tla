-------------------------- MODULE GuardPropagation --------------------------
(***************************************************************************)
(* The path-sensitive verdict on a sink.  WorklistFixpointAnalyzer takes   *)
(* one block off its worklist per step, merges what its incoming edges     *)
(* carry, runs the block's statements and refines the result along each    *)
(* outgoing edge; the safeguard stops it after MaxSteps blocks.  Then      *)
(* SemanticSinkCorrelator looks the sink up, SinkCompatibilityMatrix       *)
(* judges the constraints found there, and SecurityDecisionEngine turns    *)
(* its answer into a verdict.  Each behaviour analyses one of Programs.    *)
(*                                                                         *)
(* A program is a sequence of statements (assign, update, if, loop, exit,  *)
(* sink), how its else is laid out, and the sink a finding is about.  An   *)
(* update is .=, += or an assignment to an array element.                  *)
(* The superglobals, tainted from the start, are not in the environment.   *)
(***************************************************************************)
EXTENDS ProgramSemantics, ControlFlowGraph, SinkCompatibility, FiniteSets

CONSTANTS
    Programs,   \* the functions analysed
    MaxSteps    \* bound and safeguard: max_steps (1000 in the code)

ASSUME MaxStepsAssumption == MaxSteps \in Nat \ {0}

VARIABLES
    program,      \* the function analysed
    cfg,          \* its ControlFlowGraph
    in_states,    \* the environment at the start of a block, where there is one
    edge_states,  \* what each edge carries, by <<source, target>>
    worklist,     \* FIFO
    step_count,
    verdict       \* NoVerdict until the sink is judged

analysis == <<in_states, edge_states, worklist, step_count>>
vars == <<program, cfg, analysis, verdict>>

NoVerdict == [status |-> "NONE", matching |-> "NONE", evidence |-> {}]

Init ==
    /\ program \in Programs
    /\ cfg = build_cfg(preprocess_statements(program.body, program.cuddled))
    /\ in_states = (Entry :> EmptyEnvironment)
    /\ edge_states = <<>>
    /\ worklist = <<Entry>>
    /\ step_count = 0
    /\ verdict = NoVerdict

-----------------------------------------------------------------------------
(* _transfer_block.                                                        *)

(* Only a variable right before "=" is an assignment: an update matches no *)
(* pattern and leaves the environment as it is.                            *)
TransferStatement(env, stmt) ==
    CASE stmt.kind = "assign" -> Assign(env, stmt.lhs, stmt.rhs)
      [] stmt.kind \in {"if", "loop"} -> ReadCondition(env, stmt.cond)
      [] OTHER -> env

transfer_block(env, stmts) == FoldLeft(TransferStatement, env, stmts)

(* The join of what the edges from preds (in order) carry into b.          *)
Merged(edges, preds, b) ==
    LET known == SelectSeq(preds, LAMBDA p : <<p, b>> \in DOMAIN edges)
    IN FoldLeft(LAMBDA env, p : join(env, edges[<<p, b>>]), edges[<<Head(known), b>>], Tail(known))

SomeEdgeKnown(edges, preds, b) == \E i \in DOMAIN preds : <<preds[i], b>> \in DOMAIN edges

ReachablePredecessors(b) == SelectSeq(Predecessors(cfg, b), LAMBDA p : p \in cfg.reachable)

MergedIn(b) ==
    IF b # Entry /\ SomeEdgeKnown(edge_states, ReachablePredecessors(b), b)
    THEN Merged(edge_states, ReachablePredecessors(b), b)
    ELSE in_states[b]

(* Mutant: only the versions are compared, not what is known of them.      *)
envs_equal_keys(e, f) == DOMAIN e.values = DOMAIN f.values

envs_equal(e, f) == e.values = f.values

Enqueued(queue, b) == IF Contains(queue, b) THEN queue ELSE Append(queue, b)

(* One outgoing edge of a block whose statements left the environment out. *)
Propagate(out, s, edge) ==
    LET succ == edge.dst
        edges == Stored(s.edge_states, <<edge.src, succ>>, RefineEdge(out, edge.kind, edge.cond))
        new == IF succ \in DOMAIN s.in_states
               THEN Merged(edges, Predecessors(cfg, succ), succ) ELSE edges[<<edge.src, succ>>]
        changed == succ \in DOMAIN s.in_states => ~envs_equal(s.in_states[succ], new)
    IN [edge_states |-> edges,
        in_states |-> IF changed THEN Stored(s.in_states, succ, new) ELSE s.in_states,
        worklist |-> IF changed THEN Enqueued(s.worklist, succ) ELSE s.worklist]

Running == worklist # <<>> /\ step_count < MaxSteps

(* One turn of analyze's loop.  Every block on the worklist is reachable:  *)
(* it was found along edges from the entry.                                *)
AnalyzeBlock ==
    /\ Running
    /\ LET b == Head(worklist)
           merged == MergedIn(b)
           out == transfer_block(merged, cfg.stmts[b])
           start == [edge_states |-> edge_states, in_states |-> Stored(in_states, b, merged), worklist |-> Tail(worklist)]
           end == FoldLeft(LAMBDA s, edge : Propagate(out, s, edge), start, outgoing_edges(cfg, b))
       IN /\ in_states' = end.in_states
          /\ edge_states' = end.edge_states
          /\ worklist' = end.worklist
    /\ step_count' = step_count + 1
    /\ UNCHANGED <<program, cfg, verdict>>

-----------------------------------------------------------------------------
(* SemanticSinkCorrelator, SecurityDecisionEngine.                         *)

IsSink(stmt) == stmt.kind = "sink"

(* The blocks the sink may be looked up in.  The code takes the first of a *)
(* set of strings, in an order that changes from run to run; where it      *)
(* finds none, or one the analysis did not get to, it takes the exit.      *)
SinkBlocks ==
    LET holding == {b \in cfg.reachable : \E i \in DOMAIN cfg.stmts[b] : IsSink(cfg.stmts[b][i])}
    IN IF holding = {} THEN {Exit} ELSE {IF b \in DOMAIN in_states THEN b ELSE Exit : b \in holding}

(* The environment just before the sink, within its block.                 *)
EnvironmentAtSink(b) ==
    LET stmts == cfg.stmts[b]
        sinks == {i \in DOMAIN stmts : IsSink(stmts[i])}
        before == IF sinks = {} THEN Len(stmts) ELSE (CHOOSE i \in sinks : \A j \in sinks : i <= j) - 1
    IN transfer_block(in_states[b], SubSeq(stmts, 1, before))

(* What the verdict says of a variable of the sink: a SOURCE if it is      *)
(* TAINTED, the GUARD and the SANITIZER of its constraints.  CONSTRAINED   *)
(* alone is no evidence.                                                   *)
Evidence(val) ==
    (IF val.taint = "TAINTED" THEN {"SOURCE"} ELSE {})
    \cup (IF val.facts \cap TypeConstraints # {} THEN {"GUARD"} ELSE {})
    \cup (IF val.facts \ TypeConstraints # {} THEN {"SANITIZER"} ELSE {})

(* The sink is judged once the analysis has stopped, by itself or by the   *)
(* safeguard.  Where the exit was not reached in MaxSteps steps the code   *)
(* raises: it takes the last element of a set.                             *)
EvaluateSink ==
    /\ ~Running
    /\ verdict = NoVerdict
    /\ \E b \in SinkBlocks :
          verdict' = IF b \notin DOMAIN in_states
                     THEN [NoVerdict EXCEPT !.status = "ERROR"]
                     ELSE LET env == EnvironmentAtSink(b)
                              matching == Correlated(env, program.sink)
                          IN [status |-> IF matching = "NONE" THEN "UNKNOWN" ELSE "SAFE",
                              matching |-> matching,
                              evidence |-> UNION {{v} \X Evidence(get_value(env, v)) : v \in program.sink.vars}]
    /\ UNCHANGED <<program, cfg, analysis>>

Next == AnalyzeBlock \/ EvaluateSink

Spec == Init /\ [][Next]_vars

-----------------------------------------------------------------------------
(* Shapes of programs the analysis is known to misread (README, section 6). *)

RECURSIVE Below(_)
Below(stmts) ==
    LET inner(stmt) == CASE stmt.kind = "if" -> Below(stmt.then) \o Below(stmt.else)
                         [] stmt.kind = "loop" -> Below(stmt.body)
                         [] OTHER -> <<>>
    IN FoldLeft(LAMBDA all, stmt : Append(all, stmt) \o inner(stmt), <<>>, stmts)

Statements(body) == ToSet(Below(body))
Inside(stmt) == IF stmt.kind = "if" THEN Statements(stmt.then \o stmt.else)
                ELSE IF stmt.kind = "loop" THEN Statements(stmt.body) ELSE {}
LoopBelowTop(body) == \E i \in DOMAIN body : \E s \in Inside(body[i]) : s.kind = "loop"
SinkOnce(body) == Len(SelectSeq(Below(body), IsSink)) = 1

(* The programs the analysis understands: read as they are written, no     *)
(* loop inside a branch or a loop, the sink's text only once, no update,   *)
(* nothing put together with a conversion, and no comparison (which is     *)
(* taken for an assignment) ...                                            *)
Understood(prog) ==
    /\ preprocess_statements(prog.body, prog.cuddled) = prog.body
    /\ ~LoopBelowTop(prog.body)
    /\ SinkOnce(prog.body)
    /\ \A s \in Statements(prog.body) :
          /\ s.kind # "update"
          /\ s.kind = "assign" => Alone(s.rhs)
          /\ s.kind \in {"if", "loop"} => s.cond.pred # "equals"

(* ... and for the constraints: no expression made of variables, one       *)
(* variable in the sink, and only conditions whose first test decides the  *)
(* branch it is used for.                                                  *)
Precise(prog) ==
    /\ Understood(prog)
    /\ Cardinality(prog.sink.vars) = 1
    /\ \A s \in Statements(prog.body) :
          /\ s.kind = "assign" => Exact(s.rhs)
          /\ s.kind \in {"if", "loop"} => Decides(s.cond)

AssignsInLoop(body) ==
    \E i \in DOMAIN body : /\ body[i].kind = "loop"
                          /\ \/ body[i].cond.pred = "equals"
                             \/ \E s \in Inside(body[i]) : s.kind = "assign"

-----------------------------------------------------------------------------
(* A sink is called SAFE only for a constraint that really holds of the    *)
(* value in every execution that reaches the sink: guards hold on their    *)
(* own branch only, end with an assignment, and survive a merge only when  *)
(* every incoming path has them.                                           *)
VerdictIsProven ==
    Precise(program) /\ verdict.status = "SAFE" =>
        \A st \in AtSink(program.body) : \A v \in program.sink.vars : verdict.matching \in st[v].has

(* Untrusted input that can be in a variable at the sink is known there:   *)
(* the variable is suspect in the environment the sink is judged with, and *)
(* the verdict has evidence of it, its source or the constraint found on   *)
(* it.  The one case without: paths that constrained it differently met,   *)
(* which leaves it CONSTRAINED by nothing.                                 *)
TaintReachesSink ==
    Understood(program) /\ verdict.status \in {"SAFE", "UNKNOWN"} =>
        \A st \in AtSink(program.body) : \A v \in program.sink.vars :
            st[v].tainted =>
                \A b \in SinkBlocks :
                    LET val == get_value(EnvironmentAtSink(b), v)
                    IN /\ val.taint \in Suspect
                       /\ \/ \E kind \in {"SOURCE", "GUARD", "SANITIZER"} : <<v, kind>> \in verdict.evidence
                          \/ val = [taint |-> "CONSTRAINED", facts |-> {}]

(* When the worklist has run empty, every reachable block has the join of  *)
(* what its predecessors pass on: no block was left with a state computed  *)
(* from an older one.  And it runs empty, before the safeguard, for every  *)
(* function that assigns nothing in a loop.                                *)
StoppedAtFixpoint ==
    /\ worklist = <<>> =>
          \A b \in cfg.reachable \ {Entry} :
             LET passed(e) == RefineEdge(transfer_block(in_states[e.src], cfg.stmts[e.src]), e.kind, e.cond)
                 incoming == SelectSeq(cfg.edges, LAMBDA e : e.dst = b /\ e.src \in cfg.reachable)
             IN in_states[b].values =
                FoldLeft(LAMBDA env, e : join(env, passed(e)), passed(Head(incoming)), Tail(incoming)).values
    /\ ~Running /\ ~AssignsInLoop(program.body) => worklist = <<>>
==============================================================================
