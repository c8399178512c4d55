-------------------------- MODULE ProgramSemantics --------------------------
(***************************************************************************)
(* What the analysed programs really do: the reference the analysis is     *)
(* compared with.  Execution follows the structure of the program and      *)
(* knows nothing of blocks, edges or versions.                             *)
(***************************************************************************)
EXTENDS ValueSemantics, Sequences, SequencesExt

Choosing(S, cond, b) == {st \in S : b \in Truth(st, cond)}

(* r.next: the states after a statement, r.sink: those in which a sink is  *)
(* reached on the way.                                                     *)
RECURSIVE Execute(_, _)
RECURSIVE Iterate(_, _, _)

ExecuteStatement(r, stmt) ==
    CASE stmt.kind = "assign" ->
            [r EXCEPT !.next = UNION {{[st EXCEPT ![stmt.lhs] = x] : x \in Results(st, stmt.rhs)} : st \in @}]
      [] stmt.kind = "update" ->
            [r EXCEPT !.next = UNION {{[st EXCEPT ![stmt.lhs] = x] : x \in Updated(st, stmt.lhs, stmt.rhs)} : st \in @}]
      [] stmt.kind = "if" ->
            LET t == Execute(stmt.then, Choosing(r.next, stmt.cond, TRUE))
                f == Execute(stmt.else, Choosing(r.next, stmt.cond, FALSE))
            IN [next |-> t.next \cup f.next, sink |-> r.sink \cup t.sink \cup f.sink]
      [] stmt.kind = "loop" ->
            LET all == Iterate(stmt, r.next, {})
            IN [next |-> Choosing(all.next, stmt.cond, FALSE), sink |-> r.sink \cup all.sink]
      [] stmt.kind = "exit" -> [r EXCEPT !.next = {}]
      [] stmt.kind = "sink" -> [r EXCEPT !.sink = @ \cup r.next]

Execute(stmts, S) == FoldLeft(ExecuteStatement, [next |-> S, sink |-> {}], stmts)

(* The states at the head of a loop, over any number of turns.             *)
Iterate(loop, S, sinks) ==
    LET turn == Execute(loop.body, Choosing(S, loop.cond, TRUE))
    IN IF turn.next \subseteq S THEN [next |-> S, sink |-> sinks \cup turn.sink]
       ELSE Iterate(loop, S \cup turn.next, sinks \cup turn.sink)

(* The states in which the program may reach its sink.                     *)
AtSink(body) == Execute(body, {[v \in Vars |-> Literal]}).sink
==============================================================================
