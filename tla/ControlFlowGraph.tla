-------------------------- MODULE ControlFlowGraph --------------------------
(***************************************************************************)
(* CFGBuilder: from the statements of a function to basic blocks and       *)
(* edges.  A graph under construction is [next, at, ended, stmts, edges]:  *)
(* the block counter, the block statements are appended to, whether a      *)
(* branch has ended in an exit, the statements of each block and the edges *)
(* in the order they were added.  Predecessors are read off the edges.     *)
(* The dominator sets, which the analysis never reads, are left out.       *)
(*                                                                         *)
(* A function arrives as lines of text, one statement or brace to a line;  *)
(* preprocess_statements says which statements the builder makes of them.  *)
(***************************************************************************)
EXTENDS Integers, Sequences, SequencesExt, TLC

Entry == 0
Exit == -1
NoCond == [pred |-> "unknown"]

(* Reading a block, the closing braces inside it are dropped with its own. *)
(* So when its lines are read in turn, an if or a loop among them has no   *)
(* end and takes all that follows, the else part included, as its body.    *)
RECURSIVE ReadInner(_)
ReadInner(stmts) ==
    IF stmts = <<>> THEN <<>>
    ELSE LET stmt == Head(stmts)
             rest == Tail(stmts)
         IN CASE stmt.kind = "if" -> <<[stmt EXCEPT !.then = ReadInner(@ \o stmt.else \o rest), !.else = <<>>]>>
              [] stmt.kind = "loop" -> <<[stmt EXCEPT !.body = ReadInner(@ \o rest)]>>
              [] OTHER -> <<stmt>> \o ReadInner(rest)

(* At the top the braces are all there, but an else on the line of the     *)
(* closing brace ("} else {") balances it: both parts are read as one.     *)
ReadTop(stmt, cuddled) ==
    CASE stmt.kind = "if" /\ cuddled -> [stmt EXCEPT !.then = ReadInner(@ \o stmt.else), !.else = <<>>]
      [] stmt.kind = "if" /\ ~cuddled -> [stmt EXCEPT !.then = ReadInner(@), !.else = ReadInner(@)]
      [] stmt.kind = "loop" -> [stmt EXCEPT !.body = ReadInner(@)]
      [] OTHER -> stmt

preprocess_statements(stmts, cuddled) == [i \in DOMAIN stmts |-> ReadTop(stmts[i], cuddled)]

-----------------------------------------------------------------------------
NextBlock(g) == g.next + 1

NewBlock(g) == [g EXCEPT !.next = NextBlock(g), !.stmts = @ @@ (NextBlock(g) :> <<>>)]

Put(g, stmt) == [g EXCEPT !.stmts[g.at] = Append(@, stmt)]

add_edge(g, src, dst, kind, cond) ==
    [g EXCEPT !.edges = Append(@, [src |-> src, dst |-> dst, kind |-> kind, cond |-> cond])]

EdgeUnless(ended, g, src, dst, kind) == IF ended THEN g ELSE add_edge(g, src, dst, kind, NoCond)

RECURSIVE build_subgraph(_, _)

(* A branch or loop body in blocks of its own, entered from src.           *)
Branch(g, src, body, kind, cond) ==
    LET sub == build_subgraph(body, [NewBlock(g) EXCEPT !.at = NextBlock(g), !.ended = FALSE])
    IN add_edge(sub, src, NextBlock(g), kind, cond)

(* Both branches of an if whose condition ends block g.at, and their merge. *)
Fork(g, stmt) ==
    LET t == Branch(g, g.at, stmt.then, "TRUE_BRANCH", stmt.cond)
        f == Branch(t, g.at, stmt.else, "FALSE_BRANCH", stmt.cond)
        merge == NextBlock(f)
        joined == EdgeUnless(t.ended, NewBlock(f), t.at, merge, "FALLTHROUGH")
    IN [EdgeUnless(f.ended, joined, f.at, merge, "FALLTHROUGH") EXCEPT !.at = merge, !.ended = t.ended /\ f.ended]

(* Below the top level a loop is an ordinary statement, and nothing after  *)
(* an exit is looked at.                                                   *)
build_subgraph(stmts, graph) ==
    FoldLeft(LAMBDA g, stmt :
                CASE g.ended -> g
                  [] ~g.ended /\ stmt.kind = "exit" ->
                        [add_edge(Put(g, stmt), g.at, Exit, "FALLTHROUGH", NoCond) EXCEPT !.ended = TRUE]
                  [] ~g.ended /\ stmt.kind = "if" -> Fork(g, stmt)
                  [] OTHER -> Put(g, stmt),
             graph, stmts)

TopIf(g, stmt) ==
    LET cond == NextBlock(g)
        here == IF g.stmts[g.at] = <<>> THEN g
                ELSE [add_edge(NewBlock(g), g.at, cond, "FALLTHROUGH", NoCond) EXCEPT !.at = cond]
    IN [Fork(Put(here, stmt), stmt) EXCEPT !.ended = FALSE]

TopLoop(g, stmt) ==
    LET cond == NextBlock(g)
        head == [add_edge(NewBlock(g), g.at, cond, "FALLTHROUGH", NoCond) EXCEPT !.at = cond]
        body == Branch(Put(head, stmt), cond, stmt.body, "TRUE_BRANCH", stmt.cond)
        back == EdgeUnless(body.ended, body, body.at, cond, "LOOP_BACKEDGE")
        post == NextBlock(back)
    IN [add_edge(NewBlock(back), cond, post, "FALSE_BRANCH", stmt.cond) EXCEPT !.at = post, !.ended = FALSE]

(* What follows an exit at the top level goes to a block nothing leads to. *)
TopExit(g, stmt) ==
    [NewBlock(add_edge(Put(g, stmt), g.at, Exit, "FALLTHROUGH", NoCond)) EXCEPT !.at = NextBlock(g)]

TopStatement(g, stmt) ==
    CASE stmt.kind = "if" -> TopIf(g, stmt)
      [] stmt.kind = "loop" -> TopLoop(g, stmt)
      [] stmt.kind = "exit" -> TopExit(g, stmt)
      [] OTHER -> Put(g, stmt)

outgoing_edges(cfg, b) == SelectSeq(cfg.edges, LAMBDA e : e.src = b)

Predecessors(cfg, b) == LET in == SelectSeq(cfg.edges, LAMBDA e : e.dst = b) IN [i \in DOMAIN in |-> in[i].src]

Successors(cfg, S) == {e.dst : e \in {x \in ToSet(cfg.edges) : x.src \in S}}

RECURSIVE Closure(_, _)
Closure(cfg, S) == IF Successors(cfg, S) \subseteq S THEN S ELSE Closure(cfg, S \cup Successors(cfg, S))

build_cfg(stmts) ==
    LET empty == [next |-> 0, at |-> Entry, ended |-> FALSE, stmts |-> (Entry :> <<>>) @@ (Exit :> <<>>), edges |-> <<>>]
        last == FoldLeft(TopStatement, empty, stmts)
        cfg == add_edge(last, last.at, Exit, "FALLTHROUGH", NoCond)
    IN [stmts |-> cfg.stmts, edges |-> cfg.edges, reachable |-> Closure(cfg, {Entry})]
==============================================================================
