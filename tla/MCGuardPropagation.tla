------------------------ MODULE MCGuardPropagation ------------------------
(***************************************************************************)
(* The model-checked instance of GuardPropagation.  Every function reads   *)
(* untrusted input into x, takes a step, a guard or a loop, then an if or  *)
(* a loop that may hold the sink; other families cover the matrix, two     *)
(* variables in one sink, loops inside branches and a repeated sink.       *)
(***************************************************************************)
EXTENDS GuardPropagation

MCVars == {"x", "y"}

AssignTo(v, rhs) == [kind |-> "assign", lhs |-> v, rhs |-> rhs]
Expr(S) == [form |-> "expr", vars |-> S, source |-> FALSE]
Copy(v) == [form |-> "copy", arg |-> v]
Apply(fn, v) == [form |-> "trans", fn |-> fn, arg |-> v, rest |-> {}]
With(rhs, S) == [rhs EXCEPT !.rest = S]
Update(v, rhs) == [kind |-> "update", lhs |-> v, rhs |-> rhs]
ReadInput(v) == AssignTo(v, [form |-> "expr", vars |-> {}, source |-> TRUE])
Test(pred, v, negated, with) == [pred |-> pred, var |-> v, negated |-> negated, with |-> with]
IfElse(cond, then, else) == [kind |-> "if", cond |-> cond, then |-> then, else |-> else]
Loop(cond, body) == [kind |-> "loop", cond |-> cond, body |-> body]
ExitStmt == [kind |-> "exit"]
SinkStmt == [kind |-> "sink"]
Sink(S, category, ident) == [vars |-> S, category |-> category, ident |-> ident]
Program(body, sink) == [body |-> body, cuddled |-> FALSE, sink |-> sink]

Numeric == Test("is_numeric", "x", FALSE, "none")
NotNumeric == Test("is_numeric", "x", TRUE, "or")
Unknown == Test("unknown", "x", FALSE, "none")
Equals == Test("equals", "x", FALSE, "none")
Intval == AssignTo("x", Apply("intval", "x"))

Steps == {ReadInput("x"), Intval, AssignTo("y", Copy("x")), AssignTo("x", Copy("y")), ExitStmt,
          AssignTo("y", Apply("escapeshellarg", "x")), AssignTo("x", Expr({})), AssignTo("y", Expr({"x", "y"}))}
Bodies == {<<>>, <<ExitStmt>>, <<ReadInput("x")>>, <<Intval>>, <<AssignTo("x", Copy("y"))>>,
           <<IfElse(NotNumeric, <<ExitStmt>>, <<>>)>>, <<IfElse(Unknown, <<ExitStmt>>, <<ExitStmt>>), Intval>>}
SinkBodies == {<<SinkStmt>>, <<Intval, SinkStmt>>, <<SinkStmt, ReadInput("x")>>, <<IfElse(Numeric, <<SinkStmt>>, <<>>)>>}

Firsts == Steps
    \cup {IfElse(c, t, <<>>) : c \in {Numeric, NotNumeric, Unknown, Equals}, t \in Bodies}
    \cup {Loop(c, b) : c \in {Numeric, Unknown}, b \in Bodies}
Seconds == Steps
    \cup {IfElse(c, t, f) : c \in {Numeric, NotNumeric, Unknown}, t \in Bodies, f \in Bodies}
    \cup {Loop(c, b) : c \in {Numeric, NotNumeric, Unknown}, b \in Bodies}
SinkSeconds ==
    {IfElse(c, t, f) : c \in {Numeric, NotNumeric}, t \in SinkBodies, f \in Bodies}
    \cup {IfElse(c, t, f) : c \in {Numeric, NotNumeric}, t \in Bodies, f \in SinkBodies}
    \cup {Loop(c, b) : c \in {Numeric, Unknown}, b \in SinkBodies}

(* Paths: guards, exits, merges and loops before and around the sink.      *)
PathPrograms ==
    {Program(<<ReadInput("x"), i, j, SinkStmt>>, Sink({"x"}, "SQL", FALSE)) : i \in Firsts, j \in Seconds}
    \cup {Program(<<ReadInput("x"), i, j>>, Sink({"x"}, "SQL", FALSE)) : i \in Firsts, j \in SinkSeconds}
    \cup {Program(<<ReadInput("x"), i, j, SinkStmt>>, Sink({"y"}, "COMMAND", FALSE)) : i \in Firsts, j \in Steps}

(* Every transformation and test against every category of sink.           *)
MatrixPrograms ==
    {Program(<<AssignTo("x", Apply(f, a)), AssignTo("y", Apply(h, "x")), SinkStmt>>, Sink(S, c, i)) :
        f \in DOMAIN Transformations, h \in DOMAIN Transformations, a \in {"x", Untrusted},
        S \in {{"x"}, {"y"}, {"x", "y"}}, c \in {"SQL", "COMMAND", "XSS", "FILE"}, i \in BOOLEAN}
    \cup {Program(<<ReadInput("x"), IfElse(Test(p, "x", n, w), <<ExitStmt>>, <<>>), SinkStmt>>, Sink({"x"}, c, FALSE)) :
        p \in DOMAIN Predicates, n \in BOOLEAN, w \in {"none", "and", "or"}, c \in {"SQL", "COMMAND", "XSS", "FILE"}}

(* What the analysis misreads: a conversion put together with something,   *)
(* an update, a loop below the top, the sink twice, an else behind its     *)
(* closing brace.                                                          *)
MisreadPrograms ==
    {Program(<<ReadInput("x"), AssignTo("y", With(Apply(f, a), S)), SinkStmt>>, Sink({"y"}, c, FALSE)) :
        f \in {"intval", "basename"}, a \in MCVars \cup {Untrusted}, S \in SUBSET {"x", Untrusted, OtherText},
        c \in {"SQL", "FILE"}} \cup
    {Program(<<i, Update(v, rhs), SinkStmt>>, Sink({v}, "SQL", FALSE)) :
        i \in {ReadInput("x"), Intval}, v \in MCVars, rhs \in {Expr({}), Copy("x"), Expr({"x", "y"})}} \cup
    {Program(<<ReadInput("x"), IfElse(Unknown, <<Loop(Unknown, b)>>, <<>>), SinkStmt>>, Sink({"x"}, "SQL", FALSE)) :
        b \in Bodies \cup SinkBodies}
    \cup {Program(<<ReadInput("x"), IfElse(Numeric, t, f)>>, Sink({"x"}, "SQL", FALSE)) :
        t \in SinkBodies, f \in SinkBodies}
    \cup {[p EXCEPT !.cuddled = TRUE] : p \in
            {Program(<<Intval, IfElse(Unknown, t, f), SinkStmt>>, Sink({"x"}, "SQL", FALSE)) : t \in Bodies, f \in Bodies}}

(* Two ways through, with the same or with different constraints, or none. *)
MeetingPrograms ==
    {Program(<<ReadInput("x"), IfElse(c, t, f), SinkStmt>>, Sink({"x"}, s, FALSE)) :
        c \in {Numeric, Unknown}, s \in {"SQL", "COMMAND"},
        t \in {<<>>} \cup {<<AssignTo("x", Apply(h, "x"))>> : h \in DOMAIN Transformations},
        f \in {<<>>} \cup {<<AssignTo("x", Apply(h, "x"))>> : h \in DOMAIN Transformations}}

MCPrograms == PathPrograms \cup MatrixPrograms \cup MeetingPrograms \cup MisreadPrograms
============================================================================
