--------------------------- MODULE TaskAuthority ---------------------------
(***************************************************************************)
(* What the task repository promises its clients, without saying how.      *)
(*                                                                         *)
(* A remediation task is submitted once, is granted to an executor at most *)
(* MaxAttempts times, every grant ends at most once (given back, finished  *)
(* or exhausted), and a finished or exhausted task never moves again.      *)
(* PostgresTaskRepository is shown to implement this specification.        *)
(***************************************************************************)
EXTENDS Naturals

CONSTANTS Tasks, MaxAttempts

VARIABLES
    phase,   \* phase[t]: where task t is in its life
    grants   \* grants[t]: how many times t has been granted to an executor

authorityVars == <<phase, grants>>

Phases == {"absent", "waiting", "granted", "finished", "exhausted"}

AuthorityTypeOK ==
    /\ phase \in [Tasks -> Phases]
    /\ grants \in [Tasks -> 0..MaxAttempts]

AuthorityInit ==
    /\ phase = [t \in Tasks |-> "absent"]
    /\ grants = [t \in Tasks |-> 0]

Move(t, from, to) ==
    /\ phase[t] = from
    /\ phase' = [phase EXCEPT ![t] = to]

Submit(t) == Move(t, "absent", "waiting") /\ UNCHANGED grants

Grant(t) ==
    /\ grants[t] < MaxAttempts
    /\ Move(t, "waiting", "granted")
    /\ grants' = [grants EXCEPT ![t] = @ + 1]

GiveBack(t) ==
    /\ grants[t] < MaxAttempts
    /\ Move(t, "granted", "waiting")
    /\ UNCHANGED grants

Finish(t) == Move(t, "granted", "finished") /\ UNCHANGED grants

Exhaust(t) ==
    /\ grants[t] = MaxAttempts
    /\ Move(t, "granted", "exhausted")
    /\ UNCHANGED grants

AuthorityNext ==
    \E t \in Tasks : Submit(t) \/ Grant(t) \/ GiveBack(t) \/ Finish(t) \/ Exhaust(t)

AuthoritySpec == AuthorityInit /\ [][AuthorityNext]_authorityVars
=============================================================================
