-------------------------- MODULE MCEventPublisher --------------------------
(* Instances of EventPublisher for TLC: three events, the first two of one *)
(* task.                                                                   *)
EXTENDS EventPublisher, TLC

CONSTANTS t1, t2

EventsOfTwoTasks == 1..3
TaskOfEvent == <<t1, t1, t2>>
PublisherSymmetry == Permutations(Publishers)
=============================================================================
