---------------------------- MODULE MCAIExecution ----------------------------
(* Small instances of AIExecution. *)
EXTENDS AIExecution

CONSTANTS r1, r2

(* One answer costs less than was reserved, one more. *)
const_Charges == {<<1, 1>>, <<3, 1>>}
const_Asked == [s \in Executors |-> {r1}]
const_Payload == [s \in Executors |-> CHOOSE p \in Payloads : TRUE]
=============================================================================
