-------------------------- MODULE MCRegisterServer --------------------------
(***************************************************************************)
(* The topology of top_test.config for TLC, its three peers on two machines. *)
(***************************************************************************)
EXTENDS RegisterServer

Star == {0, 1, 2}
StarNeighbors == [p \in Star |-> IF p = 0 THEN {1, 2} ELSE {0}]
Machines == {"host0", "host1"}
MachineOf == [p \in Star |-> CASE p = 0 -> "host0" [] p = 1 -> "host1" [] p = 2 -> "host0"]

\* The user restarts one of the leaves once.
OneRestart == [p \in Star |-> IF p = 1 THEN 1 ELSE 0]
NoRestart == [p \in Star |-> 0]
=============================================================================
