------------------------------- MODULE MCWire -------------------------------
(* Two threads of a peer with two neighbours, for TLC.                     *)
EXTENDS Wire

MCJobs == [t \in Threads |->
  IF t = "broadcast" THEN <<[msg |-> "query", to |-> <<1, 2>>], [msg |-> "relayed query", to |-> <<2>>]>>
  ELSE <<[msg |-> "hit", to |-> <<1>>], [msg |-> "other hit", to |-> <<2>>]>>]
=============================================================================
