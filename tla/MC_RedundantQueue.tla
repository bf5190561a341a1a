-------------------------- MODULE MC_RedundantQueue --------------------------
(* Model values for RedundantQueue: two queues of different capacity.      *)
EXTENDS RedundantQueue

MCCap == [j \in Queues |-> IF j = 0 THEN 2 ELSE 3]

=============================================================================
