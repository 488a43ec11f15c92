---------------------------- MODULE MCBroadcast -----------------------------
(* Instances of Broadcast for TLC. *)
EXTENDS Broadcast, TLC

CONSTANTS c1, c2

\* Every call may run every flow.
AllDuties == [c \in Calls |-> Flows]

\* One client and one monitor.
ClientAndMonitor ==
  (c1 :> {"create", "process", "abort"}) @@
  (c2 :> {"sendWaiting", "background", "abandoned", "sync", "review"})

Symmetry == Permutations(Calls)
=============================================================================
