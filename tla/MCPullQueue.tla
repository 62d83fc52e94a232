---------------------------- MODULE MCPullQueue -----------------------------
(* Values for model checking PullQueue. *)
EXTENDS PullQueue

CONSTANTS g1, g2, r1, r2

Deployment(strict, polls, leases, long, sends, k) ==
  [strict |-> strict, xdel |-> FALSE, polls |-> polls, leases |-> leases, long |-> long,
   sends |-> sends, faults |-> k]

BothReplicas == {<<g1, r1>>, <<g1, r2>>}

(* One group polled through both replicas; a command may fail where leases *)
(* are checked.                                                            *)
Competing ==
  {Deployment(b, BothReplicas, {2}, FALSE, 1, IF b THEN 1 ELSE 0) : b \in BOOLEAN}

(* The same with long polls: a reclaimed message is held while they wait. *)
Polling == {Deployment(TRUE, BothReplicas, {2}, TRUE, 1, 0)}

(* Two groups, polled through the same replica. *)
FanningOut == {Deployment(TRUE, {<<g1, r1>>, <<g2, r1>>}, {2}, FALSE, 1, 0)}

(* Receives of two messages: one is parked while the other is in hand. *)
Batches == {Deployment(TRUE, {<<g1, r1>>}, {3}, FALSE, 2, 0)}

AllConfigs == Competing \cup Polling \cup FanningOut \cup Batches
=============================================================================
