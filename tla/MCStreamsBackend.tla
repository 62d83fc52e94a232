-------------------------- MODULE MCStreamsBackend --------------------------
(* Values for model checking StreamsBackend. *)
EXTENDS StreamsBackend

CONSTANTS i1, i2, e1, e2

Deployment(delivery, explicit, retention, undecodable, failing) ==
  [delivery |-> delivery, explicit |-> explicit, retention |-> retention,
   undecodable |-> undecodable, failing |-> failing]

(* One deployment for each thing an entry can meet. *)
AllConfigs ==
  { Deployment("group", FALSE, FALSE, {}, {}),
    Deployment("group", TRUE, TRUE, {}, {e1}),
    Deployment("group", FALSE, FALSE, {e1}, {}),
    Deployment("broadcast", TRUE, FALSE, {}, {}) }
=============================================================================
