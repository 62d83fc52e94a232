----------------------------- MODULE MCBusCore -----------------------------
(***************************************************************************)
(* Small instances of BusCore.                                             *)
(***************************************************************************)
EXTENDS BusCore, TLC

CONSTANTS e1, e2, e3, e4

\* Workers are interchangeable.
Symmetric == Permutations(Workers)

\* The applications publish at HIGH, in the queue the meta-events and bus.dlq
\* use, or at NORMAL, in a queue of their own.
AllHigh == [e \in Events |-> "HIGH"]
AllNormal == [e \in Events |-> "NORMAL"]
\* Two of them, and one in a queue of its own that is served first.
TwoLevels == [e \in Events |-> IF e = e3 THEN "CRITICAL" ELSE "HIGH"]

\* One publisher under each backpressure policy.
MixedPolicy ==
  [e \in Events \cup {Dlq} |-> CASE e = e2 -> "drop_oldest"
                                 [] e = e3 -> "reject"
                                 [] OTHER  -> "block"]

\* Two publishers that block and one that drops; on_dlq never waits.
DlqRejects ==
  [e \in Events \cup {Dlq} |-> CASE e = e2  -> "drop_oldest"
                                 [] e = Dlq -> "reject"
                                 [] OTHER   -> "block"]

\* The default policy everywhere.
AllBlock == [e \in Events \cup {Dlq} |-> "block"]

\* Application topics match one subscription, meta topics match one too.
OneEach == [e \in Envelopes |-> 1]
\* Two subscriptions, none, or one, as for the bus.* topics.
TwoNoneOne == [e \in Envelopes |-> CASE e = e1 -> 2 [] e = e2 -> 0 [] OTHER -> 1]
=============================================================================
