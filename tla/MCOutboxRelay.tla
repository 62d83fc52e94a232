--------------------------- MODULE MCOutboxRelay ---------------------------
(***************************************************************************)
(* Small instances of OutboxRelay.                                         *)
(***************************************************************************)
EXTENDS OutboxRelay

CONSTANTS e1, e2, e3, c1, c2, c3

\* Each call publishes an envelope of its own.
Distinct == [c \in Calls |-> CASE c = c1 -> e1 [] c = c2 -> e2 [] c = c3 -> e3]
\* The third call publishes the envelope of the second again.
Repeated == [c \in Calls |-> IF c = c1 THEN e1 ELSE e2]
=============================================================================
