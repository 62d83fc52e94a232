----------------------------- MODULE BusService -----------------------------
(***************************************************************************)
(* What BusCore promises about one application envelope and the others,    *)
(* without its queues of meta-events, semaphore, putters or workers: a     *)
(* line per priority, each envelope taken from it at most once, from the   *)
(* front, highest priority first, by at most Slots dispatches at a time.   *)
(***************************************************************************)
EXTENDS Integers, Sequences, FiniteSets

CONSTANTS
  Events,   \* the envelopes
  Levels,   \* the priorities
  Rank,     \* their order
  Level,    \* the priority of each envelope
  Slots     \* number of dispatches that may go on at once

VARIABLES
  line,     \* for each priority, the accepted envelopes that wait, oldest first
  state     \* where each envelope is in its life

vars == <<line, state>>

Init ==
  /\ line = [p \in Levels |-> << >>]
  /\ state = [e \in Events |-> "new"]

\* The steps of an envelope's life.
Moves ==
  {<<"new", "asked">>, <<"new", "waiting">>, <<"new", "refused">>,
   <<"asked", "waiting">>, <<"asked", "refused">>,
   <<"waiting", "running">>, <<"waiting", "done">>, <<"waiting", "dropped">>,
   <<"running", "done">>, <<"running", "cut">>}

Started(e) == state[e] = "waiting" /\ state'[e] \in {"running", "done"}
Entered(e) == state[e] # "waiting" /\ state'[e] = "waiting"

\* At most one envelope leaves a line, the oldest, and at most one joins it,
\* as the youngest.
LineMoves(p) ==
  \E gone \in {0, 1} \cap 0..Len(line[p]) :
    LET rest   == SubSeq(line[p], gone + 1, Len(line[p]))
        joined == {e \in Events : Level[e] = p /\ Entered(e)}
    IN \/ joined = {} /\ line'[p] = rest
       \/ \E e \in joined : joined = {e} /\ line'[p] = Append(rest, e)

\* A dispatch begins only when no envelope of a higher priority waits.
StrictPriority ==
  \A e \in Events : Started(e) =>
    \A p \in Levels : Rank[p] > Rank[Level[e]] => line[p] = << >>

Next ==
  /\ state' \in [Events -> {m[2] : m \in Moves} \cup {"new"}]
  /\ \A e \in Events : state'[e] # state[e] => <<state[e], state'[e]>> \in Moves
  /\ \A p \in Levels : LineMoves(p)
  /\ line' \in [Levels -> Seq(Events)]
  /\ StrictPriority
  /\ \A e \in Events : state'[e] = "waiting"
                       <=> \E i \in DOMAIN line'[Level[e]] : line'[Level[e]][i] = e
  /\ Cardinality({e \in Events : state'[e] = "running"}) <= Slots

Spec == Init /\ [][Next]_vars
=============================================================================
