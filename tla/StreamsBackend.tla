--------------------------- MODULE StreamsBackend ---------------------------
(***************************************************************************)
(* The Redis Streams transport (backends/redis_streams.py) under the       *)
(* transport consumer of BusCore (core.py): several processes publish to   *)
(* one stream and consume it, as members of a consumer group with PEL,     *)
(* dedup keys and XAUTOCLAIM, or by the group-less broadcast read.         *)
(*                                                                         *)
(* Every Redis command is a step.  An entry is its position in the stream; *)
(* entries up to `lo` have been trimmed.  The consumer loop and the        *)
(* sweeper of a process are two tasks, each working through the batch its  *)
(* last read gave it.  Times are abstracted to whether a pending entry has *)
(* been idle long enough to be claimed.                                    *)
(***************************************************************************)
EXTENDS Integers, Sequences, FiniteSets, SequencesExt

CONSTANTS
  Instances,      \* the processes
  Publishers,     \* the processes that publish
  Events,         \* the event ids
  Configs,        \* deployments: [delivery, explicit, retention, undecodable, failing]
  MaxDeliveries,  \* max_deliveries; 0 is None
  EchoCap,        \* _FANOUT_ECHO_CAP
  MaxLen,         \* maxlen
  MaxLog,         \* bound: entries added to the stream
  MaxFaults,      \* bound: failed commands, slow callbacks, stops, lapsed keys, data losses
  MayClose,       \* do processes shut down?
  Dollar          \* the sentinel "$"

(* The sentinel is no stream position. *)
ASSUME StreamsAssumption == MaxLen \in Nat /\ Dollar \notin Nat

Tasks == {"consumer", "sweeper"}
Entries == 1..MaxLog

VARIABLES
  conf,      \* the delivery mode, are streams= and retention= set, the events the codec
             \* cannot decode, the events whose callback always raises
  log,       \* the stream: the event id of each entry
  lo,        \* entries up to this one are trimmed
  group,     \* does the consumer group exist?
  cursor,    \* the last entry the group has been given
  pel,       \* pending entry -> [owner, n]: consumer and times_delivered
  idle,      \* pending entries past min_idle_time
  marks,     \* the dedup keys
  up,        \* "up", "closing" or "down"
  known,     \* is the stream in _streams?
  ready,     \* is the stream in _groups_ready?
  lastId,    \* _last_ids: broadcast cursor
  task,      \* [pc, batch, over] of each task
  fanned,    \* _fanned_out, oldest first
  queued,    \* published here, waiting in the local queues
  faults,
  lost,      \* has Redis come back without its data?
  runs,      \* handlers run by this incarnation of the process (up to 2)
  total,     \* handlers run for an event off the transport (up to 2)
  start,     \* broadcast: the end of the stream when it was discovered
  seen,      \* broadcast: entries this incarnation has dispatched
  notes      \* events: published, run, suppressed as echoes, parked,
             \* dropped while closing, left
             \* unrun by a process that stopped, excused as duplicates;
             \* gap: processes whose broadcast cursor was the sentinel

redis == <<log, lo, group, cursor, pel, idle, marks>>
local == <<up, known, ready, lastId, task, fanned, queued>>
budget == <<faults, lost>>
ghost == <<runs, total, start, seen, notes>>
heard == <<start, seen>>
vars == <<conf, redis, local, budget, ghost>>

Grouped == conf.delivery = "group"
Undecodable == conf.undecodable
Failing == conf.failing
Looping == [pc |-> "loop", batch |-> <<>>, over |-> {}]
Fresh(i) == [t \in Tasks |-> Looping]
Capped(n) == IF n < 2 THEN n ELSE 2

(* times_delivered is only compared with max_deliveries.                    *)
Saturated(n) == IF n <= MaxDeliveries THEN n ELSE MaxDeliveries + 1

Note(kind, es) == [notes EXCEPT ![kind] = @ \cup es]
Fault == faults < MaxFaults /\ faults' = faults + 1

Init ==
  /\ conf \in Configs
  /\ log = <<>> /\ lo = 0 /\ group = FALSE /\ cursor = 0
  /\ pel = <<>> /\ idle = {} /\ marks = {}
  /\ up = [i \in Instances |-> "up"]
  /\ known = [i \in Instances |-> FALSE]
  /\ ready = [i \in Instances |-> FALSE]
  /\ lastId = [i \in Instances |-> 0]
  /\ task = [i \in Instances |-> Fresh(i)]
  /\ fanned = [i \in Instances |-> <<>>]
  /\ queued = [i \in Instances |-> {}]
  /\ faults = 0 /\ lost = FALSE
  /\ runs = [i \in Instances |-> [e \in Events |-> 0]]
  /\ total = [e \in Events |-> 0]
  /\ start = [i \in Instances |-> 0]
  /\ seen = [i \in Instances |-> {}]
  /\ notes = [k \in {"published", "run", "echoed", "parked", "dropped", "unrun", "excused", "gap"} |-> {}]

-----------------------------------------------------------------------------
(* Publishing *)

(* XGROUP CREATE id=0 MKSTREAM unless the instance has done it before. *)
EnsureGroup(i) ==
  /\ ready' = [ready EXCEPT ![i] = TRUE]
  /\ known' = [known EXCEPT ![i] = TRUE]
  /\ group' = (group \/ ~ready[i])
  /\ cursor' = cursor

(* _remember_fanout: the event becomes an echo to drop; the oldest goes. *)
Remembered(i, e) ==
  LET s == IF Contains(fanned[i], e) THEN fanned[i] ELSE Append(fanned[i], e)
  IN IF Len(s) > EchoCap THEN Tail(s) ELSE s

Evicted(i, e) == ToSet(fanned[i]) \ ToSet(Remembered(i, e))

(* XADD, with MAXLEN ~ unless retention is set: the trim is approximate.    *)
Xadd(e) ==
  /\ Len(log) < MaxLog
  /\ log' = Append(log, e)
  /\ \E n \in {lo} \cup {k \in {Len(log) + 1 - MaxLen} : k > lo} :
       /\ conf.retention => n = lo
       /\ lo' = n

(* RedisStreamsBackend.publish, run as a task of its own by BusCore: it     *)
(* adds the entry, or fails and only local dispatch remains.                *)
BackendPublish(i, e) ==
  \/ /\ Xadd(e)
     /\ IF Grouped THEN EnsureGroup(i) ELSE UNCHANGED <<ready, known, group, cursor>>
     /\ UNCHANGED faults
  \/ /\ Fault
     /\ UNCHANGED <<log, lo, ready, known, group, cursor>>

(* BusCore.publish: remember the fan-out, hand the envelope to the backend, *)
(* queue it for the local workers.                                          *)
Publish(i, e) ==
  /\ up[i] = "up" /\ e \notin notes.published
  /\ fanned' = [fanned EXCEPT ![i] = Remembered(i, e)]
  /\ queued' = [queued EXCEPT ![i] = @ \cup {e}]
  /\ notes' = [Note("published", {e}) EXCEPT !.excused = @ \cup Evicted(i, e)]
  /\ BackendPublish(i, e)
  /\ UNCHANGED <<conf, pel, idle, marks, up, lastId, task, lost, runs, total, heard>>

(* The outbox relay publishes a row again: same id, no local dispatch.      *)
Relay(i, e) ==
  /\ up[i] = "up" /\ e \in notes.published
  /\ fanned' = [fanned EXCEPT ![i] = Remembered(i, e)]
  /\ notes' = [notes EXCEPT !.excused = @ \cup Evicted(i, e) \cup (IF Grouped THEN {} ELSE {e})]
  /\ BackendPublish(i, e)
  /\ UNCHANGED <<conf, pel, idle, marks, up, lastId, task, queued, lost, runs, total, heard>>

(* A local worker runs the handlers of a queued envelope.                   *)
LocalDispatch(i, e) ==
  /\ up[i] /= "down" /\ e \in queued[i]
  /\ queued' = [queued EXCEPT ![i] = @ \ {e}]
  /\ runs' = [runs EXCEPT ![i][e] = Capped(@ + 1)]
  /\ notes' = Note("run", {e})
  /\ UNCHANGED <<conf, redis, up, known, ready, lastId, task, fanned, budget, total, heard>>

-----------------------------------------------------------------------------
(* One entry at a time through _handle_message and _park_to_dlq *)

Ev(n) == log[n]

(* Where a task is before the head of its batch: an undecodable entry is    *)
(* acknowledged at once, one over the delivery limit is parked.             *)
Before(b, over) ==
  IF b = <<>> THEN Looping
  ELSE [pc    |-> IF Ev(Head(b)) \in Undecodable THEN "ack"
                  ELSE IF Head(b) \in over THEN "park" ELSE "get",
        batch |-> b, over |-> over]

At(i, t, pc) == up[i] /= "down" /\ task[i][t].pc = pc /\ task[i][t].batch /= <<>>
EvOf(i, t) == Ev(Head(task[i][t].batch))
Move(i, t, pc) == task' = [task EXCEPT ![i][t].pc = pc]
Skip(i, t) == Before(Tail(task[i][t].batch), task[i][t].over)

(* Does another task stand between its dedup check and its dedup mark?      *)
Overlaps(i, t) ==
  \E j \in Instances, u \in Tasks :
    /\ <<j, u>> /= <<i, t>>
    /\ At(j, u, "run") \/ At(j, u, "mark")
    /\ EvOf(j, u) = EvOf(i, t)

(* GET of the dedup key: seen, acknowledge; not seen, dispatch.             *)
CheckDedup(i, t) ==
  /\ At(i, t, "get")
  /\ Move(i, t, IF EvOf(i, t) \in marks THEN "ack" ELSE "run")
  /\ notes' = Note("excused", IF EvOf(i, t) \notin marks /\ Overlaps(i, t)
                              THEN {EvOf(i, t)} ELSE {})
  /\ UNCHANGED <<conf, redis, up, known, ready, lastId, fanned, queued, budget, runs, total, heard>>

(* Mutant of OnTransportEnvelope: an echo is run like any other envelope.   *)
OnTransportEnvelopeEchoing(i, e) ==
  IF up[i] = "closing" THEN
    /\ notes' = Note("dropped", {e})
    /\ UNCHANGED <<fanned, runs, total>>
  ELSE
    /\ runs' = [runs EXCEPT ![i][e] = Capped(@ + 1)]
    /\ total' = [total EXCEPT ![e] = Capped(@ + 1)]
    /\ notes' = Note("run", {e})
    /\ UNCHANGED fanned

(* BusCore._on_transport_envelope: drop an echo, drop everything while      *)
(* closing, else run the handlers inline.                                   *)
OnTransportEnvelope(i, e) ==
  IF Contains(fanned[i], e) THEN
    /\ fanned' = [fanned EXCEPT ![i] = SelectSeq(@, LAMBDA x : x /= e)]
    /\ notes' = Note("echoed", {e})
    /\ UNCHANGED <<runs, total>>
  ELSE IF up[i] = "closing" THEN
    /\ notes' = Note("dropped", {e})
    /\ UNCHANGED <<fanned, runs, total>>
  ELSE
    /\ runs' = [runs EXCEPT ![i][e] = Capped(@ + 1)]
    /\ total' = [total EXCEPT ![e] = Capped(@ + 1)]
    /\ notes' = Note("run", {e})
    /\ UNCHANGED fanned

(* Mutant of Dispatch: a callback that raises is taken for success.         *)
DispatchSwallowing(i, t) ==
  /\ At(i, t, "run")
  /\ IF EvOf(i, t) \in Failing
     THEN Move(i, t, "mark") /\ UNCHANGED <<fanned, runs, total, notes>>
     ELSE Move(i, t, "mark") /\ OnTransportEnvelope(i, EvOf(i, t))
  /\ UNCHANGED <<conf, redis, up, known, ready, lastId, queued, budget, heard>>

(* The callback returns and the mark is next, or raises and the entry stays *)
(* pending.                                                                 *)
Dispatch(i, t) ==
  /\ At(i, t, "run")
  /\ IF EvOf(i, t) \in Failing /\ ~Contains(fanned[i], EvOf(i, t)) /\ up[i] = "up"
     THEN task' = [task EXCEPT ![i][t] = Skip(i, t)] /\ UNCHANGED <<fanned, runs, total, notes>>
     ELSE Move(i, t, "mark") /\ OnTransportEnvelope(i, EvOf(i, t))
  /\ UNCHANGED <<conf, redis, up, known, ready, lastId, queued, budget, heard>>

(* Mutant of Mark: the dedup key is never written.                          *)
MarkNothing(i, t) ==
  /\ At(i, t, "mark")
  /\ Move(i, t, "ack")
  /\ UNCHANGED <<conf, redis, up, known, ready, lastId, fanned, queued, budget, ghost>>

(* SET of the dedup key, with a TTL (MarkExpires); it is best effort.       *)
Mark(i, t) ==
  /\ At(i, t, "mark")
  /\ Move(i, t, "ack")
  /\ \/ /\ marks' = marks \cup {EvOf(i, t)}
        /\ UNCHANGED <<faults, notes>>
     \/ /\ Fault
        /\ notes' = Note("excused", {EvOf(i, t)})
        /\ UNCHANGED marks
  /\ UNCHANGED <<conf, log, lo, group, cursor, pel, idle, up, known, ready, lastId, fanned, queued,
                 lost, runs, total, heard>>

Unpend(ns) ==
  /\ pel' = [n \in DOMAIN pel \ ns |-> pel[n]]
  /\ idle' = idle \ ns

(* XACK, best effort, and on to the next entry of the batch.                *)
Ack(i, t) ==
  /\ At(i, t, "ack")
  /\ task' = [task EXCEPT ![i][t] = Skip(i, t)]
  /\ \/ Unpend({Head(task[i][t].batch)}) /\ UNCHANGED faults
     \/ Fault /\ UNCHANGED <<pel, idle>>
  /\ UNCHANGED <<conf, log, lo, group, cursor, marks, up, known, ready, lastId, fanned, queued,
                 lost, ghost>>

(* Mutant of Park: a parked entry is not acknowledged.                      *)
ParkUnacked(i, t) ==
  /\ At(i, t, "park")
  /\ task' = [task EXCEPT ![i][t] = Skip(i, t)]
  /\ notes' = Note("parked", {EvOf(i, t)})
  /\ UNCHANGED <<conf, redis, up, known, ready, lastId, fanned, queued, budget, runs, total, heard>>

(* _park_to_dlq: on_dlq, whose failure is isolated, then XACK.              *)
Park(i, t) ==
  /\ At(i, t, "park")
  /\ Move(i, t, "ack")
  /\ notes' = Note("parked", {EvOf(i, t)})
  /\ UNCHANGED <<conf, redis, up, known, ready, lastId, fanned, queued, budget, runs, total, heard>>

-----------------------------------------------------------------------------
(* The consumer loop, the sweeper and the trimmer *)

Available(i, t) == up[i] /= "down" /\ task[i][t].pc = "loop"

(* SCAN finds the stream, or streams= names it: join its group, or start at its tail; when the    *)
(* tail cannot be resolved the cursor is the sentinel.                      *)
RefreshStreams(i) ==
  /\ Available(i, "consumer") /\ ~known[i]
  /\ conf.explicit \/ Len(log) > lo \/ group
  /\ IF Grouped
     THEN EnsureGroup(i) /\ UNCHANGED <<lastId, faults, start, notes>>
     ELSE /\ known' = [known EXCEPT ![i] = TRUE]
          /\ start' = [start EXCEPT ![i] = Len(log)]
          /\ \/ lastId' = [lastId EXCEPT ![i] = Len(log)] /\ UNCHANGED <<faults, notes>>
             \/ lastId' = [lastId EXCEPT ![i] = Dollar] /\ Fault /\ notes' = Note("gap", {i})
          /\ UNCHANGED <<group, cursor, ready>>
  /\ UNCHANGED <<conf, log, lo, pel, idle, marks, up, task, fanned, queued, lost,
                 runs, total, seen>>

(* What the stream holds beyond `from`, in its order.                       *)
Unread(from) ==
  LET first == IF from < lo THEN lo ELSE from
  IN [k \in 1..(Len(log) - first) |-> first + k]

(* XREADGROUP ">": what the group has not given out becomes pending here.   *)
ReadGroup(i) ==
  /\ Grouped /\ Available(i, "consumer") /\ known[i] /\ group /\ cursor < Len(log)
  /\ LET b == Unread(cursor) IN
       /\ task' = [task EXCEPT ![i]["consumer"] = Before(b, {})]
       /\ pel' = [n \in DOMAIN pel \cup ToSet(b) |->
                    IF n \in ToSet(b) THEN [owner |-> i, n |-> 1] ELSE pel[n]]
  /\ cursor' = Len(log)
  /\ UNCHANGED <<conf, log, lo, group, idle, marks, up, known, ready, lastId, fanned, queued, budget, ghost>>

(* A command of the loop raises, or the group is gone (NOGROUP): the rest   *)
(* of the batch stays pending and _groups_ready is cleared.                 *)
ConsumerFails(i) ==
  /\ Grouped /\ up[i] /= "down" /\ known[i]
  /\ \/ task[i]["consumer"].pc \in {"loop", "get"} /\ Fault
     \/ Available(i, "consumer") /\ ~group /\ ready[i] /\ UNCHANGED faults
  /\ task' = [task EXCEPT ![i]["consumer"] = Looping]
  /\ ready' = [ready EXCEPT ![i] = FALSE]
  /\ UNCHANGED <<conf, redis, up, known, lastId, fanned, queued, lost, ghost>>

(* XREAD from the cursor.  The sentinel stands for wherever the tail was    *)
(* when the command that returned something was sent.                       *)
ReadBroadcast(i) ==
  /\ ~Grouped /\ Available(i, "consumer") /\ known[i]
  /\ \E from \in IF lastId[i] = Dollar THEN start[i]..Len(log) ELSE {lastId[i]} :
       /\ Unread(from) /= <<>>
       /\ task' = [task EXCEPT ![i]["consumer"] = [Looping EXCEPT !.pc = "read", !.batch = Unread(from)]]
  /\ UNCHANGED <<conf, redis, up, known, ready, lastId, fanned, queued, budget, ghost>>

(* Mutant of LastId: the cursor jumps to the end of the stream.             *)
LastIdAtTail(i) == Len(log)

(* The cursor while an entry is dispatched: the entry itself.               *)
LastId(i) == Head(task[i]["consumer"].batch)

(* One entry of a broadcast batch: the cursor moves first, then the entry   *)
(* is dispatched; whatever its callback does it is not read again.          *)
DispatchBroadcastEntry(i) ==
  /\ At(i, "consumer", "read")
  /\ lastId' = [lastId EXCEPT ![i] = LastId(i)]
  /\ LET rest == Tail(task[i]["consumer"].batch) IN
       task' = [task EXCEPT ![i]["consumer"] = IF rest = <<>> THEN Looping ELSE [@ EXCEPT !.batch = rest]]
  /\ seen' = [seen EXCEPT ![i] = @ \cup {Head(task[i]["consumer"].batch)}]
  /\ LET e == EvOf(i, "consumer") IN
       IF \/ e \in Undecodable
          \/ e \in Failing /\ ~Contains(fanned[i], e) /\ up[i] = "up"
       THEN UNCHANGED <<fanned, runs, total, notes>>
       ELSE OnTransportEnvelope(i, e)
  /\ UNCHANGED <<conf, redis, up, known, ready, queued, budget, start>>

(* XPENDING IDLE: which entries are over the limit.                         *)
SweepPending(i) ==
  /\ Grouped /\ Available(i, "sweeper") /\ known[i] /\ group /\ idle /= {}
  /\ task' = [task EXCEPT ![i]["sweeper"] =
                [pc |-> "claim", batch |-> <<>>,
                 over |-> IF MaxDeliveries = 0 THEN {}
                          ELSE {n \in idle : pel[n].n > MaxDeliveries}]]
  /\ UNCHANGED <<conf, redis, up, known, ready, lastId, fanned, queued, budget, ghost>>

(* Entries in the order of the stream.                                      *)
InOrder(ns) ==
  [k \in 1..Cardinality(ns) |-> CHOOSE n \in ns : Cardinality({m \in ns : m < n}) = k - 1]

(* XAUTOCLAIM from 0-0: idle entries become this consumer's, trimmed ones   *)
(* leave the PEL.                                                           *)
SweepClaim(i) ==
  /\ up[i] /= "down" /\ task[i]["sweeper"].pc = "claim" /\ group
  /\ LET b == InOrder({n \in idle : n > lo}) IN
       /\ pel' = [n \in {k \in DOMAIN pel : k > lo \/ k \notin idle} |->
                    IF n \in idle THEN [owner |-> i, n |-> Saturated(pel[n].n + 1)] ELSE pel[n]]
       /\ task' = [task EXCEPT ![i]["sweeper"] = Before(b, task[i]["sweeper"].over)]
  /\ idle' = {}
  /\ UNCHANGED <<conf, log, lo, group, cursor, marks, up, known, ready, lastId, fanned, queued, budget, ghost>>

(* The pass raises: what it claimed stays pending for a later one.          *)
SweepFails(i) ==
  /\ Grouped /\ up[i] /= "down"
  /\ \/ task[i]["sweeper"].pc \in {"claim", "get"} /\ Fault
     \/ task[i]["sweeper"].pc = "claim" /\ ~group /\ UNCHANGED faults
  /\ task' = [task EXCEPT ![i]["sweeper"] = Looping]
  /\ UNCHANGED <<conf, redis, up, known, ready, lastId, fanned, queued, lost, ghost>>

(* XTRIM MINID by a consuming instance, when retention is set.              *)
RetentionTrim(i) ==
  /\ conf.retention /\ up[i] /= "down" /\ known[i] /\ lo < Len(log) /\ Fault
  /\ lo' = lo + 1
  /\ UNCHANGED <<conf, log, group, cursor, pel, idle, marks, local, lost, ghost>>

-----------------------------------------------------------------------------
(* The environment *)

Held(n) ==
  \E j \in Instances, u \in Tasks : up[j] /= "down" /\ Contains(task[j][u].batch, n)

(* A pending entry reaches min_idle_time: while somebody works on it, by a  *)
(* slow callback; between the two commands of a sweep, by bad luck.         *)
BecomesIdle(n) ==
  /\ n \in DOMAIN pel \ idle
  /\ IF Held(n) \/ \E i \in Instances : task[i]["sweeper"].pc = "claim"
     THEN Fault ELSE UNCHANGED faults
  /\ idle' = idle \cup {n}
  /\ UNCHANGED <<conf, log, lo, group, cursor, pel, marks, local, lost, ghost>>

RanUnmarked(i) == {EvOf(i, t) : t \in {u \in Tasks : At(i, u, "mark")}}

Stop(i) ==
  /\ up' = [up EXCEPT ![i] = "down"]
  /\ known' = [known EXCEPT ![i] = FALSE]
  /\ ready' = [ready EXCEPT ![i] = FALSE]
  /\ lastId' = [lastId EXCEPT ![i] = 0]
  /\ task' = [task EXCEPT ![i] = Fresh(i)]
  /\ fanned' = [fanned EXCEPT ![i] = <<>>]
  /\ queued' = [queued EXCEPT ![i] = {}]
  /\ runs' = [runs EXCEPT ![i] = [e \in Events |-> 0]]
  /\ start' = [start EXCEPT ![i] = 0]
  /\ seen' = [seen EXCEPT ![i] = {}]
  /\ notes' = [notes EXCEPT !.excused = @ \cup RanUnmarked(i),
                            !.unrun = @ \cup queued[i], !.gap = @ \ {i}]

Crash(i) ==
  /\ up[i] /= "down" /\ Fault
  /\ Stop(i)
  /\ UNCHANGED <<conf, redis, lost, total>>

(* BusCore.close begins: publish is refused and envelopes off the transport *)
(* are dropped, while the backend still consumes.                           *)
BeginClose(i) ==
  /\ MayClose /\ up[i] = "up" /\ Fault
  /\ up' = [up EXCEPT ![i] = "closing"]
  /\ UNCHANGED <<conf, redis, known, ready, lastId, task, fanned, queued, lost, ghost>>

(* RedisStreamsBackend.close cancels the tasks; what is still queued is     *)
(* dropped_on_close.                                                        *)
CloseBackend(i) ==
  /\ up[i] = "closing"
  /\ Stop(i)
  /\ UNCHANGED <<conf, redis, budget, total>>

(* start_consumer of a new process.                                         *)
StartConsumer(i) ==
  /\ up[i] = "down"
  /\ up' = [up EXCEPT ![i] = "up"]
  /\ UNCHANGED <<conf, redis, known, ready, lastId, task, fanned, queued, budget, ghost>>

(* The TTL of a dedup key ends, or Redis evicts the key: a delivery still   *)
(* to come, of a pending entry or of a row relayed again, is not recognised.*)
MarkExpires(e) ==
  /\ e \in marks /\ Fault
  /\ marks' = marks \ {e}
  /\ notes' = Note("excused", {e})
  /\ UNCHANGED <<conf, log, lo, group, cursor, pel, idle, local, lost, runs, total, heard>>

(* Redis comes back empty.                                                  *)
RedisLosesData ==
  /\ ~lost /\ lost' = TRUE /\ Fault
  /\ lo' = Len(log) /\ group' = FALSE /\ cursor' = 0
  /\ pel' = <<>> /\ idle' = {} /\ marks' = {}
  /\ notes' = [notes EXCEPT !.excused = Events]
  /\ UNCHANGED <<conf, log, local, runs, total, heard>>

Next ==
  \/ \E i \in Publishers, e \in Events :
       Publish(i, e) \/ Relay(i, e) \/ LocalDispatch(i, e)
  \/ \E i \in Instances, t \in Tasks :
       CheckDedup(i, t) \/ Dispatch(i, t) \/ Mark(i, t) \/ Ack(i, t) \/ Park(i, t)
  \/ \E i \in Instances :
       \/ RefreshStreams(i) \/ ReadGroup(i) \/ ConsumerFails(i)
       \/ ReadBroadcast(i) \/ DispatchBroadcastEntry(i)
       \/ SweepPending(i) \/ SweepClaim(i) \/ SweepFails(i) \/ RetentionTrim(i)
       \/ Crash(i) \/ BeginClose(i) \/ CloseBackend(i) \/ StartConsumer(i)
  \/ \E n \in Entries : BecomesIdle(n)
  \/ \E e \in Events : MarkExpires(e)
  \/ RedisLosesData

(* The loops of a live process go on, an entry nobody works on grows old,   *)
(* and a process that is down is started again.                             *)
Fairness ==
  /\ \A i \in Instances, t \in Tasks :
       WF_vars(CheckDedup(i, t) \/ Dispatch(i, t) \/ Mark(i, t) \/ Ack(i, t) \/ Park(i, t))
  /\ \A i \in Instances :
       /\ WF_vars(RefreshStreams(i) \/ ReadGroup(i))
       /\ WF_vars(SweepPending(i) \/ SweepClaim(i))
       /\ WF_vars(StartConsumer(i) \/ CloseBackend(i))
  /\ \A n \in Entries : WF_vars(~Held(n) /\ BecomesIdle(n))

Spec == Init /\ [][Next]_vars
FairSpec == Spec /\ Fairness

-----------------------------------------------------------------------------
(* Properties *)

TypeOK ==
  /\ conf \in Configs /\ log \in Seq(Events) /\ lo \in 0..Len(log) /\ cursor \in 0..Len(log)
  /\ group \in BOOLEAN /\ DOMAIN pel \subseteq 1..cursor /\ idle \subseteq DOMAIN pel
  /\ marks \subseteq Events
  /\ \A i \in Instances, t \in Tasks : ToSet(task[i][t].batch) \subseteq 1..Len(log)

(* The group has been given entry n and nobody owes it an acknowledgement.  *)
Settled(n) == n <= cursor /\ n \notin DOMAIN pel

Run(e) == e \in notes.run \/ \E i \in Instances : e \in queued[i]

(* An acknowledged entry has been run, waits in its publisher's queue, was  *)
(* parked or cannot be decoded (_handle_message: "at-least-once").          *)
AtLeastOnce ==
  Grouped /\ ~lost =>
    \A n \in 1..Len(log) :
      Settled(n) /\ n > lo => Run(Ev(n)) \/ Ev(n) \in Undecodable \cup notes.parked

(* An acknowledged entry was run off the transport, was the echo of its own *)
(* reader's publish, was parked, cannot be decoded, or was dropped by a     *)
(* closing bus: nothing else is acknowledged, whatever fails in between.    *)
AckedIsAccounted ==
  Grouped /\ ~lost =>
    \A n \in 1..Len(log) :
      Settled(n) /\ n > lo =>
        \/ total[Ev(n)] > 0
        \/ Ev(n) \in Undecodable \cup notes.echoed \cup notes.parked \cup notes.dropped

(* Handlers run off the transport twice for one event only if two tasks     *)
(* were between check and mark at once, the mark failed, its process died   *)
(* before writing it, the key has expired or been evicted since, or Redis   *)
(* lost its data (the causes the module's docstring names): every other     *)
(* redelivery is caught by the dedup key.  A fan-out record that no longer  *)
(* holds the event excuses too: the publisher takes it for a foreign one.   *)
DuplicatesAreExcused ==
  Grouped => \A e \in Events : total[e] < 2 \/ e \in notes.excused

(* "local subscribers see each publish exactly once in-process": a process  *)
(* that published an event does not run it again off the transport.         *)
OnceInProcess ==
  \A i \in Instances, e \in Events : runs[i][e] < 2 \/ e \in notes.excused

(* A broadcast reader skips no entry added after it discovered the stream,  *)
(* unless it could not resolve the tail or the entry was trimmed.           *)
BroadcastGapless ==
  \A i \in Instances :
    ~Grouped /\ known[i] /\ i \notin notes.gap =>
      \A n \in 1..Len(log) : start[i] < n /\ n <= lastId[i] => n \in seen[i] \/ n <= lo

(* Every entry is acknowledged in the end: by its reader, or by the sweeper *)
(* of any process after a crash, an error or a failed acknowledgement; one  *)
(* whose callback keeps failing is parked.                                  *)
EntriesSettle ==
  \A n \in Entries :
    (Grouped /\ n <= Len(log)) ~> (Settled(n) \/ n <= lo \/ lost)
=============================================================================
