----------------------------- MODULE OutboxRelay -----------------------------
(***************************************************************************)
(* The durable producer outbox: SqliteOutbox of outbox.py and the write-   *)
(* ahead, relay and shutdown code of BusCore (core.py) around it, for a    *)
(* publish_only bus with a transport backend and unbounded local queues.   *)
(* Local dispatch is the subject of BusCore and does not touch this state; *)
(* close() waits for it for a while, which is all that is left of it here. *)
(*                                                                         *)
(* Every store operation is a job of the outbox's single-thread executor.  *)
(* A coroutine that awaits one goes on in the step that runs the job: the  *)
(* rows on disk are only seen through the executor, in the same order.     *)
(* Time is counted in relay intervals.                                     *)
(***************************************************************************)
EXTENDS Integers, Sequences, FiniteSets, FiniteSetsExt

CONSTANTS
  Envelopes,     \* the envelopes, named by their event_id
  Calls,         \* the publish() calls
  EnvOf,         \* the envelope of each call
  Undecodable,   \* the envelopes whose row does not decode when it is read
  Poison,        \* the envelopes the backend never accepts
  MaxRows,       \* max_rows
  Overflows,     \* the values that overflow may have
  RelayBatch,    \* relay_batch
  MaxBackoff,    \* relay_max_backoff, in relay intervals
  MaxCrashes,    \* bound: crashes of the process
  MaxFaults,     \* bound: store operations that raise (disk full, say)
  Ageing,        \* do rows reach max_age?
  Closes,        \* is close() called?
  Restarts,      \* is start() called again on a bus that was closed?
  Relay,         \* the task that runs _relay_once
  Closer,        \* the task that runs close()
  None           \* nobody

ASSUME OutboxAssumption ==
  /\ IsFiniteSet(Calls) /\ IsFiniteSet(Envelopes)
  /\ EnvOf \in [Calls -> Envelopes]
  /\ Undecodable \subseteq Envelopes
  /\ Poison \subseteq Envelopes
  /\ Cardinality({Relay, Closer, None}) = 3
  /\ Calls \cap {Relay, Closer, None} = {} /\ None \notin Envelopes
  /\ {Ageing, Closes, Restarts} \subseteq BOOLEAN
ASSUME OutboxSizes ==
  /\ MaxRows \in Nat \ {0}
  /\ Overflows # {} /\ Overflows \subseteq {"reject_new", "drop_oldest"}
  /\ RelayBatch \in Nat \ {0}
  /\ MaxBackoff \in Nat \ {0}
  /\ MaxCrashes \in Nat
  /\ MaxFaults \in Nat

VARIABLES
  rows,      \* the table evb_outbox: env, created_at as a rank, intervals until
             \* next_try_at, and whether the row is older than max_age
  store,     \* SqliteOutbox: its overflow, alive until close(), _conn is open,
             \* _pending, and the counters
  jobs,      \* the executor's work items, oldest first
  pub,       \* each publish() call
  carrier,   \* each _backend_publish in progress, those of the calls and the
             \* relay's: at the backend, or at the ack or nack of the row
  relay,     \* _relay_once: where it waits, the rows it has yet to look at, and
             \* whether it ends after this pass
  memory,    \* _outbox_inflight and _outbox_attempts
  life,      \* how far start() and close() have come, and the publish tasks
             \* close() waits for
  world,     \* the backend and the failures: confirmed publishes, is it up for
             \* good, crashes and faults so far
  lost       \* history: envelopes whose row the store gave up, those of them whose
             \* row went in a statement the process died in, and how many the
             \* counters of crashed processes counted

vars == <<rows, store, jobs, pub, carrier, relay, memory, life, world, lost>>

------------------------------------------------------------------------------
(* A fresh process.                                                        *)

NewStore(overflow) ==
  [overflow |-> overflow, alive |-> TRUE, open |-> FALSE, pending |-> 0,
   rejected |-> 0, dropped |-> 0, expired |-> 0, corrupt |-> 0]

NoCarrier == [pc |-> "none", env |-> None]

NoRelay == [pc |-> "off", batch |-> {}, last |-> FALSE]

Sleeping == [NoRelay EXCEPT !.pc = "sleep"]

Fresh == [inflight |-> {}, attempts |-> [e \in Envelopes |-> 0]]

Idle == [at |-> "new", waited |-> {}]

Init ==
  /\ rows = {}
  /\ \E overflow \in Overflows : store = NewStore(overflow)
  /\ jobs = << >>
  /\ pub = [c \in Calls |-> "new"]
  /\ carrier = [k \in Calls \cup {Relay} |-> NoCarrier]
  /\ relay = NoRelay
  /\ memory = Fresh
  /\ life = Idle
  /\ world = [confirmed |-> {}, up |-> FALSE, crashes |-> 0, faults |-> 0]
  /\ lost = [envs |-> {}, unseen |-> {}, counted |-> 0]

------------------------------------------------------------------------------
(* SqliteOutbox, on the rows R and the store S after _ensure_conn.         *)

RowEnvs(R) == {r.env : r \in R}

\* _ensure_conn: the connection opens lazily and loads the pending count.
EnsureConn(R, S) ==
  IF S.open THEN S ELSE [S EXCEPT !.open = TRUE, !.pending = Cardinality(R)]

Oldest(R) == CHOOSE r \in R : \A q \in R : r.at <= q.at

\* INSERT OR IGNORE of a row that is due at once.
Insert(R, e) ==
  IF e \in RowEnvs(R)
  THEN R
  ELSE R \cup {[env |-> e, at |-> 1 + Max({r.at : r \in R} \cup {0}),
                wait |-> 0, old |-> FALSE]}

Delete(R, e) == {r \in R : r.env # e}

\* _sync_append on a store that is at max_rows, and on one that is not.
Refuses(S) == S.pending >= MaxRows /\ S.overflow = "reject_new"

AppendRoom(R, S) ==
  IF S.pending >= MaxRows /\ R # {} THEN R \ {Oldest(R)} ELSE R

\* Mutant of AppendStore: the row that made room is not counted as dropped.
AppendStoreUncounted(R, S, e) ==
  [S EXCEPT !.pending = Cardinality(Insert(AppendRoom(R, S), e))]

AppendStore(R, S, e) ==
  LET room == AppendRoom(R, S)
      gone == Cardinality(R) - Cardinality(room)
      new  == Cardinality(Insert(room, e)) - Cardinality(room)
  IN [S EXCEPT !.pending = @ - gone + new, !.dropped = @ + gone]

\* Mutant of AckStore: the row is taken to be there.
AckStoreBlind(R, S, e) == [S EXCEPT !.pending = @ - 1]

\* _sync_ack.
AckStore(R, S, e) ==
  [S EXCEPT !.pending = @ - (Cardinality(R) - Cardinality(Delete(R, e)))]

\* _sync_nack: the row, if it is still there, waits for n intervals.
Nack(R, e, n) == {IF r.env = e THEN [r EXCEPT !.wait = n] ELSE r : r \in R}

\* _sync_due: expired rows are deleted; then the oldest rows that are due are
\* read, and those that do not decode are deleted.
Purged(R) == {r \in R : ~r.old}

Batch(R) ==
  LET due == {r \in Purged(R) : r.wait = 0}
  IN {r \in due : Cardinality({q \in due : q.at < r.at}) < RelayBatch}

Unreadable(R) == {r \in Batch(R) : r.env \in Undecodable}

DueRows(R) == Purged(R) \ Unreadable(R)

DueStore(R, S) ==
  LET expired == Cardinality(R) - Cardinality(Purged(R))
      corrupt == Cardinality(Unreadable(R))
  IN [S EXCEPT !.pending = @ - expired - corrupt,
               !.expired = @ + expired,
               !.corrupt = @ + corrupt]

------------------------------------------------------------------------------
(* The statements of a job.  Each commits when it is run (isolation_level   *)
(* None), and what it deletes is counted after that.                       *)

Count(S, dropped, expired, corrupt) ==
  [S EXCEPT !.pending = @ - dropped - expired - corrupt,
            !.dropped = @ + dropped, !.expired = @ + expired, !.corrupt = @ + corrupt]

\* The table and the store between two statements of the job j.
Interrupted(j) ==
  LET S    == EnsureConn(rows, store)
      room == AppendRoom(rows, S)
      old  == Cardinality(rows) - Cardinality(Purged(rows))
  IN {[rows |-> rows, store |-> store], [rows |-> rows, store |-> S]}
     \cup (IF j.op = "append" /\ ~Refuses(S)
           THEN {[rows |-> room, store |-> Count(S, Cardinality(rows) - Cardinality(room), 0, 0)]}
           ELSE {})
     \cup (IF j.op = "due"
           THEN {[rows |-> Purged(rows) \ bad, store |-> Count(S, 0, old, Cardinality(bad))]
                   : bad \in {{r \in Unreadable(rows) : r.at < n} : n \in {0} \cup {r.at : r \in Unreadable(rows)}}}
           ELSE {})

\* What the next DELETE of j takes out of the table R, where it gives rows up.
NextDelete(j, R) ==
  CASE j.op = "append" /\ ~Refuses(EnsureConn(rows, store)) -> R \ AppendRoom(rows, EnsureConn(rows, store))
    [] j.op = "due" /\ Purged(R) # R -> R \ Purged(R)
    [] j.op = "due" /\ Purged(R) = R ->
         {r \in R : r \in Unreadable(rows) /\ \A q \in R \cap Unreadable(rows) : r.at <= q.at}
    [] OTHER -> {}

------------------------------------------------------------------------------
(* The executor.  A cancelled work item stays in the queue and is skipped, *)
(* unless it is already running: then only its result is.                  *)

Job(op, by, e, n) == [op |-> op, by |-> by, env |-> e, wait |-> n]

Submitted(op, by, e, n) == Append(jobs, Job(op, by, e, n))

\* The queues that may be left when the task k is cancelled.
WithoutJobOf(k) ==
  {[i \in DOMAIN jobs |-> IF jobs[i].by = k THEN Job("void", None, None, 0)
                                            ELSE jobs[i]]}
    \cup IF jobs # << >> /\ Head(jobs).by = k
         THEN {[jobs EXCEPT ![1].by = None]}
         ELSE {}

\* The job at the head of the queue is op, and it is run.
Runs(op) ==
  /\ jobs # << >>
  /\ Head(jobs).op = op

------------------------------------------------------------------------------
(* _relay_once.  Each operator says where the relay goes next, with js the *)
(* queue of jobs and mem the memory it leaves.                             *)

\* _stopping.
Stopping == life.at \notin {"new", "running", "draining"}

\* The pass is over: _relay_loop sleeps, unless it is to stop; the last pass
\* is one whose task ends with it.
AfterPass(last) == IF last \/ Stopping THEN NoRelay ELSE Sleeping

\* The finally block: refresh the stats.  A store that is closed raises.
ToStats(js, mem, last) ==
  /\ memory' = mem
  /\ carrier' = [carrier EXCEPT ![Relay] = NoCarrier]
  /\ IF store.alive
     THEN /\ relay' = [pc |-> "stats", batch |-> {}, last |-> last]
          /\ jobs' = Append(js, Job("stats", Relay, None, 0))
     ELSE /\ relay' = AfterPass(last)
          /\ jobs' = js

\* Mutant of NextRow: rows in flight are not skipped.
NextRowAny(js, mem, batch, last) ==
  IF batch = {}
  THEN ToStats(js, mem, last)
  ELSE /\ relay' = [pc |-> "carry", last |-> last, batch |-> batch \ {Oldest(batch)}]
       /\ carrier' = [carrier EXCEPT ![Relay] = [pc |-> "publish", env |-> Oldest(batch).env]]
       /\ memory' = [mem EXCEPT !.inflight = @ \cup {Oldest(batch).env}]
       /\ jobs' = js

\* The loop over the rows: skip those in flight, publish the first other one.
NextRow(js, mem, batch, last) ==
  LET free == {r \in batch : r.env \notin mem.inflight}
      next == Oldest(free)
  IN IF free = {}
     THEN ToStats(js, mem, last)
     ELSE /\ relay' = [pc |-> "carry", last |-> last,
                       batch |-> {r \in batch : r.at > next.at}]
          /\ carrier' = [carrier EXCEPT ![Relay] = [pc |-> "publish", env |-> next.env]]
          /\ memory' = [mem EXCEPT !.inflight = @ \cup {next.env}]
          /\ jobs' = js

\* The pass begins: it asks for the due rows.
BeginPass(last) ==
  IF store.alive
  THEN /\ relay' = [pc |-> "due", batch |-> {}, last |-> last]
       /\ jobs' = Submitted("due", Relay, None, 0)
       /\ UNCHANGED <<carrier, memory>>
  ELSE ToStats(jobs, memory, last)

\* Mutant of CancelPass: a cancelled publish stays in _outbox_inflight.
CancelPassLeaks ==
  \E js \in WithoutJobOf(Relay) :
    IF relay.pc \in {"off", "begin", "sleep", "stats"}
    THEN relay' = NoRelay /\ jobs' = js /\ UNCHANGED <<carrier, memory>>
    ELSE ToStats(js, memory, TRUE)

\* Mutant of CancelPass: the task waits on for stats that were cancelled.
CancelPassHangs ==
  \E js \in WithoutJobOf(Relay) :
    IF relay.pc \in {"off", "begin", "sleep", "stats"}
    THEN /\ relay' = IF relay.pc = "stats" THEN relay ELSE NoRelay
         /\ jobs' = js
         /\ UNCHANGED <<carrier, memory>>
    ELSE ToStats(js, [memory EXCEPT !.inflight = @ \ {carrier[Relay].env}], TRUE)

\* The task of the pass is cancelled: what it holds is released by the finally
\* blocks, the last of which still awaits the stats.
CancelPass ==
  \E js \in WithoutJobOf(Relay) :
    IF relay.pc \in {"off", "begin", "sleep", "stats"}
    THEN relay' = NoRelay /\ jobs' = js /\ UNCHANGED <<carrier, memory>>
    ELSE ToStats(js, [memory EXCEPT !.inflight = @ \ {carrier[Relay].env}], TRUE)

------------------------------------------------------------------------------
(* publish().                                                              *)

\* The append failed other than by OutboxFullError: no durability.
Degraded(c) ==
  /\ pub' = [pub EXCEPT ![c] = "degraded"]
  /\ carrier' = [carrier EXCEPT ![c] = [pc |-> "publish", env |-> EnvOf[c]]]

PublishClosed(c) ==
  /\ pub[c] = "new"
  /\ life.at \notin {"new", "running"}
  /\ pub' = [pub EXCEPT ![c] = "closed"]
  /\ UNCHANGED <<rows, store, jobs, carrier, relay, memory, life, world, lost>>

Publish(c) ==
  /\ pub[c] = "new"
  /\ life.at \in {"new", "running"}
  /\ IF store.alive
     THEN /\ pub' = [pub EXCEPT ![c] = "appending"]
          /\ jobs' = Submitted("append", c, EnvOf[c], 0)
          /\ UNCHANGED carrier
     ELSE Degraded(c) /\ UNCHANGED jobs
  /\ UNCHANGED <<rows, store, relay, memory, life, world, lost>>

\* The caller gives up on a publish() that awaits its append.
PublishCancelled(c) ==
  /\ pub[c] = "appending"
  /\ jobs' \in WithoutJobOf(c)
  /\ pub' = [pub EXCEPT ![c] = "cancelled"]
  /\ UNCHANGED <<rows, store, carrier, relay, memory, life, world, lost>>

\* The append is refused by a full store.
RunAppendRefused ==
  LET S == EnsureConn(rows, store)
      c == Head(jobs).by
  IN /\ Runs("append")
     /\ Refuses(S)
     /\ store' = [S EXCEPT !.rejected = @ + 1]
     /\ pub' = IF c = None THEN pub ELSE [pub EXCEPT ![c] = "rejected"]
     /\ jobs' = Tail(jobs)
     /\ UNCHANGED <<rows, carrier, relay, memory, life, world, lost>>

\* The append is done; the call, if it still waits, marks the envelope in
\* flight and spawns _backend_publish.
RunAppend ==
  LET S == EnsureConn(rows, store)
      c == Head(jobs).by
      e == Head(jobs).env
  IN /\ Runs("append")
     /\ ~Refuses(S)
     /\ rows' = Insert(AppendRoom(rows, S), e)
     /\ store' = AppendStore(rows, S, e)
     /\ lost' = [lost EXCEPT !.envs = @ \cup (RowEnvs(rows) \ RowEnvs(rows'))]
     /\ IF c = None
        THEN UNCHANGED <<pub, carrier, memory>>
        ELSE /\ pub' = [pub EXCEPT ![c] = "durable"]
             /\ memory' = [memory EXCEPT !.inflight = @ \cup {e}]
             /\ carrier' = [carrier EXCEPT ![c] = [pc |-> "publish", env |-> e]]
     /\ jobs' = Tail(jobs)
     /\ UNCHANGED <<relay, life, world>>

------------------------------------------------------------------------------
(* _backend_publish, by the task a call spawned or inside the relay.       *)

\* Mutant of Finish: a failed publish stays in _outbox_inflight.
FinishLeaks(k, ok, js, mem) ==
  LET free == IF ok THEN [mem EXCEPT !.inflight = @ \ {carrier[k].env}] ELSE mem
  IN IF k # Relay
     THEN /\ carrier' = [carrier EXCEPT ![k] = NoCarrier]
          /\ memory' = free
          /\ jobs' = js
          /\ UNCHANGED relay
     ELSE IF ok THEN NextRow(js, free, relay.batch, relay.last)
                ELSE ToStats(js, free, relay.last)

\* It returns ok: the finally block, and the relay goes on or breaks off.
Finish(k, ok, js, mem) ==
  LET free == [mem EXCEPT !.inflight = @ \ {carrier[k].env}]
  IN IF k # Relay
     THEN /\ carrier' = [carrier EXCEPT ![k] = NoCarrier]
          /\ memory' = free
          /\ jobs' = js
          /\ UNCHANGED relay
     ELSE IF ok THEN NextRow(js, free, relay.batch, relay.last)
                ELSE ToStats(js, free, relay.last)

\* _outbox_ack or _outbox_nack: not for an envelope that is not tracked, and
\* an error of the store ends it.
Record(k, op, ok, n, mem) ==
  LET e == carrier[k].env
  IN IF e \in mem.inflight /\ store.alive
     THEN /\ carrier' = [carrier EXCEPT ![k].pc = op]
          /\ jobs' = Submitted(op, k, e, n)
          /\ memory' = mem
          /\ UNCHANGED relay
     ELSE Finish(k, ok, jobs, mem)

BackendOk(k) ==
  LET e == carrier[k].env
  IN /\ carrier[k].pc = "publish"
     /\ e \notin Poison
     /\ world' = [world EXCEPT !.confirmed = @ \cup {e}]
     /\ Record(k, "ack", TRUE, 0, memory)
     /\ UNCHANGED <<rows, store, pub, life, lost>>

\* Mutant of Backoff: no relay_max_backoff.
BackoffUncapped(attempts) == 2^attempts

\* _backoff, in relay intervals.
Backoff(attempts) == IF 2^(attempts - 1) < MaxBackoff THEN 2^(attempts - 1) ELSE MaxBackoff

\* One more attempt; from MaxBackoff attempts on the backoff does not change.
Attempts(n) == IF n < MaxBackoff THEN n + 1 ELSE n

\* Mutant of BackendFails: the row of a failed publish is acknowledged.
BackendFailsAcks(k) ==
  /\ carrier[k].pc = "publish"
  /\ ~world.up \/ carrier[k].env \in Poison
  /\ Record(k, "ack", FALSE, 0, memory)
  /\ UNCHANGED <<rows, store, pub, life, world, lost>>

BackendFails(k) ==
  LET e == carrier[k].env
      n == Attempts(memory.attempts[e])
  IN /\ carrier[k].pc = "publish"
     /\ ~world.up \/ e \in Poison
     /\ Record(k, "nack", FALSE, Backoff(n),
               IF e \in memory.inflight THEN [memory EXCEPT !.attempts[e] = n] ELSE memory)
     /\ UNCHANGED <<rows, store, pub, life, world, lost>>

RunAck ==
  LET k == Head(jobs).by
      e == Head(jobs).env
      S == EnsureConn(rows, store)
  IN /\ Runs("ack")
     /\ rows' = Delete(rows, e)
     /\ store' = AckStore(rows, S, e)
     /\ IF k = None
        THEN jobs' = Tail(jobs) /\ UNCHANGED <<carrier, relay, memory>>
        ELSE Finish(k, TRUE, Tail(jobs), [memory EXCEPT !.attempts[e] = 0])
     /\ UNCHANGED <<pub, life, world, lost>>

RunNack ==
  LET k == Head(jobs).by
  IN /\ Runs("nack")
     /\ rows' = Nack(rows, Head(jobs).env, Head(jobs).wait)
     /\ store' = EnsureConn(rows, store)
     /\ IF k = None
        THEN jobs' = Tail(jobs) /\ UNCHANGED <<carrier, relay, memory>>
        ELSE Finish(k, FALSE, Tail(jobs), memory)
     /\ UNCHANGED <<pub, life, world, lost>>

------------------------------------------------------------------------------
(* The relay.                                                              *)

RelayBegins ==
  /\ relay.pc = "begin"
  /\ BeginPass(FALSE)
  /\ UNCHANGED <<rows, store, pub, life, world, lost>>

\* Time passes, for every row.
Later(R) == {[r EXCEPT !.wait = IF @ > 0 THEN @ - 1 ELSE 0] : r \in R}

\* The relay interval is over.
RelayWakes ==
  /\ relay.pc = "sleep"
  /\ rows' = Later(rows)
  /\ BeginPass(FALSE)
  /\ UNCHANGED <<store, pub, life, world, lost>>

RunDue ==
  LET S == EnsureConn(rows, store)
  IN /\ Runs("due")
     /\ rows' = DueRows(rows)
     /\ store' = DueStore(rows, S)
     /\ lost' = [lost EXCEPT !.envs = @ \cup (RowEnvs(rows) \ RowEnvs(rows'))]
     /\ IF Head(jobs).by = None
        THEN jobs' = Tail(jobs) /\ UNCHANGED <<carrier, relay, memory>>
        ELSE NextRow(Tail(jobs), memory, Batch(rows) \ Unreadable(rows), relay.last)
     /\ UNCHANGED <<pub, life, world>>

RunStats ==
  LET S == EnsureConn(rows, store)
  IN /\ Runs("stats")
     /\ store' = S
     /\ IF Head(jobs).by = None
        THEN UNCHANGED <<relay, memory>>
        ELSE /\ relay' = AfterPass(relay.last)
             /\ memory' = IF S.pending = 0
                          THEN [memory EXCEPT !.attempts = Fresh.attempts]
                          ELSE memory
     /\ jobs' = Tail(jobs)
     /\ UNCHANGED <<rows, pub, carrier, life, world, lost>>

\* A work item that was cancelled in time.
RunVoid ==
  /\ Runs("void")
  /\ jobs' = Tail(jobs)
  /\ UNCHANGED <<rows, store, pub, carrier, relay, memory, life, world, lost>>

\* A statement of a store operation raises: those before it are committed, and
\* its error is isolated.
JobFails ==
  LET j == Head(jobs)
  IN /\ jobs # << >>
     /\ j.op \in {"append", "ack", "nack", "due", "stats"}
     /\ \E left \in Interrupted(j) : rows' = left.rows /\ store' = left.store
     /\ lost' = [lost EXCEPT !.envs = @ \cup (RowEnvs(rows) \ RowEnvs(rows'))]
     /\ world.faults < MaxFaults
     /\ world' = [world EXCEPT !.faults = @ + 1]
     /\ \/ /\ j.by = None
           /\ jobs' = Tail(jobs)
           /\ UNCHANGED <<pub, carrier, relay, memory>>
        \/ /\ j.by # None /\ j.op = "append"
           /\ Degraded(j.by)
           /\ jobs' = Tail(jobs)
           /\ UNCHANGED <<relay, memory>>
        \/ /\ j.by # None /\ j.op \in {"ack", "nack"}
           /\ Finish(j.by, j.op = "ack", Tail(jobs), memory)
           /\ UNCHANGED pub
        \/ /\ j.by # None /\ j.op = "due"
           /\ ToStats(Tail(jobs), memory, relay.last)
           /\ UNCHANGED pub
        \/ /\ j.by # None /\ j.op = "stats"
           /\ relay' = AfterPass(relay.last)
           /\ jobs' = Tail(jobs)
           /\ UNCHANGED <<pub, carrier, memory>>
     /\ UNCHANGED life

------------------------------------------------------------------------------
(* start() and close().                                                    *)

\* Also after close(), when the executor of the store is shut down.
Start ==
  /\ \/ life.at = "new"
     \/ Restarts /\ life.at = "closed"
  /\ life' = [Idle EXCEPT !.at = "running"]
  /\ relay' = [NoRelay EXCEPT !.pc = "begin"]
  /\ UNCHANGED <<rows, store, jobs, pub, carrier, memory, world, lost>>

CloseBegin ==
  /\ Closes
  /\ life.at \in {"new", "running"}
  /\ life' = [life EXCEPT !.at = "draining"]
  /\ UNCHANGED <<rows, store, jobs, pub, carrier, relay, memory, world, lost>>

\* The local queues are drained, or the deadline has passed.
DrainEnds ==
  /\ life.at = "draining"
  /\ life' = [life EXCEPT !.at = "stopping"]
  /\ UNCHANGED <<rows, store, jobs, pub, carrier, relay, memory, world, lost>>

\* The workers are gone; _stop_relay cancels the relay task.
StopRelay ==
  /\ life.at = "stopping"
  /\ life' = [life EXCEPT !.at = "joining"]
  /\ CancelPass
  /\ UNCHANGED <<rows, store, pub, world, lost>>

\* The relay task has ended; the publish tasks of this moment are gathered.
Gather ==
  /\ life.at = "joining"
  /\ relay.pc = "off"
  /\ life' = [at |-> "gather", waited |-> {c \in Calls : carrier[c].pc # "none"}]
  /\ UNCHANGED <<rows, store, jobs, pub, carrier, relay, memory, world, lost>>

GatherTimeout ==
  /\ life.at = "gather"
  /\ life' = [life EXCEPT !.at = "cancelling"]
  /\ \E c \in life.waited : carrier[c].pc # "none"
  /\ UNCHANGED <<rows, store, jobs, pub, carrier, relay, memory, world, lost>>

\* A gathered publish task is cancelled where it waits.
CancelSend(c) ==
  /\ life.at = "cancelling"
  /\ c \in life.waited
  /\ carrier[c].pc # "none"
  /\ \E js \in WithoutJobOf(c) : Finish(c, FALSE, js, memory)
  /\ UNCHANGED <<rows, store, pub, life, world, lost>>

\* Every gathered task is done: the final pass begins.
FinalPass ==
  /\ life.at \in {"gather", "cancelling"}
  /\ \A c \in life.waited : carrier[c].pc = "none"
  /\ life' = [at |-> "final", waited |-> {}]
  /\ BeginPass(TRUE)
  /\ UNCHANGED <<rows, store, pub, world, lost>>

FinalTimeout ==
  /\ life.at = "final"
  /\ relay.pc # "off"
  /\ life' = [life EXCEPT !.at = "ending"]
  /\ CancelPass
  /\ UNCHANGED <<rows, store, pub, world, lost>>

\* Mutant of CloseOutbox: the cancelled pass is not awaited.
CloseOutboxEarly ==
  /\ life.at \in {"final", "ending"}
  /\ life.at = "final" => relay.pc = "off"
  /\ IF store.alive
     THEN /\ life' = [life EXCEPT !.at = "closing"]
          /\ jobs' = Submitted("close", Closer, None, 0)
     ELSE /\ life' = [life EXCEPT !.at = "closed"]
          /\ UNCHANGED jobs
  /\ UNCHANGED <<rows, store, pub, carrier, relay, memory, world, lost>>

\* The final pass is over: outbox.close(), which raises when already closed.
CloseOutbox ==
  /\ life.at \in {"final", "ending"}
  /\ relay.pc = "off"
  /\ IF store.alive
     THEN /\ life' = [life EXCEPT !.at = "closing"]
          /\ jobs' = Submitted("close", Closer, None, 0)
     ELSE /\ life' = [life EXCEPT !.at = "closed"]
          /\ UNCHANGED jobs
  /\ UNCHANGED <<rows, store, pub, carrier, relay, memory, world, lost>>

RunClose ==
  /\ Runs("close")
  /\ store' = [store EXCEPT !.alive = FALSE, !.open = FALSE]
  /\ life' = [life EXCEPT !.at = "closed"]
  /\ jobs' = Tail(jobs)
  /\ UNCHANGED <<rows, pub, carrier, relay, memory, world, lost>>

------------------------------------------------------------------------------
(* The environment.                                                        *)

\* The job that runs when the process dies.
Running == IF jobs = << >> THEN Job("void", None, None, 0) ELSE Head(jobs)

\* The process dies, before or after a DELETE is counted, or is replaced after
\* close(); the rows that are left stay.
Crash ==
  /\ world.crashes < MaxCrashes
  /\ world' = [world EXCEPT !.crashes = @ + 1]
  /\ \E left \in Interrupted(Running) : \E gone \in {{}, NextDelete(Running, left.rows)} :
       /\ rows' = left.rows \ gone
       /\ lost' = [envs    |-> lost.envs \cup (RowEnvs(rows) \ RowEnvs(rows')),
                   unseen  |-> lost.unseen \cup RowEnvs(gone),
                   counted |-> lost.counted + left.store.dropped + left.store.expired + left.store.corrupt]
  /\ store' = NewStore(store.overflow)
  /\ jobs' = << >>
  /\ pub' = [c \in Calls |-> IF pub[c] = "appending" THEN "cancelled" ELSE pub[c]]
  /\ carrier' = [k \in DOMAIN carrier |-> NoCarrier]
  /\ relay' = NoRelay
  /\ memory' = Fresh
  /\ life' = Idle

\* From now on the backend accepts what it can.
Recover ==
  /\ ~world.up
  /\ world' = [world EXCEPT !.up = TRUE]
  /\ UNCHANGED <<rows, store, jobs, pub, carrier, relay, memory, life, lost>>

\* The oldest row not yet past max_age gets past it.
Age ==
  LET young == Purged(rows)
  IN /\ Ageing
     /\ young # {}
     /\ rows' = (rows \ {Oldest(young)}) \cup {[Oldest(young) EXCEPT !.old = TRUE]}
     /\ UNCHANGED <<store, jobs, pub, carrier, relay, memory, life, world, lost>>

\* An interval passes while no relay runs.
Elapse ==
  /\ relay.pc = "off"
  /\ Later(rows) # rows
  /\ rows' = Later(rows)
  /\ UNCHANGED <<store, jobs, pub, carrier, relay, memory, life, world, lost>>

Run ==
  \/ RunAppendRefused \/ RunAppend \/ RunAck \/ RunNack
  \/ RunDue \/ RunStats \/ RunVoid \/ RunClose

Carry(k) == BackendOk(k) \/ BackendFails(k)

Closing ==
  \/ DrainEnds \/ StopRelay \/ Gather \/ GatherTimeout
  \/ FinalPass \/ FinalTimeout \/ CloseOutbox

Next ==
  \/ Start \/ CloseBegin \/ Closing
  \/ \E c \in Calls : PublishClosed(c) \/ Publish(c) \/ PublishCancelled(c) \/ CancelSend(c)
  \/ \E k \in Calls \cup {Relay} : Carry(k)
  \/ RelayBegins \/ RelayWakes
  \/ Run \/ JobFails
  \/ Crash \/ Recover \/ Age \/ Elapse

Spec == Init /\ [][Next]_vars

------------------------------------------------------------------------------
(* Fairness.  The executor works off its queue, the event loop runs what   *)
(* is ready, a backend call returns or raises, the deadlines of close()    *)
(* pass, and the backend comes back.  Nothing is assumed of publish(),     *)
(* start(), the call of close(), crashes and failures.                     *)

FairSpec ==
  /\ Spec
  /\ WF_vars(Run)
  /\ \A k \in Calls \cup {Relay} : WF_vars(Carry(k))
  /\ WF_vars(RelayBegins) /\ WF_vars(RelayWakes)
  /\ WF_vars(Closing)
  /\ \A c \in Calls : WF_vars(CancelSend(c))
  /\ WF_vars(Recover)

------------------------------------------------------------------------------
(* Properties.                                                             *)

Rows == [env : Envelopes, at : Nat, wait : 0..MaxBackoff, old : BOOLEAN]

Jobs == [op : {"append", "ack", "nack", "due", "stats", "close", "void"},
         by : Calls \cup {Relay, Closer, None},
         env : Envelopes \cup {None},
         wait : 0..MaxBackoff]

\* Every variable has the shape of the attributes it stands for.
TypeOK ==
  /\ rows \subseteq Rows
  /\ store \in [overflow : Overflows, alive : BOOLEAN, open : BOOLEAN, pending : Int, rejected : Nat,
                dropped : Nat, expired : Nat, corrupt : Nat]
  /\ jobs \in Seq(Jobs)
  /\ pub \in [Calls -> {"new", "appending", "durable", "degraded", "rejected",
                        "closed", "cancelled"}]
  /\ carrier \in [Calls \cup {Relay} ->
                    {NoCarrier} \cup [pc : {"publish", "ack", "nack"}, env : Envelopes]]
  /\ relay \in [pc : {"off", "begin", "due", "carry", "stats", "sleep"},
                batch : SUBSET Rows, last : BOOLEAN]
  /\ memory \in [inflight : SUBSET Envelopes, attempts : [Envelopes -> 0..MaxBackoff]]
  /\ life \in [at : {"new", "running", "draining", "stopping", "joining", "gather",
                     "cancelling", "final", "ending", "closing", "closed"},
               waited : SUBSET Calls]
  /\ world \in [confirmed : SUBSET Envelopes, up : BOOLEAN, crashes : Nat, faults : Nat]
  /\ lost \in [envs : SUBSET Envelopes, unseen : SUBSET Envelopes, counted : Nat]

\* The write-ahead rule: once publish() has returned from a successful append,
\* the envelope is on disk, or the backend has confirmed it, or the store gave
\* it up, whatever publish tasks, relay passes, cancelled jobs, failed acks,
\* crashes and restarts come in between.
Durable ==
  \A c \in Calls : pub[c] = "durable" =>
    EnvOf[c] \in RowEnvs(rows) \cup world.confirmed \cup lost.envs

\* "every drop or expiry is counted"
\* (sdd/specs/durable-lifecycle-fanout.spec.md:270): the counters of this
\* process and of its crashed predecessors add up to at least the envelopes the
\* store gave up, whichever statements raised and whatever jobs they left half
\* done, but for the rows of a DELETE that the process died in or right after,
\* before the line that counts it.
LossesCounted ==
  Cardinality(lost.envs \ lost.unseen)
    <= lost.counted + store.dropped + store.expired + store.corrupt

\* Every envelope the store gave up is counted.  Not so: each statement commits
\* on its own (142), and a crash between DELETE and counter forgets the row.
EveryLossCounted ==
  Cardinality(lost.envs)
    <= lost.counted + store.dropped + store.expired + store.corrupt

\* _pending, kept by arithmetic on rowcounts, is the number of rows whenever
\* the connection is open, and so the table never outgrows max_rows.
PendingExact ==
  /\ store.open => store.pending = Cardinality(rows)
  /\ Cardinality(rows) <= MaxRows

\* An envelope in _outbox_inflight is skipped by every relay pass, so some task
\* must be at work on it: a leak would keep its row unsent until a restart.
InflightIsCarried ==
  \A e \in memory.inflight : \E k \in Calls \cup {Relay} : carrier[k].env = e

\* No two tasks publish the same envelope at the same time: not two relay
\* passes, and not the relay beside the task that publish() spawned.
OneCarrier ==
  \A j, k \in Calls \cup {Relay} :
    j # k /\ carrier[j].pc # "none" => carrier[j].env # carrier[k].env

\* When close() closes the outbox, the relay has ended and no gathered publish
\* task is left that would reopen the database.
QuietAfterClose ==
  life.at \in {"closing", "closed"} =>
    /\ relay.pc = "off"
    /\ \A i \in DOMAIN jobs : jobs[i].by # Relay

\* While the bus runs, every row the backend can accept is in the end sent, or
\* given up by the store.
RowsAreRelayed ==
  \A e \in Envelopes \ Poison :
    e \in RowEnvs(rows) /\ life.at = "running"
      ~> e \notin RowEnvs(rows) \/ life.at # "running"

\* close() returns, although publish tasks and relay passes may hang.
OutboxCloseReturns == life.at = "draining" ~> life.at \in {"closed", "new"}

\* append is "idempotent on event_id": appending an envelope whose row is there
\* neither raises nor changes the rows.
AppendIdempotent ==
  [][ RunAppendRefused \/ RunAppend =>
        (Head(jobs).env \in RowEnvs(rows) => ~RunAppendRefused /\ rows' = rows) ]_vars

\* "Duplicates are expected after an unconfirmed publish": an envelope whose
\* publish was confirmed is not published again.
NoDuplicateAfterConfirm ==
  \A k \in Calls \cup {Relay} :
    carrier[k].pc = "publish" => carrier[k].env \notin world.confirmed
=============================================================================
