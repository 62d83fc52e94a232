# TLA+ verification of navigator-eventbus

Paths below are relative to `src/src/navigator_eventbus/` (`core.py`, `outbox.py`, ...).

## 1. The system

navigator-eventbus is an asyncio event bus with optional transports. An application publishes
*envelopes*; subscribers' handlers are invoked by a worker pool; envelopes can be fanned out to a
transport backend (Redis pub/sub, Redis Streams), pulled from durable queues, delivered to webhooks
or taken in from hooks, brokers, WebSocket and gRPC.

| Component | State | Operations | Talks to | What is hard |
|---|---|---|---|---|
| `BusCore` (`core.py`) | 4 priority queues, a semaphore counting envelopes, `_in_flight`, `_started/_closing/_stopping`, subscriptions, `dropped_on_close` | `start`, `publish`, workers, dispatch with retry, `_publish_meta`, `close` | handlers, `on_dlq`, backend, outbox | interleaving of publishers, workers and `close()` at every await; semaphore vs queues under drop_oldest and blocked puts; cancellation; self-feeding meta-events |
| Outbox and relay (`outbox.py`, `core.py`) | SQLite rows, `_pending`, counters, executor; `_outbox_inflight`, `_outbox_attempts`, relay task | `append/ack/nack/due/stats/close`, `_backend_publish`, `_relay_once`, `_stop_relay` | backend, disk | crash and restart, store errors, stale batches, cancellation with jobs in flight, capacity |
| Transport consumer and echo suppression (`core.py`) | `_fanned_out` | `_on_transport_envelope`, `_remember_fanout` | backend | duplicates, bounded memory, drop while closing |
| `DLQHandler` (`dlq.py`) | PostgreSQL rows, background tasks | `on_dlq`, `_persist`, `replay` | BusCore | runs on a worker; publish-then-mark |
| Backends (`backends/`) | connections, consumer group, dedup keys, cursors | publish, consumer loop, sweeper, trimmer | Redis, BusCore | at-least-once, dedup/ACK order, reclaim of slow consumers, reconnect |
| Pull queues (`queues/`) | Redis stream, group, pending list, receipts | send, receive, delete, change_visibility, purge | Redis | visibility timeouts, stale receipts, receive cap |
| Keyed queues (`queues/keyed/`) | per-key zset, message hashes, locks, delayed/held sets, signals | push, lease, apply, expire_head, promote_due, recover, release_hold, drain | Redis, pull queues | fencing, lost signals, crash of a holder |
| Webhook, notification, audit and metrics subscribers (`subscribers/`) | bounded buffers, workers, counters | handler, worker loop, `aclose` | BusCore, HTTP | drop-oldest accounting, shutdown budget |
| Lifecycle registry (`lifecycle/`) | subscriber lists, recursion depth | emit, attach/detach bus | BusCore | recursion, forwarding |
| Hooks (`hooks/`) | hook table, injected dispatch, cache of deliveries, background tasks | register, start/stop rounds, receive a webhook | BusCore, HTTP | bus or callback set after registration, two requests with one id |
| Brokers (`brokers/`) | connections, channels, producer queue, dedup marks | consume, retry, reconnect, reclaim, produce, bridge | RabbitMQ, Redis, SQS | reconnection by several tasks, nack-then-republish, mark-then-publish |
| Ways in (`evb.py`, `producers.py`, `ingress/`) | `_started`, sockets | emit, publish, stop, close | BusCore | answers that have to be true under timeouts and close |
| Development tooling (`scripts/sdd/`) | id ledger on a git branch, journal, index and task files, worktrees | reserve ids, close a task, create a worktree, lint a task graph | git | two clones or workers at a time, pushes of unknown outcome, crashes between steps |
| Envelope, converters, serialization, signatures | none | pure conversions | all | data only |

What makes each correct: *BusCore*: every accepted envelope is dispatched once, in priority order, or its
end is accounted for; nobody waits for ever; `close()` ends. *Outbox*: what `publish()` accepted is on
disk or confirmed, or its loss is counted; it is sent in the end. *Streams/queues*: an entry is
acknowledged only after it was handled, and a stale holder cannot acknowledge. *Keyed queues*: at most one
holder per key acts, keys with work are always found again. *Subscribers*: what is buffered is delivered or
counted. *Hooks and ways in*: a delivery is handed on once, and what the caller is told is what happened.
*Brokers*: a message leaves the broker only after its callback, and every delivery ends. *Tooling*: a number is
given out once, a task reported as closed is closed. The full list of hazards, each at its line, is in `PROJECT.json`.

## 2. Modules

| Module | Models |
|---|---|
| `BusService` | abstract: a line per priority, each envelope taken at most once, oldest first, highest priority first |
| `BusCore` | `core.py` without a backend, with `DLQHandler.on_dlq` (no DSN) as DLQ callback |
| `Subscriptions` | `subscribe`, `unsubscribe`, `_matching_subscriptions` and the loop of `_dispatch` in `core.py`, behind `EventBus.subscribe/publish` |
| `OutboxRelay` | `outbox.py` and the outbox side of `core.py` for a `publish_only` bus |
| `StreamsBackend` | `backends/redis_streams.py` under `_on_transport_envelope` and `_remember_fanout` of `core.py`, in several processes |
| `Transports` | `backends/memory.py`, `redis_pubsub.py`, `composite.py` |
| `KeyedQueue` | `queues/keyed/`: push, lease, outcomes, expiry, holds, removal of empty keys |
| `KeyedSignals` | `queues/keyed/`: wake-up signals, markers, delayed keys, `recover`, pause, drain |
| `PullQueue` | `queues/store.py`, `api.py`, `receipts.py`, `feeder.py` |
| `WebhookDelivery`, `Alerts`, `AuditTrail` | `subscribers/webhook.py` with `_delivery.py`, `notification.py`, `audit.py` |
| `LifecycleEvents` | `lifecycle/registry.py`, `global_registry.py` |
| `HookManager`, `WebhookIngest` | `hooks/manager.py`, `base.py`, `mixins.py`; `hooks/webhook/`, `webhook_signatures.py` |
| `RabbitBroker`, `PolledConsumer`, `BrokerProducer`, `EmployeeBridge` | `brokers/rabbitmq/`, `brokers/redis/` and `sqs/`, `brokers/producer.py`, `brokers/rabbitmq/bridge.py` |
| `DeadLetters` | `dlq.py`: persistence and replay |
| `Entrances` | `evb.py`, `producers.py`, `ingress/` |
| `IdReservation`, `TaskClose`, `Worktrees`, `TaskGraph` | `scripts/sdd/`: `reserve_ids.py` and `id_ledger.py`; `finalize_task.py` and `close_task.sh`; `ensure_worktree.py`; the closure and overlap check of `check_task_graph.py` |
| `BusCoreProofs`, `KeyedQueueProofs`, `OutboxRelayProofs`, `StreamsBackendProofs`, `PullQueueProofs` | theorems about the module of that name |
| `PartsProofs` | theorems about `TaskClose`, `Worktrees`, `HookManager`, `IdReservation`, `WebhookIngest`, `LifecycleEvents`, `TaskGraph`, `Subscriptions` |
| `EdgesProofs` | theorems about `EmployeeBridge`, `PolledConsumer`, `DeadLetters`, `Entrances` |
| `AroundProofs` | theorems about `AuditTrail` |
| `MCBusCore`, `MCOutboxRelay`, `MCKeyedQueue`, `MCStreamsBackend`, `MCPullQueue` | small instances of one module |
| `MCAround`, `MCParts`, `MCEdges` | small instances of several parts that share no state |

Definitions marked "Mutant of ..." are faulty variants of the definition they name, one for a way that
code could plausibly be wrong. No specification uses them; replacing the named definition by its mutant
must make TLC report the property `PROJECT.json` pairs it with.

The parts in `MCAround`, `MCParts` and `MCEdges` neither call each other nor share state, so their
interleavings show nothing. The variable `subject` chooses one of them in the initial state, and only its
actions are taken: one state graph holds them side by side. Fairness is stated per part. A part that theorems
are about has a next-state relation and a specification of its own (`BridgeNext`, `BridgeSpec`, ...), from
which the instance is put together.

### BusCore

asyncio is cooperative, so an action is the run of one coroutine between two awaits that suspend it.
`bus.queue` are the four queues, `bus.permits` the semaphore `_items`, `bus.putters`/`bus.woken` the tasks
suspended in `queue.put()` and those of them whose future is resolved (asyncio's own bookkeeping, modelled
from how `core.py` uses it). `worker[w]` is where worker `w` waits: at the semaphore, inside invocation
`attempt` of subscription `sub` of `env` (a handler and the backoff after it are one place), or in the put
of `on_dlq`. `pub` and `fate` follow each application envelope; `fate` is a history variable. `life` is
`_started/_closing/_stopping` with the place `close()` has reached.

| Action | Code |
|---|---|
| `Start` | `start()` |
| `PublishClosed`, `Publish`, `PublishResumes`, `PublishCancelled` | `publish()` + `_enqueue_local()`: refused, up to the return or the suspension, resumed, cancelled by the caller |
| `AcquireNothing`, `AcquireEnvelope` | one turn of `_worker()` with `_pop_next()`: spurious wakeup, or begin of `_dispatch()` |
| `HandlerOk`, `HandlerRetry`, `HandlerExhausted`, `MetaExhausted`, `DlqResumes` | `_invoke_with_retry()`, `_emit_subscriber_error()`, `_invoke_dlq()`, `on_dlq()` |
| `CloseBegin`, `DrainDone`, `DrainTimeout`, `JoinTimeout`, `Cancel`, `JoinDone` | `close()`, `_drain()`, cancellation of the pool |

Abstractions: subscriptions do not change (`Subscriptions` is about those that do), and an envelope's topic,
filters and severities are reduced to its priority, its policy (`_policy_for`) and the number of subscriptions
that match. All `bus.*` meta-events are one value `Meta`, all `bus.dlq` envelopes one value `Dlq`. Deadlines and
timeouts may expire at any time. A `start()` called while `close()` is still waiting on a bus that never ran is
left out.

### OutboxRelay

Each store operation is a job of the outbox's single-thread executor (`jobs`, first in first out); the coroutine
that awaits it goes on in the step that runs the job. That loses nothing: the rows are seen only through the
executor, so whatever another coroutine does in between can be moved before the job. Within a job each statement
commits by itself (`isolation_level=None`): `Interrupted` are the tables and counters that a job can leave behind
when a statement of it fails, and `NextDelete` what a crash may have deleted without counting it. A cancelled job
is skipped, unless it is the one running; then its effect stays and only its result is lost. `rows` is the table
on disk (it survives `Crash`), `store` the `SqliteOutbox` object, `carrier` the `_backend_publish` calls in
progress (one per `publish()` plus the relay's), `relay` the place of `_relay_once`, `memory` is
`_outbox_inflight` and `_outbox_attempts`, `life` how far `start`/`close`/ `_stop_relay` are. Time is counted in
relay intervals: a row `nack`ed with a backoff of *n* intervals is due after *n* sleeps of the relay, and a relay
pass is taken to last less than an interval. `time.time()` never goes back. A crash kills the process, not the
machine, so committed rows stay.

The bus is `publish_only`: no consumer, so `_fanned_out` is written but never read and is left out. Local
queues are unbounded, so `_enqueue_local` returns at once; what it does is `BusCore`'s subject.

### KeyedQueue

Everything a keyed queue knows is in Redis, and any number of processes work on it, so an action is one Redis
command or one `WATCH ... MULTI/EXEC`, with what the process computes until the next one. The look at the head is
two commands (`HeadFound` is its ZRANGE; what HGETALL then finds is one of `HeadDangling`, `HeadUnreadable`,
`Examine`), because the member may be acked and pushed again between them. `proc[a].pc` is the next command of
process `a`, `proc[a].snap` the message as it read it last. `dirty` has the processes whose watched lock or hash
was written since their `WATCH`; their `EXEC` is refused. A lock that runs out counts as such a write.

| Action | Code (`store.py`, unless said) |
|---|---|
| `Push` | `push()` |
| `ReleaseHold`, `ReleaseHoldHead`, `ReleaseHoldWrite` | `release_hold()`: HDEL; ZRANGE and EXISTS; HSET |
| `LeaseKey`, `HeadEmpty`, `HeadFound`, `HeadDangling`, `Repair`, `HeadUnreadable`, `Examine`, `HeadHeld`, `HeadChecked` | `_lease_key_detailed()`, `_lease_locked()` |
| `Fence`, `FenceLost`, `ExecLost`, `LeaseExec` | `_verify_fence()` and the lease transaction |
| `Handoff`, `ExpireExec` | `expire_head()`, `_handoff_dlq()` |
| `Handled`, `HandlerCancelled` | the handler loops of `consumer.py` and `drainer.py` |
| `ApplyFence`, `ApplyLost`, `ApplyRemoval`, `ApplyRetry`, `ApplyWait`, `ApplyHold` | `apply()` |
| `ReleaseLock`, `Recover`, `Reconcile`, `DropKey` | `_release()`, `recover()`, `_reconcile()`, `_drop_key_if_empty()` |
| `LockExpires`, `LockLapses`, `DuePasses`, `WaitPasses`, `AgePasses`, `Crash`, `LoseHash` | time, dying processes, loss of data |

`ghost` has the ids whose hash consists of a `state` alone, which only `release_hold` can write. `inc` numbers
the messages ever pushed, so that a message is told from an earlier one of the same id; the code cannot see it
and compares `gen` and `created_ms` instead. `hist.raced` has the messages that the unwatched ZREM of `Repair` took
out of their key although their hash was there: the process found no hash, and the id was pushed again before its
ZREM. With `Created` a singleton, every push of an id falls in one
millisecond: the hardest case for the fence.

Abstractions: deadlines are Booleans that turn false (`due`, `wait`) or true (`aged`) at any time. Signals are
hints: no lease or outcome reads them, so leases are attempted at any time, and `delayed`, `all`, the markers and
the pause are left to `KeyedSignals`. `expire_head` called from outside with a lock of its own is the same
commands in the same order. The read of the hold in `expire_head` is one action with its `EXEC`.

### StreamsBackend

An action is a Redis command with what the process computes until the next one. An entry is its position in the
stream (`log`; up to `lo` it is trimmed), `pel` the pending entries with owner and `times_delivered`, `idle` those
past `min_idle_time`. A process has two tasks, consumer and sweeper, each with the batch its last read gave it;
`known`, `ready` and `lastId` are `_streams`, `_groups_ready` and `_last_ids`, `fanned` is `_fanned_out`.
`Publish` and `Relay` are the bus's side (fan-out, retry from the outbox), `CheckDedup`, `OnTransportEnvelope`,
`Mark`, `Ack`, `Park` those of `_handle_message` in its order. `conf` is the deployment: group or broadcast,
explicit streams, retention, undecodable events, a callback that always raises. Faults are failed commands, a slow
callback whose entry is claimed away, a dedup key that expires or is evicted (`MarkExpires`), a stop, a crash, and
Redis losing its data.

### PullQueue

Every Redis command is a step: a receive is `Receive` (XPENDING), `Reclaim` (XAUTOCLAIM), `Park` for each message
over the cap (`on_dlq`, XACK), `ReadNew` (XREADGROUP), `ApplyVisibility` (XCLAIM JUSTID, the handles). A handle is
a record; `left` is what remains of its validity, `count` the delivery count it was minted with, which
`_assert_lease_current` compares. `gen` numbers deliveries independently of the counter Redis keeps, so that the
two can be compared. Time passes in ticks, between requests and while a receive waits: in `on_dlq`, or in a long
poll. What it then has in hand ages (`waited`), and its handle is `late` when the XCLAIM does not set the clock
back in time. `moved` marks an entry whose lease somebody else than its current receive has set. A configuration
says who polls where, with which leases, may they poll long, and how many messages and failures there are.

### KeyedSignals

`KeyedQueue` leaves signals out because no lease depends on them; here it is the other way round: a key is its
number of messages, whether its head may run and whether it is held, and everything about signals is kept: the
stream with its redelivery, markers and their expiry, `delayed` and `promote_due`, the throttle and the
conditions under which `recover` stands back, pause, a consumer and a drainer, locks of dead processes.

### Subscribers, hooks, brokers, transports, entrances, dead letters

| Module | State | Actions |
|---|---|---|
| `Subscriptions` | `_subscriptions` and `_pattern_subscriptions` as sequences, a worker's remaining list | `subscribe`, `unsubscribe`, `publish`, `_dispatch`, `CallNext`, `HandlerDone` |
| `WebhookDelivery` | queue, `unfinished` (task_done), what each worker has in hand, how far `aclose` is | `Attach`, `Detach`, `OnEnvelope`, `TakeNext`, `BuildFails`, `Post`, `Aclose` to `Closed` |
| `Alerts` | windows as sequences of times, dedup times, throttle, overflow, digest task | `Evaluate`, `FlushDigest`, `DigestSent`, `AlertTick` |
| `AuditTrail` | buffer, flushers and closers with their batches, `_flush_task` | `AttachAudit`, `AuditEnvelope`, `FlusherBegins/Wakes`, `FlushRow`, `FlushEnds`, `CloseAudit`, `FinalFlush`, `CancelClose` |
| `LifecycleEvents` | subscriptions per registry, the context of each task, emissions under way | `SubscribeLocal/Global`, `Unsubscribe`, `AttachBus`, `EmitNowait`, `Begin`, `Return` |
| `HookManager` | hook table, callback, bus, what each hook was injected | setters, `Register`, `Unregister`, a round of start or stop in steps, `OnEvent` |
| `WebhookIngest` | requests and where they wait, cache of deliveries, background tasks | `HandleWebhook`, `Refuse`, `Admit`, `Built`, `Dispatched`, `BackgroundDispatch`, `StopListener` |
| `RabbitBroker` | connections that are open, the channel in use, the delivery in hand, three tasks that reconnect | `FindClosed`, `ConnectOk/Fails`, `Deliver`, `Callback...`, `RetryUnread`, `AnswerFails`, `Republish`, `ConnectionLost`, `StopConsuming` |
| `PolledConsumer` | entry states, the old ones, batches of the loop and of a reclaim | `StartConsumer`, `AnotherStarts` (both trim), `ReadBatch`, `ReclaimPending`, `CallbackEnds`, `NextMessage`, `VisibilityTimeout`, `StopConsumer` |
| `BrokerProducer` | event queue, `_userid`, what each publisher has | `ServiceAuth`, `EventPublisher`, `TakeEvent`, `PublishMessage/Raises/Swallows`, `StopProducer`, `CancelPublishers` |
| `EmployeeBridge` | dedup marks and how often each has expired, the envelope each bridge handles | `Receive`, `DedupSet/Fails`, `PublishKey/Fails`, `KeyExpires`, `BridgeCrashes` |
| `DeadLetters` | rows, letters being announced or inserted, replays | `OnDlq`, `Announced`, `AnnounceCancelled`, `Persist(Fails)`, `DeadCrash`, `ReplaySelect` to `ReplayMark` |
| `Transports` | consumers, pub/sub link and inbox, log and cursor of each channel | `Start...`, `Publish...`, `PSubscribe`, `LinkLost`, `HandleMessage`, `Discover`, `ChannelEntry`, `BusRaises`, `Redeliver`, `Close...` |
| `Entrances` | facade, core, each call and what its caller was told | `RefuseCall`, `RefuseEvent`, `Emit`, `FanOut`, `Enqueue`, `Accept`, `PublishRefused`, `ProducerTimeout`, `StopIngress`, `CloseFacade` |

Payloads, headers, routes, encodings and wording are left out; a request, an event or an envelope is an id with
the attributes a branch asks for (undecodable, malformed, unauthorized). HTTP and broker clients are what they
return or raise.

### Tooling

`IdReservation`: the remote branch is a sequence of commits, each with its ledger; two clones reserve, one of them
with untracked work, and a push is accepted, rejected, finds the remote up to date, or times out after it was
accepted or not. A commit is what git hashes (author, second, parent, order), so two clones can build the same
one. `TaskClose`: the task file, the index, the staged snapshot, the journal and the lock, with crashes, edits by
somebody else and a moving HEAD. `Worktrees`: git commands that fail after some or all of their work, calls that
are killed, a base that moves, an operator who deletes branches. `TaskGraph`: `_ancestors` with its recursion as
an explicit stack and memo, over every graph of three tasks, against the closure it should compute.

## 3. Runs

`CHECK_DEADLOCK FALSE` is set where the system may stop: an idle or closed bus with no publisher left, a part
whose bounded inputs are used up. A keyed queue always has something to do, if only another attempt to lease;
its runs check for deadlock.

| Run | Expectation | What it shows |
|---|---|---|
| `core_safety` | pass | `PermitsCoverQueued` (no lost wakeup of a worker), `DrainIsClean` (a drain that ends in time abandons nothing) |
| `core_live` | pass | `AcceptedIsDispatched`, `CloseReturns`, `ImplementsService` (refinement of `BusService`) |
| `core_dlq_block` | violation | `PublishReturns` when `on_dlq` blocks |
| `outbox_safety` | pass | `Durable`, `LossesCounted` |
| `outbox_live` | pass | `RowsAreRelayed`, `OutboxCloseReturns` |
| `keyed_fence` | pass | `Conserved` (no stale process removes a message, but for the unwatched repair), `CommitsAreFenced` |
| `keyed_repair` | pass | `HeldNotLeased`, `LeasesTheOldest`, when a hash is lost and repaired too |
| `streams` | pass | `AckedIsAccounted`, `DuplicatesAreExcused`, `BroadcastGapless`, `EntriesSettle` |
| `queue` | pass | `NoEarlyRedelivery`, `CurrentHolderCanDelete`, `MessagesLeave` |
| `around` | pass | `TrailInOrder`, `BufferedSettles`, `FoldedIsSent`, `KeysAreServed` |
| `parts` | pass | `HandledInOrder`, `ReportsDoNotCascade`, `GlobalObserves`, `InjectedIsCurrent`, `OncePerDelivery`, `IdsAreUnique`, `DoneIsClosed`, `HandedOutIsUsable`, `CleanReportIsSafe` |
| `edges` | pass | `GoneIsHandled`, `PublishedOnce`, `FailedIsStored`, `AnswerIsTrue`, `DeliveriesSettle`, `StopDrains`, `ChannelsHear` |

Further properties are defined and hold under the same configurations, but belong to no run, because a theorem
or a stronger property covers them: of `BusCore` `TypeOK`, `QueueBounded`, `FreeSlotsAreClaimed`, `PuttersExact`,
`InFlightExact`, `OnePlace` (all proved), `MetaStormEnds`; of `OutboxRelay` `TypeOK`, `PendingExact`,
`InflightIsCarried`, `QuietAfterClose`, `OneCarrier` (all proved, of `TypeOK` all but one conjunct); of `KeyedQueue`
`TypeOK`, `KeyIndexed`, `HoldHasMessage` (the last two proved; `HoldHasMessage` unless a hash is lost) and, without
`release_hold`, `DeadlineHonoured`; of
`StreamsBackend` `TypeOK`, `OnceInProcess`; of `PullQueue` `TypeOK`, `FanOut`, `CapRespected`; of the others
`UnfinishedExact`, `ThrottleHeld`, `WaitingIsSomewhere`.

**Bounds.** `core_safety`: two workers (the smallest pool in which one can block another), three publishers with
one policy each, all at HIGH where they compete with meta-events and `bus.dlq`, capacity 1 (every second put meets
a full queue), two attempts, two starts. `core_live`: three publishers over two priorities, with two, no and one
subscription, capacity 1, so that order between and within queues, a blocked put and a stolen slot meet.
`outbox_safety`: two envelopes, one of which does not decode when it is read back, one row, so that either
overflow policy, late acks and stale batches meet; one crash, one store error, ageing, restarts. `outbox_live`:
two rows, a batch of one, backoff of up to two intervals. `Attempts` stops counting where `_backoff` has reached
its maximum, which changes nothing. The keyed runs have two workers at one key (that an id can come back under
another key is covered by the proofs, which have any number of keys). `keyed_fence`: one id pushed twice, two
outcomes other than ack with `max_attempts` 1, ageing, a lapse and a crash, so that an old holder meets the new
holder of a new message of the same id. `keyed_repair`: two ids and three pushes, a hold, a lapse, one lost hash,
so that a member a repair is about to remove can be that of a new message. `streams`: two processes, two entries,
a retention of two, one fault of any kind (an expired dedup key is one), an echo memory of one id; `queue`: one
message and two replicas, with and without long polls, a lease shorter than the threshold, a cap of one, so that a
message expires, is nacked, redelivered and parked; and two messages in batches of two whose lease is the whole
threshold, so that one is parked while the receive has the other in hand. `around`: a buffer of two with four
envelopes, two of them unbuildable; five ticks with a storm; five audited rows, one that json.dumps refuses, over
a buffer of three, two flushers, two closers and one failure, so that flushes overlap; a key with two messages, a
consumer and a drainer, and one upset of any kind. `parts`: five subscriptions of two ranks; two tasks with three
subscribers; two hook ids, one with two hooks; two requests with three sendings of two deliveries over a cache of
one entry; a time to live of twice the tolerance and a sender whose clock is one tick ahead; two allocators of one
author and one second, with orders of both kinds and two tries; two closers with two pieces of evidence, one
crash, one edit, one move of HEAD; two agents with two failures or kills; every graph of three tasks. `edges`: two
messages with one retry, one of them unwanted or with an unreadable count, and two lost connections; batches of
two, and entries that grow old; three requests at a queue of one; two bridges with a batch of two positions, three
sendings and an expiry of each key; two letters that fail twice, with two errors, cancellations or crashes; three
channels, one of them broadcast or none, so the feeder broadcasts or is a group; six calls. The constants named `Max...` bound what the
environment may do.

**Fairness.** `BusCore`: tasks the event loop holds ready run; a handler invocation ends (`handler_timeout`
cancels it); `close()` moves on (its two deadlines, and cancellation reaches a worker at its next await). A
handler that blocks the loop or swallows cancellation is outside this. `OutboxRelay`: the executor works
off its queue, the loop runs what is ready, a backend call returns or raises (client timeouts), deadlines
expire, and from some point on the backend accepts what is not poison. `StreamsBackend`: the loops of a running
process go on, and what is pending becomes old enough to claim. `PullQueue`: requests end, time passes, and each
group is polled again and again (strong fairness, because replicas take turns); nobody has to delete. `MCAround`:
workers, flusher, digest task and closers go on, what has a time to live runs out, a client that committed signals
or dies, a pause ends. `MCEdges`: the consumer, publisher and transport tasks go on. Publishers, callers, crashes,
errors and cancellations have no fairness.

**Finding.** *Workers deadlock in `on_dlq`* (`core_dlq_block`, quoted in `PROJECT.json`). It publishes `bus.dlq` at
HIGH from a worker, right after `bus.subscriber_error` took a HIGH slot. Under `block` (the default) each worker may
wait for room in the HIGH queue, which only workers make. Under `reject` or `drop_oldest` for `bus` topics
(`core_live`) it cannot happen.

**Other expectations that fail.** Each ends in a counterexample. Those with a configuration of their own:

| Configuration | Property | What happens |
|---|---|---|
| `outbox_restart.cfg` | `RowsAreRelayed` | `SqliteOutbox.close()` shuts its executor down for good: after the next `start()` of the same bus nothing is durable or relayed (`sdd/specs` promise that pending rows "stay on disk for the next start") |
| `keyed_wait.cfg` | `DeadlineHonoured` | `release_hold` deletes the hold first and writes the state last; a lease that begins in between and ends with `wait` has its state overwritten, and its deadline is ignored (`drainer.py:49`: never ignores `wait` deadlines) |
| `keyed_rebuild.cfg` | `HashIsQueued` | the ZREM that repairs a lost hash removes the member a concurrent push of the same id has just added; the hash it wrote makes further pushes no-ops |
| `outbox_duplicate.cfg` | `NoDuplicateAfterConfirm` | duplicates also follow a confirmed publish: the relay walks over rows it read earlier and asks only whether they are in flight now |
| `outbox_poison.cfg` | `RowsAreRelayed` | rows that always fail starve healthy ones, because a pass stops at its first failure and takes the oldest first; with the defaults (300 s / 5 s) it takes about 60 |

The rest are a run's configuration with another property, and the constants changed as said (for the last three
modules' runs, `Subjects` can be reduced to the one that matters):

| Property (run) | Change | What happens |
|---|---|---|
| `AbandonedAreLeft` (`core_safety`) | | `dropped_on_close` over-counts, because stopping workers still dispatch what it counted (`core.py:221` calls them "abandoned") |
| `AckedHashIsGone` (`keyed_repair`) | | between EXISTS and HSET of `release_hold` a lease may ack the head; a hash with a `state` alone stays (`store.py:471`: "After an ack the hash is gone") |
| `AppendIdempotent` (`outbox_safety`) | `Calls = {c1, c2, c3}`, `EnvOf <- Repeated`, `MaxRows = 2`, `Undecodable = {}`, no crash, fault, ageing or restart | `append` at capacity rejects, or evicts another row, before INSERT OR IGNORE finds nothing to insert (`outbox.py:249`) |
| `AtLeastOnce` (`streams`) | | an id remembered for an echo that never came swallows another process's publish of it (`core.py:577`) |
| `EveryLossCounted` (`outbox_safety`) | | a crash between the autocommitted DELETE and the counter loses rows that nothing counts (`outbox.py:165`, `206`) |
| `NoEarlyRedeliveryAfterWait` (`queue`) | | a reclaimed message waits in `on_dlq` or a long poll while its idle clock runs; with a lease of the whole threshold the clock is not set, and the handle minted afterwards outlives the lease (`store.py:417`: "never early double-delivery") |
| `LeaseHasHandle` (`queue`) | `Changes = {3}` | an extended lease outlives its handle, which keeps its expiry: the holder cannot delete (`receipts.py:84`) |
| `TrailAlwaysInOrder` (`around`) | | a second `close()`, or an `attach()`, during the final flush runs two flushes at once, and their rows interleave |
| `EveryFoldedIsSent` (`around`) | | what is folded while a digest is being sent waits for the next overflow (`notification.py:16`) |
| `BufferedSettles` (`around`) | `AttachWhileClosing = TRUE` | `attach()` during `aclose()` leaves a buffer without workers |
| `GlobalObserves` (`parts`) | `Primed = FALSE` | a registry first asked for in a task's context is that task's alone (`global_registry.py:37`: "process-wide singleton") |
| `ForwardedAfterSuccess` (`parts`) | | a subscriber that raised is forwarded to the bus all the same |
| `BusHearsAll` (`parts`) | | a callback that raises keeps the event from the bus (`manager.py:101`: "emitted to both") |
| `DuplicateWasHandled` (`parts`) | | a delivery whose handling failed is answered as a duplicate when it is repeated |
| `AcceptedReachesCallback` (`parts`) | `Heard = FALSE` | a hook without a callback accepts deliveries |
| `SilentAfterUnsubscribe` (`parts`) | | a dispatch under way still calls a removed subscription |
| `OncePerDelivery` (`parts`) | `DedupTtl = 1` | a signature from a clock that is ahead is good for twice the tolerance, longer than the delivery is remembered |
| `NoTwins` (`parts`) | | two clones of one author build the same commit in the same second; the second push finds everything up to date and both are handed the same numbers (`reserve_ids.py:481`: "The push IS the compare-and-swap") |
| `OneIdPerSlug` (`parts`) | | two clones reserve a feature number for one slug (`reserve_ids.py:423`) |
| `FailureLeavesNothing` (`parts`) | | `git branch -d` refuses when the base has moved, and the branch stays (`ensure_worktree.py:245`) |
| `HandedOutCannotPush` (`parts`) | | `git worktree add` fails after its work, or the call is killed before it cleared the upstream; the next call reuses that worktree as it is |
| `HandedOutIsUsable` (`parts`) | `Concurrent = TRUE` | a second call reuses a worktree whose verification is still under way |
| `VerifiesAtOnce`, `StaleNeverCloses` (`parts`) | | a close whose files changed under it is noticed only by the next verification; HEAD moves after it was validated (`finalize_task.py:7`) |
| `NoneLost`, `AnswersItsChannel` (`edges`) | | a connection lost between nack and republish loses the message; two tasks that both found the connection closed both connect |
| `EntriesLeave` (`edges`) | | a Redis entry whose callback raised stays pending: `reclaim_pending_messages` never confirms |
| `ActsAsItself`, `AcceptedIsTried` (`edges`) | | `_userid` is shared by the requests of a producer; events accepted after `stop()` began are dropped |
| `FailedIsRetried` (`edges`) | | RabbitMQ's `publish_message` swallows the error of `basic_publish`, and the event goes after one try (`producer.py:270`: "retrying failed publishes") |
| `BroadcastHears` (`edges`) | | a broadcast channel without `streams=` takes what is there when it first finds the stream for old (`composite.py:118` documents the cold start) |
| `MarkedIsPublished` (`edges`) | | the dedup mark is set before the publish |
| `FailedIsReplayable` (`edges`) | | ON CONFLICT DO NOTHING meets the row marked replayed (`dlq.py:79`) |
| `TimedOutIsGone` (`edges`) | | the fan-out of a publish that timed out is under way |

## 4. Proofs

`BusCoreProofs` proves, for every set of workers and events, every queue size (0 included), priorities,
policies, subscription counts and number of starts, from the four named assumptions of `BusCore` only:

`TypeCorrect` (`TypeOK`), `NoLostWorkerWakeup` (`PermitsCoverQueued`), `QueuesBounded` (`QueueBounded`),
`NoLostPublisherWakeup` (`FreeSlotsAreClaimed`), `PuttersAreExact` (`PuttersExact`), `InFlightIsExact`
(`InFlightExact`).

All follow from `Invariance` (`Spec => []Inv`), with `Inv` the conjunction of

- `TypeOK`;
- `Sound(bus)`: permits cover the queues, queues are bounded, no task is in line twice, and while puts wait
  the free slots are at most the resumed puts;
- `PuttersExact`: without it a resumed or cancelled put could be of a task that is not suspended, or that is
  in line at another queue, and removing it would break the claim on free slots;
- `InFlightExact`;
- `WorkersAndLife`: workers exist exactly while the bus is started, so `Start` and `JoinDone` find no
  dispatch in progress and no worker in a line.

The bus operations (`Put`, `WakeNext`, `Get`, `PublishMeta`, `EnqueueLocal`, `ResumedPut`, `CancelledPut`) are
dealt with once, as lemmas about the record `bus`: each keeps `Sound` and changes the line of putters by
exactly one task or not at all. A `Get` in between leaves one slot unclaimed and its `WakeNext` repairs it;
`Nearly` states that intermediate condition. Each action then has one lemma.

`KeyedQueueProofs` proves, for every number of keys, messages, workers and clients, every `max_attempts` and
every bound, from the two named assumptions of `KeyedQueue`:

- `KeysAreIndexed` (`KeyIndexed`) and `ParkedKeysAreNotLeased` (`HeldNotLeased`), whatever crashes, lapses and
  losses of hashes happen;
- `OnlyTheHolderCommits` (`CommitsAreFenced`), `MessagesAreConserved` (`Conserved`) and
  `ParkedKeysHaveTheirMessage` (`HoldHasMessage`), assuming `MaxMsgLosses = 0`. The last two name what the unwatched
  ZREM of a repair has taken out (`hist.raced`); `Conserved` says that this takes a lock that lapsed.

The first two follow from `Invariance`, with `Inv` the conjunction of the types, `Shape` (a process has what
its next command needs), `WatchFence` (an `EXEC` that would go through is one of the holder of the lock, on the
generation it examined), `HoldFence` (a holder that found its key not parked can rely on it) and `KeyIndexed`.
`HeldNotLeased` needs both fences: `HoldFence` says something only of the holder, and `WatchFence` says
that who is granted a lease still is one; that nobody else parks the key meanwhile is `WatchFence` of that
other process.

The others follow from `Inv` and `Intact`: what the holder of a lock has examined is the message that is there
(`Kept`), a removal that is not an ack comes after `on_dlq` (`HandedFirst`), and members and hashes agree
(`Homes`, but for what was raced). A process that works on a key without its lock has lost it to the clock
(`Lapsed`), and only such a process finds no hash and then a message. The assumption is needed: after the loss of
a hash the same id can be pushed again in the same millisecond, and a process that examined the old message passes
the fence for the new one. While nothing is lost that cannot happen, because a hash goes only by a commit of the
holder of its key.

`TheOldestIsLeased` (`LeasesTheOldest`) assumes `MaxMsgLosses = 0` and default orders (`FirstOut = FALSE`), and adds
`Ordered` to them: the score of a message is that of its push, and the head that a process has looked at stays the
oldest of its key until the `EXEC`, even if its lock lapses, because what comes later is younger (`OrderKept` is what
any step can do to the order). With explicit orders the property is not meant. What a repair took out is no
longer in line and is excused (`Raced`); with losses the id whose hash went is excused too.

Only model-checked of these two modules: liveness.

`BusCoreProofs` also proves `AcceptedIsInOnePlace` (`OnePlace`) and `GracefulCloseIsClean` (`DrainIsClean`), from
`Inv` and `Placed`: each queue holds envelopes of its priority and no application envelope twice (`Tidy`); what
is queued is what `fate` says is queued; an envelope is running exactly while one worker has it; and a
busy worker is at a subscription that exists. A step then moves one envelope between a queue, a worker and its fate,
and `HandsChange`, `QueuedExact` of the queue lemmas and `InFlightIsExact` give both theorems: `_drain()` sees the
queues empty and `_in_flight` 0, so no fate is `queued` or `running`.

`BusImplementsService` proves the refinement (`Spec => ImplementsService`). The line that a queue is mapped to
numbers its application envelopes by counting those up to each place, so that it can be reasoned about without
recursion: `LineAppended` and `LineTaken` say that appending to a queue appends to its line or leaves it, and that
taking the front takes the front of the line or leaves it; one lemma per bus operation follows. `Served` restates
the mapped state (what waits is in the lines, at most one dispatch per worker), and `ServiceStep` reduces a
service step to what an action does to one line and to the stages; each action then has one lemma.

`OutboxRelayProofs` proves, for any envelopes, calls, capacities, overflow policies, poison and undecodable rows,
crashes, faults and restarts, from `OutboxAssumption` and `OutboxSizes`:

- `OutboxIsDurable` (`Durable`), `OutboxCountsLosses` (`LossesCounted`), `OutboxPendingIsExact` (`PendingExact`);
- `OutboxNoInflightLeak` (`InflightIsCarried`) and `OutboxQuietAfterClose` (`QuietAfterClose`);
- `OutboxOneCarrier` (`OneCarrier`), where no two calls publish the same envelope (`OwnEnvelopes`).

`LossesCounted` leaves out `lost.unseen`, what a crash caught between its DELETE and its count, and nothing else:
a job that fails without a crash has counted what it deleted. The first five follow from `OutboxInvariant`. Its
`TaskInv` ties the tasks to the executor's queue: each waiting coroutine has exactly the jobs that its place says,
in that order, no other job is there, and what is in flight is carried. Its `DataInv` ties table, counters and
history together: rows are told apart by their envelope, `_pending` is exact, the table is within `max_rows`, and
what was durable is in the table, confirmed or counted as lost. A job changes only data and the task that awaits
it, so each step is proved once for the tasks and once for the data (`DataStep`). `TypeOK` is proved but for `wait
\in Nat`: that 2^m is not negative needs induction.

`OneCarrier` needs more: that the relay skips what is in flight does not help with rows it read before. `OneInv` says
that the table, the queued appends that nobody awaits and what the relay has read or carries only hold envelopes whose
call has appended them or was cancelled, and that what a call's task carries after its append is in flight and not
the relay's. An append then finds no relay at its envelope; a released envelope is nobody else's (`FinishOne`).
Without `OwnEnvelopes` two `publish()` calls with one envelope are two tasks at once.

`StreamsBackendProofs` proves, for any processes, entries, deployments, faults and claims, from
`StreamsAssumption`: `AckedEntriesAreAccounted` (`AckedIsAccounted`), `StreamDuplicatesAreExcused`
(`DuplicatesAreExcused`) and `BroadcastSkipsNothing` (`BroadcastGapless`). All follow from `StreamsInvariant`.
`TasksSound` says what a task has established at each step of `_handle_message` (before `Ack`, its entry is
accounted for) and `MarksSound` the same of the dedup keys; both are needed because the process that
acknowledges is not always the one that ran the event. `Singles` counts, for an event without an excuse, runs so far
and tasks about to run it: at most one together. `Gapless` says that a broadcast reader has seen everything
between its start and `_last_ids`, except what was trimmed.

`PullQueueProofs` proves, for any replicas, groups, messages, leases and changes of leases, from
`QueueConfigAssumption` and `LimitsAssumption` (the ranges that `config.py` and the API enforce):

- `CurrentHolderIsAccepted` (`CurrentHolderCanDelete`), from `QueueInvariant`: Redis's delivery count and the
  history's number of deliveries are equal wherever they can be compared (`Counted`);
- `LeasesAreKept` (`NoEarlyRedelivery`), from `LeaseInvariant`, the conjunction of `Unique` (a delivery is in the
  hands of one receive or has its handle, not both), `Fresh` (what a receive has in hand and did not wait with has
  an idle clock of 0) and `Leased` (idle clock and what is left of a live handle add up to the threshold at most,
  unless the entry was moved or the handle is late). No assumption on waits is needed: `late` names the handles
  whose receive waited, and the table above has the counterexample without it.

`PartsProofs` proves, for every value of the constants, each property the run `parts` checks, from an
inductive invariant per property, and that the instance implements the specification of each part (`PartsHas...`):

- `ClosedTasksAreClosed`: the journal lock has one holder; who is past `validated` can rely on the snapshot;
- `WorktreesAreUsable`, assuming that calls do not overlap (with overlap it is false, see above), whatever fails
  or is killed: `unchecked` says that the worktree there was left by a call that did not get to check or discard
  it;
- `InjectionIsNeverStale`: ids are registered once, each with a hook of that id;
- `ReservedIdsAreUnique`: numbers given out by a commit are in its ledger and below its counter, and a push
  succeeds only on the tip, or as the very commit that is the tip: then the clones are twins (`Twins`), which is
  excused;
- `DeliveriesAreDispatchedOnce`, assuming `0 < Tolerance` and `2 * Tolerance <= DedupTtl` (deduplication is off by
  default, a tolerance of 0 asks for no freshness, and a signature from a clock that is ahead is good for up to
  twice the tolerance, so a shorter memory forgets a delivery whose signature is still good): at most one copy is
  past the cache, and a delivery dispatched is in the cache for as long as a copy could be admitted;
- `ReportsNeverCascade`: what an emission descends from is what its context says;
- `GlobalSubscribersObserve`, assuming `Primed` (one global registry, made before the tasks: without it the
  property is false, see above): whoever is owed an event listens on that registry, and an emission is on its way
  to it, either in the emitter's registry, which hands it on, or in the global one before its list is taken or
  with it in the list;
- `CleanReportsAreSafe`: the waves respect the dependencies, and without a cycle each frame of the search holds
  ancestors of its task only, the finished ones all of them. That a cycle is found is an argument on finite sets:
  among tasks none of which is ready, the one with the fewest ancestors would depend on one with fewer;
- `HandlersAreCalledInOrder`: both lists are in order and hold each subscription once (`ListsInTurn`), the numbers
  of `since` are those of `subscribe` (`Numbered`), and what a walk has called and what it has left are the wanted
  of its list (`CallsSound`). The stable sort is stated by the place each element gets, which a proof can count.

`EdgesProofs` does the same for four parts of `edges`: `BridgePublishesOnce`, `PolledGoneIsHandled`,
`DeadLettersAreStored`, `EntranceAnswersAreTrue`, with `EdgesHas...`.

`AroundProofs` proves `TrailIsInOrder` (`TrailInOrder`), for any number of envelopes and failed inserts, from
`AuditAssumption` (the constructor raises the batch size to 1 at least, and a buffer holds a row), and
`AroundHasAudit`. The inductive invariant `WaitingInv` says that each envelope is in the table, a batch, the
buffer or lost (`Everywhere`), in one of them and once, each batch and the buffer in the order of the events and
before what is still in the buffer (`InLine`); and, unless two flushes had rows at once (`overlapped`), that the
table is in that order and before the one batch there is (`InTurn`).

Out of the prover's reach: liveness, because it needs fairness and ENABLED, and what a recursive definition computes
(hence lists are filtered and sorted by counting places, not by recursion, in the modules proved about). Every other
invariant that a run checks is stated by a theorem.

## 5. Not modelled, and the plan

Not modelled by choice: pure conversions and encodings, generated code, HTTP routing, request models, broker
client code below the calls it answers, the scheduler, file-watchdog and broker hooks (wrappers of libraries that
hand on what these give them), trace contexts, the metrics subscriber (it adds to counters), the reporting and
migration scripts under `scripts/sdd/` (`insight.py`, `worktree_status.py`, `profile_execution.py`,
`token_audit.py` and others: they read and print) and the lint rules of `check_task_graph.py` about single tasks.
Of the modelled parts: channels of the composite with streams of their own, the partial checkout a killed `git
worktree add` can leave, power loss under `synchronous=NORMAL`, the outbox file lock, two processes on one outbox,
clocks that jump, and the composition of a part in `MCAround` or `MCEdges` with the bus that calls it; each is
modelled up to that call.

What is left is proof, of what no run checks: `OnceInProcess` of `StreamsBackend`, `FanOut` and `CapRespected` of
`PullQueue`.
