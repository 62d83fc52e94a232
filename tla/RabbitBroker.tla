---------------------------- MODULE RabbitBroker ----------------------------
(***************************************************************************)
(* A RabbitMQ connection and the consumer on it (brokers/rabbitmq/         *)
(* connection.py, consumer.py, manager.py): tasks that connect and         *)
(* reconnect while a monitor does the same, a consumer whose messages are  *)
(* acknowledged after the callback, and retries made by rejecting a        *)
(* message and publishing a copy of it.                                    *)
(***************************************************************************)
EXTENDS Naturals, Sequences, FiniteSets

CONSTANTS
  Msgs,           \* messages published to the queue
  Unwanted,       \* messages whose callback may raise RejectDelivery
  Garbled,        \* messages whose x-retry header is no number
  MaxRetries,     \* max_retries of wrap_callback
  MaxReconnects,  \* max_reconnect_attempts
  MaxDrops        \* bound: times the connection is lost or refused

ASSUME RabbitAssumption == MaxRetries \in Nat /\ MaxReconnects \in Nat

(* Who may find the connection closed and open it: the task that sets the   *)
(* consumer up, a publishing task, and the monitor.                         *)
Tasks == {"app", "publisher", "monitor"}

VARIABLES
  made,       \* connections made so far; the last one is _connection, _channel
  live,       \* connections that are open
  attempts,   \* reconnect_attempts
  at,         \* task -> "idle", "connecting", "connected" or "failed"
  consumer,   \* the connection basic_consume was called on; 0 is none
  queue,      \* the broker's queue: sequence of [msg, retry]
  held,       \* the delivery under way: a record or Idle
  outcome,    \* message -> what became of it
  drops,      \* connections lost or refused so far
  stopped     \* "no", "stopping" or "yes"

linkVars == <<made, live, attempts, at>>
rabbitVars == <<linkVars, consumer, queue, held, outcome, drops, stopped>>

Idle == [msg |-> "none", retry |-> 0, on |-> 0, step |-> "none"]
Open == made \in live

RabbitInit ==
  /\ made = 0 /\ live = {} /\ attempts = 0
  /\ at = [t \in Tasks |-> "idle"] /\ consumer = 0
  /\ queue = <<>> /\ held = Idle /\ outcome = [m \in Msgs |-> "unseen"]
  /\ drops = 0 /\ stopped = "no"

(* ensure_connection, or a round of the monitor: look, then connect. The    *)
(* monitor and the publishers' workers start once a connection is made.     *)
FindClosed(t) ==
  /\ at[t] = "idle" /\ ~Open /\ stopped = "no"
  /\ t # "app" => made > 0
  /\ at' = [at EXCEPT ![t] = "connecting"]
  /\ UNCHANGED <<made, live, attempts, consumer, queue, held, outcome, drops, stopped>>

(* connect under the lock: the new connection takes the place of the one    *)
(* held, open or not, and the count of attempts starts afresh.              *)
ConnectOk(t) ==
  /\ at[t] = "connecting"
  /\ made' = made + 1 /\ live' = live \cup {made + 1}
  /\ attempts' = 0
  /\ at' = [at EXCEPT ![t] = "connected"]
  /\ UNCHANGED <<consumer, queue, held, outcome, drops, stopped>>

(* schedule_reconnect: another attempt after a delay, or RuntimeError.      *)
ConnectFails(t) ==
  /\ at[t] = "connecting" /\ drops < MaxDrops
  /\ drops' = drops + 1
  /\ IF attempts < MaxReconnects
       THEN attempts' = attempts + 1 /\ UNCHANGED at
       ELSE at' = [at EXCEPT ![t] = "failed"] /\ UNCHANGED attempts
  /\ UNCHANGED <<made, live, consumer, queue, held, outcome, stopped>>

(* The task goes on; the monitor logs what it caught and sleeps.            *)
Resume(t) ==
  /\ at[t] \in {"connected", "failed"}
  /\ at' = [at EXCEPT ![t] = "idle"]
  /\ UNCHANGED <<made, live, attempts, consumer, queue, held, outcome, drops, stopped>>

(* subscribe_to_events, once: declare, bind, consume on the channel held.   *)
Subscribe ==
  /\ at["app"] = "idle" /\ Open /\ consumer = 0 /\ stopped = "no"
  /\ consumer' = made
  /\ UNCHANGED <<linkVars, queue, held, outcome, drops, stopped>>

(* A message is published to the exchange and routed to the queue.          *)
Arrive(m) ==
  /\ outcome[m] = "unseen"
  /\ outcome' = [outcome EXCEPT ![m] = "waiting"]
  /\ queue' = Append(queue, [msg |-> m, retry |-> 0])
  /\ UNCHANGED <<linkVars, consumer, held, drops, stopped>>

(* With a prefetch of 1 the broker hands over one message at a time. The    *)
(* callback notes the channel that is held now, for its answer.             *)
Deliver ==
  /\ consumer \in live /\ queue # <<>> /\ held = Idle /\ stopped = "no"
  /\ held' = [msg |-> Head(queue).msg, retry |-> Head(queue).retry, on |-> made, step |-> "callback"]
  /\ queue' = Tail(queue)
  /\ UNCHANGED <<linkVars, consumer, outcome, drops, stopped>>

Settle(m, how) == outcome' = [outcome EXCEPT ![m] = how]

(* An answer reaches the broker only on the channel that delivered. An      *)
(* acknowledgement and a retry use the channel noted before the callback,   *)
(* reject_message the one held by then.                                     *)
Answers(on) == on = consumer /\ on \in live

(* On another channel the delivery tag is unknown, on a closed one the      *)
(* answer raises: the message stays with its consumer, unanswered.          *)
AnswerFails ==
  /\ held.step = "callback"
  /\ ~Answers(held.on) \/ (held.msg \in Unwanted /\ ~Answers(made))
  /\ held' = [held EXCEPT !.step = "stuck"]
  /\ UNCHANGED <<linkVars, consumer, queue, outcome, drops, stopped>>

(* The callback returns and the message is acknowledged.                    *)
CallbackReturns ==
  /\ held.step = "callback" /\ Answers(held.on)
  /\ Settle(held.msg, "handled") /\ held' = Idle
  /\ UNCHANGED <<linkVars, consumer, queue, drops, stopped>>

(* RejectDelivery: the message is discarded.                                *)
CallbackRejects ==
  /\ held.step = "callback" /\ held.msg \in Unwanted /\ Answers(made)
  /\ Settle(held.msg, "rejected") /\ held' = Idle
  /\ UNCHANGED <<linkVars, consumer, queue, drops, stopped>>

(* The callback raises: the message is rejected, and unless its retries are *)
(* used up a copy is published next.                                        *)
CallbackRaises ==
  /\ held.step = "callback" /\ held.msg \notin Garbled /\ Answers(held.on)
  /\ IF held.retry < MaxRetries
       THEN held' = [held EXCEPT !.step = "nacked"] /\ UNCHANGED outcome
       ELSE held' = Idle /\ Settle(held.msg, "exhausted")
  /\ UNCHANGED <<linkVars, consumer, queue, drops, stopped>>

(* A retry count that is no number raises again: nothing is answered.       *)
RetryUnread ==
  /\ held.step = "callback" /\ held.msg \in Garbled
  /\ held' = [held EXCEPT !.step = "stuck"]
  /\ UNCHANGED <<linkVars, consumer, queue, outcome, drops, stopped>>

(* Mutant of RetryOf: the copy carries the count it was delivered with.     *)
RetryOfUncounted(d) == [msg |-> d.msg, retry |-> d.retry]

(* x-retry of the copy.                                                     *)
RetryOf(d) == [msg |-> d.msg, retry |-> d.retry + 1]

Republish ==
  /\ held.step = "nacked" /\ held.on \in live
  /\ queue' = Append(queue, RetryOf(held)) /\ held' = Idle
  /\ UNCHANGED <<linkVars, consumer, outcome, drops, stopped>>

(* A connection ends: the broker takes back what its consumer has not       *)
(* answered, and a copy that is not published yet never is.                 *)
Ends(g) ==
  /\ live' = live \ {g}
  /\ IF consumer # g \/ held = Idle
       THEN UNCHANGED <<queue, held, outcome>>
       ELSE /\ held' = Idle
            /\ IF held.step = "nacked"
                 THEN Settle(held.msg, "lost") /\ UNCHANGED queue
                 ELSE /\ queue' = <<[msg |-> held.msg, retry |-> held.retry]>> \o queue
                      /\ UNCHANGED outcome

ConnectionLost(g) ==
  /\ g \in live /\ drops < MaxDrops
  /\ drops' = drops + 1
  /\ Ends(g)
  /\ UNCHANGED <<made, attempts, at, consumer, stopped>>

(* The manager's stop cancels the consumer and waits for its callback.      *)
StopConsuming ==
  /\ stopped = "no" /\ made > 0 /\ \A t \in Tasks : at[t] = "idle"
  /\ stopped' = "stopping"
  /\ UNCHANGED <<linkVars, consumer, queue, held, outcome, drops>>

(* The callback has ended or _inflight_timeout has passed: channel and      *)
(* connection are closed, the monitor is cancelled.                         *)
Disconnect ==
  /\ stopped = "stopping"
  /\ stopped' = "yes"
  /\ Ends(made)
  /\ UNCHANGED <<made, attempts, at, consumer, drops>>

RabbitStep ==
  \/ \E t \in Tasks : FindClosed(t) \/ ConnectOk(t) \/ Resume(t)
  \/ Subscribe \/ Deliver \/ AnswerFails \/ Republish
  \/ CallbackReturns \/ CallbackRejects \/ CallbackRaises \/ RetryUnread

-----------------------------------------------------------------------------
(* Properties *)

(* A message that has no outcome yet is in one place: once in the queue, or *)
(* in the hands of the consumer, through retries by rejecting and           *)
(* republishing, lost connections and stop (wrap_callback).                 *)
Places(m) == Cardinality({i \in 1..Len(queue) : queue[i].msg = m}) + (IF held.msg = m THEN 1 ELSE 0)
WaitingIsSomewhere == \A m \in Msgs : Places(m) = (IF outcome[m] = "waiting" THEN 1 ELSE 0)

(* A message in the queue is handled, rejected or given up after            *)
(* max_retries, as long as no connection is lost, the consumer runs and it  *)
(* does not sit on a message whose retry count it could not read.           *)
DeliveriesSettle ==
  \A m \in Msgs :
    outcome[m] = "waiting" ~>
      \/ outcome[m] # "waiting" \/ drops > 0 \/ stopped # "no"
      \/ held.msg \in Garbled /\ held.step = "stuck"

(* Expected to fail: a retried message is never lost. The copy is published *)
(* after the original was rejected, and the connection may end in between.  *)
NoneLost == \A m \in Msgs : outcome[m] # "lost"

(* Expected to fail: a callback answers on the channel its message came     *)
(* from. Two tasks that both found the connection closed both connect, and  *)
(* the consumer set up on the first one answers on the second.              *)
AnswersItsChannel == held.step = "callback" /\ consumer \in live => held.on = consumer
=============================================================================
