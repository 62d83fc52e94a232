-------------------------- MODULE WebhookDelivery ---------------------------
(***************************************************************************)
(* The outbound webhook subscriber (subscribers/webhook.py, _delivery.py): *)
(* a handler that buffers envelopes without ever waiting, workers that     *)
(* POST them with bounded retries, and a close that drains the buffer for  *)
(* a limited time.                                                         *)
(***************************************************************************)
EXTENDS Naturals, Sequences, FiniteSets

CONSTANTS
  Workers,             \* concurrency
  QueueSize,           \* queue_size
  MaxAttempts,         \* max_attempts
  Unbuildable,         \* envelopes the transform or the encoder fails on
  MaxEnvelopes,        \* bound: envelopes dispatched to the subscriber
  MaxAttaches,         \* bound: calls of attach
  AttachWhileClosing   \* may attach be called while aclose is running?

Envelopes == 1..MaxEnvelopes

VARIABLES
  attaches, attached, \* calls of attach; are the subscriptions in place?
  workersUp,          \* workers that have been started
  buffer,      \* the queue
  unfinished,  \* the queue's count of items without task_done
  hand,        \* worker -> [env, attempt] or NoItem
  closed,
  closing,     \* where aclose is: "no", "draining" or "cancelled"
  fate         \* envelope -> what became of it

deliveryVars == <<attaches, attached, workersUp, buffer, unfinished, hand, closed, closing, fate>>

NoItem == [env |-> 0, attempt |-> 0]
Delivering == {w \in Workers : hand[w] /= NoItem}

(* _build_request: the request of an envelope can be built.                 *)
Builds(n) == n \notin Unbuildable

DeliveryInit ==
  /\ attaches = 0 /\ attached = FALSE /\ workersUp = {} /\ buffer = <<>> /\ unfinished = 0
  /\ hand = [w \in Workers |-> NoItem]
  /\ closed = FALSE /\ closing = "no"
  /\ fate = [n \in Envelopes |-> "unseen"]

(* Workers are started only when there are none.                            *)
StartWorkers == workersUp' = IF workersUp = {} THEN Workers ELSE workersUp

Attach ==
  /\ attaches < MaxAttaches /\ ~attached
  /\ closing = "no" \/ AttachWhileClosing
  /\ attaches' = attaches + 1
  /\ attached' = TRUE /\ closed' = FALSE
  /\ StartWorkers
  /\ UNCHANGED <<buffer, unfinished, hand, closing, fate>>

Detach ==
  /\ attached /\ attached' = FALSE
  /\ UNCHANGED <<attaches, workersUp, buffer, unfinished, hand, closed, closing, fate>>

(* Mutant of Buffered: a dropped item is not marked as done.                *)
BufferedUndone(n) ==
  IF Len(buffer) < QueueSize
    THEN /\ buffer' = Append(buffer, n) /\ unfinished' = unfinished + 1
         /\ fate' = [fate EXCEPT ![n] = "queued"]
    ELSE /\ buffer' = Append(Tail(buffer), n) /\ unfinished' = unfinished + 1
         /\ fate' = [fate EXCEPT ![n] = "queued", ![Head(buffer)] = "dropped"]

(* A full queue loses its oldest item, which is marked as done.             *)
Buffered(n) ==
  IF Len(buffer) < QueueSize
    THEN /\ buffer' = Append(buffer, n) /\ unfinished' = unfinished + 1
         /\ fate' = [fate EXCEPT ![n] = "queued"]
    ELSE /\ buffer' = Append(Tail(buffer), n) /\ UNCHANGED unfinished
         /\ fate' = [fate EXCEPT ![n] = "queued", ![Head(buffer)] = "dropped"]

(* The bus dispatches an envelope; a closed subscriber ignores it.          *)
OnEnvelope(n) ==
  /\ attached /\ fate[n] = "unseen" /\ \A k \in 1..(n - 1) : fate[k] /= "unseen"
  /\ IF closed
       THEN fate' = [fate EXCEPT ![n] = "ignored"] /\ UNCHANGED <<buffer, unfinished>>
       ELSE Buffered(n)
  /\ UNCHANGED <<attaches, attached, workersUp, hand, closed, closing>>

TakeNext(w) ==
  /\ w \in workersUp \ Delivering /\ buffer /= <<>> /\ closing /= "cancelled"
  /\ hand' = [hand EXCEPT ![w] = [env |-> Head(buffer), attempt |-> 1]]
  /\ buffer' = Tail(buffer)
  /\ fate' = [fate EXCEPT ![Head(buffer)] = "taken"]
  /\ UNCHANGED <<attaches, attached, workersUp, unfinished, closed, closing>>

(* The worker is done with its envelope, whatever the outcome.              *)
Finish(w, outcome) ==
  /\ fate' = [fate EXCEPT ![hand[w].env] = outcome]
  /\ hand' = [hand EXCEPT ![w] = NoItem]
  /\ unfinished' = unfinished - 1
  /\ UNCHANGED <<attaches, attached, buffer, closed, closing>>

(* Mutant of BuildFails: the error ends the worker.                         *)
BuildFailsFatally(w) ==
  /\ w \in Delivering /\ ~Builds(hand[w].env)
  /\ workersUp' = workersUp \ {w}
  /\ Finish(w, "swallowed")

(* _build_request fails: the worker logs the error and goes on.             *)
BuildFails(w) ==
  /\ w \in Delivering /\ ~Builds(hand[w].env)
  /\ UNCHANGED workersUp
  /\ Finish(w, "swallowed")

(* One attempt: 2xx, a permanent status, or a status or error to retry.     *)
Post(w) ==
  /\ w \in Delivering /\ Builds(hand[w].env)
  /\ UNCHANGED workersUp
  /\ \/ Finish(w, "delivered")
     \/ Finish(w, "failed")
     \/ /\ hand[w].attempt < MaxAttempts
        /\ hand' = [hand EXCEPT ![w].attempt = @ + 1]
        /\ UNCHANGED <<attaches, attached, buffer, unfinished, closed, closing, fate>>
     \/ hand[w].attempt = MaxAttempts /\ Finish(w, "failed")

Aclose ==
  /\ attaches > 0 /\ ~closed /\ closing = "no"
  /\ closed' = TRUE
  /\ closing' = IF workersUp = {} THEN "no" ELSE "draining"
  /\ UNCHANGED <<attaches, attached, workersUp, buffer, unfinished, hand, fate>>

(* The queue is joined, or _drain_budget has passed: the workers are        *)
(* cancelled, which marks what they held as done.                           *)
CancelWorkers ==
  /\ closing = "draining"
  /\ closing' = "cancelled"
  /\ hand' = [w \in Workers |-> NoItem]
  /\ unfinished' = unfinished - Cardinality(Delivering)
  /\ fate' = [n \in Envelopes |-> IF \E w \in Delivering : hand[w].env = n THEN "cancelled" ELSE fate[n]]
  /\ UNCHANGED <<attaches, attached, workersUp, buffer, closed>>

Joined == unfinished = 0 /\ CancelWorkers
DrainTimeout == unfinished > 0 /\ CancelWorkers

Closed ==
  /\ closing = "cancelled"
  /\ closing' = "no" /\ workersUp' = {}
  /\ UNCHANGED <<attaches, attached, buffer, unfinished, hand, closed, fate>>

WorkerStep(w) == TakeNext(w) \/ BuildFails(w) \/ Post(w)
Closing == Joined \/ DrainTimeout \/ Closed

-----------------------------------------------------------------------------
(* Properties *)

(* aclose waits for the queue's join: the count of unfinished items is      *)
(* exactly what is buffered or in a worker's hand, drops, retries, errors   *)
(* and cancellations included.                                              *)
UnfinishedExact == unfinished = Len(buffer) + Cardinality(Delivering)

(* While a subscriber is open its workers get to every buffered envelope:   *)
(* no error of an earlier one stops them.                                   *)
BufferedSettles ==
  (\E n \in Envelopes : fate[n] = "queued") ~> (closed \/ \A n \in Envelopes : fate[n] /= "queued")
=============================================================================
