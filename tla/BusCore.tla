------------------------------- MODULE BusCore -------------------------------
(***************************************************************************)
(* The in-process event bus of navigator_eventbus/core.py, configured      *)
(* without a transport backend: four bounded asyncio queues, one semaphore *)
(* that counts enqueued envelopes, a pool of workers that drain the queues *)
(* in strict priority order, per-handler retry, the DLQ callback, the      *)
(* bus.* meta-events, and start()/close().                                 *)
(*                                                                         *)
(* asyncio is cooperative: a coroutine runs without interruption between   *)
(* two awaits that suspend it.  Each action below is one such run, so the  *)
(* interleavings are those of the suspension points and no others.         *)
(***************************************************************************)
EXTENDS Integers, Sequences, FiniteSets

CONSTANTS
  Workers,        \* the worker coroutines of the pool
  Events,         \* the envelopes applications publish, each published once
  Prio,           \* envelope.priority of every application envelope
  Policy,         \* _policy_for(topic) of every envelope but Meta
  SubCount,       \* number of subscriptions an envelope's topic matches
  QueueSize,      \* queue_size: capacity of each queue, 0 = unbounded
  RetryAttempts,  \* retry_attempts: invocations of a handler before the DLQ
  HasDlq,         \* is DLQHandler.on_dlq plugged in as on_dlq?
  MaxStarts,      \* bound: calls of start() that take effect
  Meta,           \* a bus.* meta-envelope made by _publish_meta
  Dlq,            \* a bus.dlq envelope made by DLQHandler.on_dlq
  None            \* no envelope

Envelopes == Events \cup {Meta, Dlq}

\* EventPriority, with the values that order the scan of the queues.
Priorities == {"LOW", "NORMAL", "HIGH", "CRITICAL"}
PriorityValue == [LOW |-> 0, NORMAL |-> 5, HIGH |-> 10, CRITICAL |-> 15]

Policies == {"block", "drop_oldest", "reject"}

ASSUME WorkersAssumption == IsFiniteSet(Workers) /\ Workers # {}
ASSUME EnvelopesAssumption ==
  /\ Meta # Dlq
  /\ None \notin Envelopes
  /\ Events \cap (Workers \cup {Meta, Dlq}) = {}
  /\ IsFiniteSet(Events)
ASSUME TopicsAssumption ==
  /\ Prio \in [Events -> Priorities]
  /\ Policy \in [Events \cup {Dlq} -> Policies]
  /\ SubCount \in [Envelopes -> Nat]
ASSUME SizesAssumption ==
  /\ QueueSize \in Nat
  /\ RetryAttempts \in Nat \ {0}
  /\ MaxStarts \in Nat
  /\ HasDlq \in BOOLEAN

VARIABLES
  bus,       \* the queues, the semaphore, and the putters of the queues
  worker,    \* each worker: where it waits, and the dispatch it is in
  pub,       \* each application envelope: how far publish() has come
  fate,      \* history: how each application envelope left its queue
  inFlight,  \* _in_flight
  life,      \* _started, _closing, _stopping, the pc of close() and its local
             \* pending, and the number of starts
  dropped    \* dropped_on_close

vars == <<bus, worker, pub, fate, inFlight, life, dropped>>

------------------------------------------------------------------------------
(* asyncio.Queue and asyncio.Semaphore, on the record                      *)
(*   [queue, permits, putters, woken].                                     *)
(* putters[p] are the tasks suspended in queue.put(), oldest first;        *)
(* woken[p] are those whose future was resolved by a get and that have not *)
(* run since.  A putter is a publisher, named by its envelope, or a worker *)
(* inside on_dlq.                                                          *)

Tasks == Events \cup Workers

EnvelopeOf(t) == IF t \in Workers THEN Dlq ELSE t

PrioOf(e) == IF e \in {Meta, Dlq} THEN "HIGH" ELSE Prio[e]

Full(b, p) == QueueSize > 0 /\ Len(b.queue[p]) >= QueueSize

Empty(b) == \A p \in Priorities : b.queue[p] = << >>

\* queue.put_nowait(e) and the semaphore release that follows it.
Put(b, p, e) ==
  [b EXCEPT !.queue[p] = Append(@, e), !.permits = @ + 1]

\* Resolve the future of the oldest waiting putter, if there is one.
WakeNext(b, p) ==
  IF b.putters[p] = << >>
  THEN b
  ELSE [b EXCEPT !.putters[p] = Tail(@),
                 !.woken[p] = @ \cup {Head(b.putters[p])}]

\* queue.get_nowait() on a queue that holds something.
Get(b, p) == WakeNext([b EXCEPT !.queue[p] = Tail(@)], p)

\* Mutant of NextPriority: _priority_order sorted ascending.
NextPriorityAscending(b) ==
  CHOOSE p \in Priorities :
    /\ b.queue[p] # << >>
    /\ \A l \in Priorities :
         PriorityValue[l] < PriorityValue[p] => b.queue[l] = << >>

\* The first non-empty queue in _priority_order.
NextPriority(b) ==
  CHOOSE p \in Priorities :
    /\ b.queue[p] # << >>
    /\ \A h \in Priorities :
         PriorityValue[h] > PriorityValue[p] => b.queue[h] = << >>

\* Mutant of PublishMeta: a full queue makes room for the meta-event.
PublishMetaEvicts(b) ==
  IF Full(b, "HIGH") THEN Put(Get(b, "HIGH"), "HIGH", Meta) ELSE Put(b, "HIGH", Meta)

\* _publish_meta: HIGH priority, dropped when the queue is full.
PublishMeta(b) == IF Full(b, "HIGH") THEN b ELSE Put(b, "HIGH", Meta)

\* What _enqueue_local does with e: put it, or apply the policy of its topic.
Verdict(b, e) == IF Full(b, PrioOf(e)) THEN Policy[e] ELSE "put"

\* _enqueue_local called by task t, up to its return or its suspension.
EnqueueLocal(b, t) ==
  LET e == EnvelopeOf(t)
      p == PrioOf(e)
      m == PublishMeta(b)          \* _emit_backpressure_meta
  IN CASE Verdict(b, e) = "put"         -> Put(b, p, e)
       [] Verdict(b, e) = "reject"      -> m
       [] Verdict(b, e) = "drop_oldest" -> Put(Get(m, p), p, e)
       [] Verdict(b, e) = "block"       -> [m EXCEPT !.putters[p] = Append(@, t)]

\* Mutant of ResumedPut: no semaphore release after a put that had to wait.
ResumedPutSilent(b, t) ==
  LET p == PrioOf(EnvelopeOf(t))
      r == [b EXCEPT !.woken[p] = @ \ {t}]
  IN IF Full(b, p) THEN [r EXCEPT !.putters[p] = Append(@, t)]
                   ELSE [r EXCEPT !.queue[p] = Append(@, EnvelopeOf(t))]

\* Mutant of ResumedPut: the slot it was woken for is taken to be still free.
ResumedPutUnchecked(b, t) ==
  LET p == PrioOf(EnvelopeOf(t))
  IN Put([b EXCEPT !.woken[p] = @ \ {t}], p, EnvelopeOf(t))

\* A resumed queue.put(): put if there is room now, else wait again, last.
ResumedPut(b, t) ==
  LET p == PrioOf(EnvelopeOf(t))
      r == [b EXCEPT !.woken[p] = @ \ {t}]
  IN IF Full(b, p) THEN [r EXCEPT !.putters[p] = Append(@, t)]
                   ELSE Put(r, p, EnvelopeOf(t))

\* s without its i-th element.
Without(s, i) == [j \in 1..(Len(s) - 1) |-> IF j < i THEN s[j] ELSE s[j + 1]]

\* A cancelled queue.put(): a putter that waits leaves the line; one that was
\* woken hands a wakeup it has no use for to the next.
CancelledPut(b, t) ==
  LET p == PrioOf(EnvelopeOf(t))
      r == [b EXCEPT !.woken[p] = @ \ {t}]
  IN IF t \in b.woken[p]
     THEN IF Full(b, p) THEN r ELSE WakeNext(r, p)
     ELSE [b EXCEPT !.putters[p] =
             Without(@, CHOOSE i \in 1..Len(@) : @[i] = t)]

------------------------------------------------------------------------------
(* Workers.  pc: "none" before the runner exists, "idle" at the semaphore, *)
(* "handler" inside an invocation or its backoff, "dlq" suspended in the   *)
(* put of on_dlq, "exited" once returned.                                  *)

NoDispatch == [env |-> None, sub |-> 0, attempt |-> 0]

At(pc) == [pc |-> pc, at |-> NoDispatch]

Invoking(e, s, n) ==
  [pc |-> "handler", at |-> [env |-> e, sub |-> s, attempt |-> n]]

\* The worker after subscription s of e is dealt with: the next one, or idle.
AfterSub(e, s) == IF s < SubCount[e] THEN Invoking(e, s + 1, 1) ELSE At("idle")

IsBusy(r) == r.pc \in {"handler", "dlq"}

Running == {w \in Workers : IsBusy(worker[w])}

------------------------------------------------------------------------------
Init ==
  /\ bus = [queue   |-> [p \in Priorities |-> << >>],
            permits |-> 0,
            putters |-> [p \in Priorities |-> << >>],
            woken   |-> [p \in Priorities |-> {}]]
  /\ worker = [w \in Workers |-> At("none")]
  /\ pub = [e \in Events |-> "new"]
  /\ fate = [e \in Events |-> "none"]
  /\ inFlight = 0
  /\ life = [started |-> FALSE, closing |-> FALSE, stopping |-> FALSE,
             closer |-> "none", pending |-> 0, starts |-> 0]
  /\ dropped = 0

\* start(): a call on a started bus returns at once.  A start() issued while
\* close() is still waiting on a bus that never ran is left out.
Start ==
  /\ ~life.started
  /\ life.closer \in {"none", "closed"}
  /\ life.starts < MaxStarts
  /\ life' = [started |-> TRUE, closing |-> FALSE, stopping |-> FALSE,
              closer |-> "none", pending |-> 0, starts |-> life.starts + 1]
  /\ worker' = [w \in Workers |-> At("idle")]
  /\ UNCHANGED <<bus, pub, fate, inFlight, dropped>>

------------------------------------------------------------------------------
(* publish() without a backend: the closing check, then _enqueue_local.    *)

\* The oldest envelope, which drop_oldest removes, if it is an application's.
FateAfterEnqueue(e) ==
  IF Verdict(bus, e) = "drop_oldest" /\ Head(bus.queue[PrioOf(e)]) \in Events
  THEN [fate EXCEPT ![Head(bus.queue[PrioOf(e)])] = "dropped"]
  ELSE fate

PublishClosed(e) ==
  /\ pub[e] = "new"
  /\ life.closing
  /\ pub' = [pub EXCEPT ![e] = "closed"]
  /\ UNCHANGED <<bus, worker, fate, inFlight, life, dropped>>

Publish(e) ==
  /\ pub[e] = "new"
  /\ ~life.closing
  /\ bus' = EnqueueLocal(bus, e)
  /\ pub' = [pub EXCEPT ![e] = CASE Verdict(bus, e) = "reject" -> "rejected"
                                 [] Verdict(bus, e) = "block"  -> "blocked"
                                 [] OTHER                      -> "accepted"]
  /\ fate' = FateAfterEnqueue(e)
  /\ UNCHANGED <<worker, inFlight, life, dropped>>

\* A publisher suspended in queue.put() runs again.
PublishResumes(e) ==
  /\ e \in bus.woken[PrioOf(e)]
  /\ bus' = ResumedPut(bus, e)
  /\ pub' = IF Full(bus, PrioOf(e)) THEN pub
                                    ELSE [pub EXCEPT ![e] = "accepted"]
  /\ UNCHANGED <<worker, fate, inFlight, life, dropped>>

\* The caller gives up on a blocked publish(), a timeout around it say.
PublishCancelled(e) ==
  /\ pub[e] = "blocked"
  /\ bus' = CancelledPut(bus, e)
  /\ pub' = [pub EXCEPT ![e] = "cancelled"]
  /\ UNCHANGED <<worker, fate, inFlight, life, dropped>>

------------------------------------------------------------------------------
(* The worker pool.                                                        *)

\* Worker w waits at pc, and its task has not been cancelled.
CanRun(w, pc) == worker[w].pc = pc /\ life.closer # "cancelling"

\* A permit is acquired and _pop_next finds every queue empty.
AcquireNothing(w) ==
  /\ CanRun(w, "idle")
  /\ bus.permits > 0
  /\ Empty(bus)
  /\ bus' = [bus EXCEPT !.permits = @ - 1]
  /\ worker' = [worker EXCEPT ![w] = At(IF life.stopping THEN "exited" ELSE "idle")]
  /\ UNCHANGED <<pub, fate, inFlight, life, dropped>>

\* Mutant of AcquireEnvelope: _pop_next takes the envelope off the queue's deque,
\* without get_nowait(), and wakes no putter.
AcquireEnvelopeUnannounced(w) ==
  LET p == NextPriority(bus)
      e == Head(bus.queue[p])
  IN /\ CanRun(w, "idle")
     /\ bus.permits > 0
     /\ ~Empty(bus)
     /\ bus' = [bus EXCEPT !.queue[p] = Tail(@), !.permits = @ - 1]
     /\ worker' = [worker EXCEPT ![w] = AfterSub(e, 0)]
     /\ inFlight' = IF SubCount[e] = 0 THEN inFlight ELSE inFlight + 1
     /\ fate' = IF e \in Events
                THEN [fate EXCEPT ![e] = IF SubCount[e] = 0 THEN "done" ELSE "running"]
                ELSE fate
     /\ UNCHANGED <<pub, life, dropped>>

\* A permit is acquired and the next envelope popped; its dispatch begins.
\* Without a matching subscription the dispatch is over at once.
AcquireEnvelope(w) ==
  LET p == NextPriority(bus)
      e == Head(bus.queue[p])
  IN /\ CanRun(w, "idle")
     /\ bus.permits > 0
     /\ ~Empty(bus)
     /\ bus' = [Get(bus, p) EXCEPT !.permits = @ - 1]
     /\ worker' = [worker EXCEPT ![w] = AfterSub(e, 0)]
     /\ inFlight' = IF SubCount[e] = 0 THEN inFlight ELSE inFlight + 1
     /\ fate' = IF e \in Events
                THEN [fate EXCEPT ![e] = IF SubCount[e] = 0 THEN "done" ELSE "running"]
                ELSE fate
     /\ UNCHANGED <<pub, life, dropped>>

\* Worker w has dealt with its current subscription.
SubDone(w) ==
  LET e == worker[w].at.env
      s == worker[w].at.sub
  IN /\ worker' = [worker EXCEPT ![w] = AfterSub(e, s)]
     /\ inFlight' = IF s < SubCount[e] THEN inFlight ELSE inFlight - 1

\* fate after SubDone(w), on top of f.
FateAfterSub(w, f) ==
  LET e == worker[w].at.env
  IN IF e \in Events /\ worker[w].at.sub = SubCount[e]
     THEN [f EXCEPT ![e] = "done"]
     ELSE f

HandlerOk(w) ==
  /\ CanRun(w, "handler")
  /\ SubDone(w)
  /\ fate' = FateAfterSub(w, fate)
  /\ UNCHANGED <<bus, pub, life, dropped>>

\* Mutant of HandlerRetry: one attempt too many.
HandlerRetryOnceMore(w) ==
  /\ CanRun(w, "handler")
  /\ worker[w].at.attempt <= RetryAttempts
  /\ worker' = [worker EXCEPT ![w].at.attempt = @ + 1]
  /\ UNCHANGED <<bus, pub, fate, inFlight, life, dropped>>

\* The handler raised or ran into handler_timeout, with attempts left.
HandlerRetry(w) ==
  /\ CanRun(w, "handler")
  /\ worker[w].at.attempt < RetryAttempts
  /\ worker' = [worker EXCEPT ![w].at.attempt = @ + 1]
  /\ UNCHANGED <<bus, pub, fate, inFlight, life, dropped>>

\* Mutant of MetaExhausted: no recursion guard in _emit_subscriber_error.
MetaExhaustedEmits(w) ==
  /\ CanRun(w, "handler")
  /\ worker[w].at.attempt = RetryAttempts
  /\ worker[w].at.env \in {Meta, Dlq}
  /\ SubDone(w)
  /\ bus' = PublishMeta(bus)
  /\ UNCHANGED <<pub, fate, life, dropped>>

\* The last attempt failed on a bus.* envelope: the recursion guard drops the
\* bus.subscriber_error and _invoke_dlq returns.
MetaExhausted(w) ==
  /\ CanRun(w, "handler")
  /\ worker[w].at.attempt = RetryAttempts
  /\ worker[w].at.env \in {Meta, Dlq}
  /\ SubDone(w)
  /\ UNCHANGED <<bus, pub, fate, life, dropped>>

\* The last attempt failed on an application envelope: bus.subscriber_error,
\* then on_dlq, which publishes bus.dlq.  BusClosedError and BackpressureError
\* are swallowed in on_dlq; a full queue under "block" suspends the worker.
HandlerExhausted(w) ==
  LET b       == PublishMeta(bus)
      publish == HasDlq /\ ~life.closing
  IN /\ CanRun(w, "handler")
     /\ worker[w].at.attempt = RetryAttempts
     /\ worker[w].at.env \in Events
     /\ bus' = IF publish THEN EnqueueLocal(b, w) ELSE b
     /\ IF publish /\ Verdict(b, Dlq) = "block"
        THEN /\ worker' = [worker EXCEPT ![w].pc = "dlq"]
             /\ UNCHANGED <<fate, inFlight>>
        ELSE /\ SubDone(w)
             /\ fate' = LET oldest == Head(b.queue["HIGH"])
                            drops  == publish /\ Verdict(b, Dlq) = "drop_oldest"
                        IN FateAfterSub(w, IF drops /\ oldest \in Events
                                           THEN [fate EXCEPT ![oldest] = "dropped"]
                                           ELSE fate)
     /\ UNCHANGED <<pub, life, dropped>>

\* A worker suspended in the put of on_dlq runs again.
DlqResumes(w) ==
  /\ CanRun(w, "dlq")
  /\ w \in bus.woken["HIGH"]
  /\ bus' = ResumedPut(bus, w)
  /\ IF Full(bus, "HIGH")
     THEN UNCHANGED <<worker, fate, inFlight>>
     ELSE SubDone(w) /\ fate' = FateAfterSub(w, fate)
  /\ UNCHANGED <<pub, life, dropped>>

------------------------------------------------------------------------------
(* close().                                                                *)

TotalQueued(b) ==
  Len(b.queue["LOW"]) + Len(b.queue["NORMAL"])
    + Len(b.queue["HIGH"]) + Len(b.queue["CRITICAL"])

\* Mutant of Drained: only the queues are looked at.
DrainedQueues == Empty(bus)

\* What _drain() waits for.
Drained == Empty(bus) /\ inFlight = 0

\* _stopping is set and one permit released per worker; without a runner
\* there is nothing to join.
StopWorkers(b, pending) ==
  /\ bus' = [b EXCEPT !.permits = @ + Cardinality(Workers)]
  /\ life' = [life EXCEPT !.closing = TRUE, !.stopping = TRUE, !.pending = pending,
                          !.closer = IF life.started THEN "joining" ELSE "closed"]

\* close() starts to poll until Drained or the deadline.
CloseBegin ==
  /\ ~life.closing
  /\ life' = [life EXCEPT !.closing = TRUE, !.closer = "draining"]
  /\ UNCHANGED <<bus, worker, pub, fate, inFlight, dropped>>

\* close() on a drained bus, or a poll that finds it drained.
DrainDone ==
  /\ life.closing => life.closer = "draining"
  /\ Drained
  /\ StopWorkers(bus, 0)
  /\ UNCHANGED <<worker, pub, fate, inFlight, dropped>>

\* The deadline expires, possibly between two polls.
DrainTimeout ==
  /\ life.closer = "draining"
  /\ dropped' = dropped + TotalQueued(bus)
  /\ StopWorkers(PublishMeta(bus), TotalQueued(bus))
  /\ UNCHANGED <<worker, pub, fate, inFlight>>

\* The runner outlives the second deadline and is cancelled.
JoinTimeout ==
  /\ life.closer = "joining"
  /\ \E w \in Workers : worker[w].pc # "exited"
  /\ life' = [life EXCEPT !.closer = "cancelling"]
  /\ UNCHANGED <<bus, worker, pub, fate, inFlight, dropped>>

\* Mutant of Cancel: _in_flight is decremented outside the finally.
CancelKeepsInFlight(w) ==
  /\ life.closer = "cancelling"
  /\ worker[w].pc # "exited"
  /\ worker' = [worker EXCEPT ![w] = At("exited")]
  /\ fate' = [e \in Events |-> IF worker[w].at.env = e THEN "cut" ELSE fate[e]]
  /\ bus' = IF worker[w].pc = "dlq" THEN CancelledPut(bus, w) ELSE bus
  /\ UNCHANGED <<pub, inFlight, life, dropped>>

\* Mutant of Cancel: a dispatch swallows the CancelledError.
CancelSwallowed(w) ==
  /\ life.closer = "cancelling"
  /\ worker[w].pc \notin {"exited", "handler", "dlq"}
  /\ worker' = [worker EXCEPT ![w] = At("exited")]
  /\ UNCHANGED <<bus, pub, fate, inFlight, life, dropped>>

\* Mutant of Cancel: on_dlq is shielded from the cancellation of its worker.
CancelShieldsDlq(w) ==
  /\ life.closer = "cancelling"
  /\ worker[w].pc # "exited"
  /\ worker' = [worker EXCEPT ![w] = At("exited")]
  /\ inFlight' = IF IsBusy(worker[w]) THEN inFlight - 1 ELSE inFlight
  /\ fate' = [e \in Events |-> IF worker[w].at.env = e THEN "cut" ELSE fate[e]]
  /\ UNCHANGED <<bus, pub, life, dropped>>

\* CancelledError reaches worker w where it waits: its dispatch ends there.
Cancel(w) ==
  /\ life.closer = "cancelling"
  /\ worker[w].pc # "exited"
  /\ worker' = [worker EXCEPT ![w] = At("exited")]
  /\ inFlight' = IF IsBusy(worker[w]) THEN inFlight - 1 ELSE inFlight
  /\ fate' = [e \in Events |-> IF worker[w].at.env = e THEN "cut" ELSE fate[e]]
  /\ bus' = IF worker[w].pc = "dlq" THEN CancelledPut(bus, w) ELSE bus
  /\ UNCHANGED <<pub, life, dropped>>

JoinDone ==
  /\ life.closer \in {"joining", "cancelling"}
  /\ \A w \in Workers : worker[w].pc = "exited"
  /\ life' = [life EXCEPT !.closer = "closed", !.started = FALSE]
  /\ worker' = [w \in Workers |-> At("none")]
  /\ UNCHANGED <<bus, pub, fate, inFlight, dropped>>

------------------------------------------------------------------------------
Next ==
  \/ Start
  \/ \E e \in Events : \/ PublishClosed(e)
                       \/ Publish(e)
                       \/ PublishResumes(e)
                       \/ PublishCancelled(e)
  \/ \E w \in Workers : \/ AcquireNothing(w)
                        \/ AcquireEnvelope(w)
                        \/ HandlerOk(w)
                        \/ HandlerRetry(w)
                        \/ MetaExhausted(w)
                        \/ HandlerExhausted(w)
                        \/ DlqResumes(w)
                        \/ Cancel(w)
  \/ CloseBegin \/ DrainDone \/ DrainTimeout \/ JoinTimeout \/ JoinDone

Spec == Init /\ [][Next]_vars

------------------------------------------------------------------------------
(* Fairness.  Every task the event loop holds ready runs: a worker at a    *)
(* positive semaphore, a resumed put.  A handler invocation ends because   *)
(* of handler_timeout, and close() moves on because of its deadlines.      *)
(* Publishers, cancellations, start() and the call of close() are the      *)
(* environment's and have no fairness.                                     *)

Acquire(w) == AcquireNothing(w) \/ AcquireEnvelope(w)

HandlerEnds(w) ==
  HandlerOk(w) \/ HandlerRetry(w) \/ MetaExhausted(w) \/ HandlerExhausted(w)

Fairness ==
  /\ \A w \in Workers : /\ WF_vars(Acquire(w))
                        /\ WF_vars(HandlerEnds(w))
                        /\ WF_vars(DlqResumes(w))
  /\ \A e \in Events : WF_vars(PublishResumes(e))
  /\ WF_vars(life.closing /\ (DrainDone \/ DrainTimeout))
  /\ \A w \in Workers : WF_vars(Cancel(w))
  /\ WF_vars(JoinDone \/ JoinTimeout)

FairSpec == Spec /\ Fairness

------------------------------------------------------------------------------
(* Properties.                                                             *)

WorkerStates ==
  {At(pc) : pc \in {"none", "idle", "exited"}}
    \cup [pc : {"handler", "dlq"},
          at : [env : Envelopes, sub : Nat, attempt : 1..RetryAttempts]]

BusType ==
  [queue   : [Priorities -> Seq(Envelopes)],
   permits : Nat,
   putters : [Priorities -> Seq(Tasks)],
   woken   : [Priorities -> SUBSET Tasks]]

\* Every variable has the shape of the attributes it stands for.
TypeOK ==
  /\ bus \in BusType
  /\ worker \in [Workers -> WorkerStates]
  /\ pub \in [Events -> {"new", "blocked", "accepted", "rejected", "closed", "cancelled"}]
  /\ fate \in [Events -> {"none", "running", "done", "dropped", "cut"}]
  /\ inFlight \in Int
  /\ life \in [started : BOOLEAN, closing : BOOLEAN, stopping : BOOLEAN,
               closer : {"none", "draining", "joining", "cancelling", "closed"}, pending : Nat, starts : Nat]
  /\ dropped \in Nat

\* The bus as its callers see it: BusService over the application envelopes.
Stage(e) ==
  CASE pub[e] = "new" -> "new"
    [] pub[e] = "blocked" -> "asked"
    [] pub[e] \in {"rejected", "closed", "cancelled"} -> "refused"
    [] pub[e] = "accepted" -> IF fate[e] = "none" THEN "waiting" ELSE fate[e]

\* The application envelopes of a queue, in its order: the k-th is at the place
\* that has k of them up to there.
PlacesIn(q) == {i \in 1..Len(q) : q[i] \in Events}
Applications(q) ==
  [k \in 1..Cardinality(PlacesIn(q)) |->
     q[CHOOSE i \in PlacesIn(q) : Cardinality(PlacesIn(q) \cap 1..i) = k]]

Service == INSTANCE BusService
  WITH Levels <- Priorities,
       Rank   <- PriorityValue,
       Level  <- Prio,
       Slots  <- Cardinality(Workers),
       line   <- [p \in Priorities |-> Applications(bus.queue[p])],
       state  <- [e \in Events |-> Stage(e)]

\* BusCore implements BusService: an accepted envelope is dispatched at most
\* once, in strict priority order and first in first out within a priority,
\* and drop_oldest drops the oldest, whatever meta-events, blocked puts and
\* restarts come in between.
ImplementsService == Service!Spec

\* No lost wakeup of a worker: the semaphore never counts fewer permits than
\* there are queued envelopes, whatever drop_oldest, blocked puts, meta-events,
\* cancellation and restarts do to either.  An envelope without a permit would
\* sit in its queue while every worker sleeps.
PermitsCoverQueued == bus.permits >= TotalQueued(bus)

\* queue_size bounds every queue, also when a resumed put races with a publish
\* that found the freed slot first.
QueueBounded ==
  QueueSize > 0 => \A p \in Priorities : Len(bus.queue[p]) <= QueueSize

\* No lost wakeup of a publisher: while a put still waits, every free slot of
\* its queue has a resumed put on its way to it, also after cancellations.
FreeSlotsAreClaimed ==
  \A p \in Priorities :
    bus.putters[p] # << >> =>
      QueueSize - Len(bus.queue[p]) <= Cardinality(bus.woken[p])

\* The tasks in line for room in queue p, or on their way back to it.
InLine(b, p) == b.woken[p] \cup {b.putters[p][i] : i \in 1..Len(b.putters[p])}

\* No task stands in that line twice.
LineIsSimple(b, p) ==
  /\ \A i, j \in 1..Len(b.putters[p]) : b.putters[p][i] = b.putters[p][j] => i = j
  /\ \A i \in 1..Len(b.putters[p]) : b.putters[p][i] \notin b.woken[p]

Suspended(t) == IF t \in Workers THEN worker[t].pc = "dlq" ELSE pub[t] = "blocked"

\* A task is in line exactly while its put is suspended, once, and at the queue
\* of its envelope: no wait is forgotten and no wakeup goes to a task that is
\* gone, after resumed puts that found the slot taken, cancellations and close().
PuttersExact ==
  \A p \in Priorities :
    /\ InLine(bus, p) = {t \in Tasks : Suspended(t) /\ PrioOf(EnvelopeOf(t)) = p}
    /\ LineIsSimple(bus, p)

Occurrences(e) == {i \in DOMAIN bus.queue[PrioOf(e)] : bus.queue[PrioOf(e)][i] = e}

Dispatching(e) == {w \in Workers : worker[w].at.env = e}

\* Every envelope publish() accepted is in exactly one place: once in the queue
\* of its priority, in the hands of exactly one worker, or dispatched, dropped
\* or cut off by close(); one that was refused or is still blocked is nowhere.
OnePlace ==
  \A e \in Events :
    /\ Cardinality(Occurrences(e))
         = IF pub[e] = "accepted" /\ fate[e] = "none" THEN 1 ELSE 0
    /\ Cardinality(Dispatching(e)) = IF fate[e] = "running" THEN 1 ELSE 0
    /\ fate[e] # "none" => pub[e] = "accepted"

\* _in_flight counts the dispatches in progress, so that _drain() cannot see
\* zero while a handler, a backoff or an on_dlq callback is still going.
InFlightExact == inFlight = Cardinality(Running)

\* When _drain() returns before the deadline, every envelope accepted so far
\* has been dispatched to the end, or was dropped by drop_oldest, or was cut
\* off by an earlier close(): a graceful shutdown abandons nothing.
DrainIsClean ==
  [][ DrainDone => \A e \in Events : pub[e] = "accepted"
                                      => fate[e] \in {"done", "dropped", "cut"} ]_vars

\* While the bus runs and nobody closes it, every accepted envelope is in the
\* end dispatched to all its subscriptions or dropped by drop_oldest.
AcceptedIsDispatched ==
  \A e \in Events :
    pub[e] = "accepted" /\ life.started
      ~> fate[e] \in {"done", "dropped", "cut"} \/ life.closing

\* While the bus runs and nobody closes it, a publish() that waits for room in
\* a queue returns, the one a worker makes inside on_dlq included.
PublishReturns ==
  /\ \A e \in Events : pub[e] = "blocked" /\ life.started
                          ~> pub[e] # "blocked" \/ life.closing
  /\ \A w \in Workers : worker[w].pc = "dlq"
                          ~> worker[w].pc # "dlq" \/ life.closing

\* Failing handlers of bus.* topics cannot feed the bus with meta-events for
\* ever: once the publishers are done the queues run empty and stay empty.
MetaStormEnds == <>[](Empty(bus) \/ life.closing \/ ~life.started)

\* close() returns, whatever its handlers do.
CloseReturns ==
  life.closer \in {"draining", "joining", "cancelling"} ~> life.closer = "closed"

\* dropped_on_close counts "envelopes abandoned because the drain deadline
\* expired": when close() is over, at least as many as it added are left in the
\* queues.
AbandonedAreLeft == life.closer = "closed" => life.pending <= TotalQueued(bus)
=============================================================================
