--------------------------- MODULE BrokerProducer ---------------------------
(***************************************************************************)
(* The queued producer (brokers/producer.py, manager.py): an HTTP endpoint *)
(* that authenticates a request and puts its event into a bounded queue,   *)
(* workers that publish with retries, and a stop that joins the queue      *)
(* before it cancels them.                                                 *)
(***************************************************************************)
EXTENDS Naturals, Sequences, FiniteSets

CONSTANTS
  Posts,         \* requests to the endpoint, each with an event of its own
  Anonymous,     \* requests whose authentication yields no session
  Malformed,     \* requests without a routing key or a body
  Publishers,    \* worker tasks
  EventQueueSize, \* queue_size
  PublishTries   \* max_retries of an event

ASSUME ProducerAssumption == EventQueueSize \in Nat \ {0} /\ PublishTries \in Nat \ {0}

VARIABLES
  service,      \* the broker: "rabbitmq", whose publish_message logs errors, or "redis"
  userid,       \* _userid: the caller of the endpoint, 0 for None
  stage,        \* request -> how far its handler is
  reply,        \* request -> status, 0 before it is answered
  actingAs,     \* request -> the user id it was let in with
  events,       \* event_queue
  unfinishedEvents, \* its count of events without task_done
  work,         \* worker -> [event, tries], or NoWork
  halt,         \* stop: "no", "joining", "joined" or "stopped"
  eventFate     \* request -> what became of its event

producerVars == <<service, userid, stage, reply, actingAs, events, unfinishedEvents, work, halt, eventFate>>

NoWork == [event |-> "none", tries |-> 0]
UserOf(r) == IF r \in Anonymous THEN "nobody" ELSE r

ProducerInit ==
  /\ service \in {"rabbitmq", "redis"}
  /\ userid = "nobody" /\ stage = [r \in Posts |-> "new"] /\ reply = [r \in Posts |-> 0]
  /\ actingAs = [r \in Posts |-> "nobody"]
  /\ events = <<>> /\ unfinishedEvents = 0 /\ work = [w \in Publishers |-> NoWork]
  /\ halt = "no" /\ eventFate = [r \in Posts |-> "none"]

Respond(r, status) ==
  /\ reply' = [reply EXCEPT ![r] = status]
  /\ stage' = [stage EXCEPT ![r] = "done"]

(* service_auth after the authentication answered: a session sets _userid,  *)
(* and what is tested is _userid.                                           *)
ServiceAuth(r) ==
  /\ stage[r] = "new"
  /\ userid' = IF r \in Anonymous THEN userid ELSE r
  /\ IF userid' = "nobody"
       THEN Respond(r, 401) /\ UNCHANGED actingAs
       ELSE /\ stage' = [stage EXCEPT ![r] = "authenticated"]
            /\ actingAs' = [actingAs EXCEPT ![r] = userid']
            /\ UNCHANGED reply
  /\ UNCHANGED <<service, events, unfinishedEvents, work, halt, eventFate>>

(* put_nowait, unless the queue is full.                                    *)
QueueEvent(r) ==
  /\ Len(events) < EventQueueSize
  /\ events' = Append(events, r) /\ unfinishedEvents' = unfinishedEvents + 1
  /\ eventFate' = [eventFate EXCEPT ![r] = IF halt \in {"no", "joining"} THEN "accepted" ELSE "late"]

(* event_publisher after the body was read: queue_event, or an error.       *)
EventPublisher(r) ==
  /\ stage[r] = "authenticated"
  /\ \/ r \in Malformed /\ Respond(r, 422) /\ UNCHANGED <<events, unfinishedEvents, eventFate>>
     \/ /\ r \notin Malformed /\ Len(events) >= EventQueueSize
        /\ Respond(r, 429) /\ UNCHANGED <<events, unfinishedEvents, eventFate>>
     \/ r \notin Malformed /\ QueueEvent(r) /\ Respond(r, 200)
  /\ UNCHANGED <<service, userid, actingAs, work, halt>>

(* _event_broker: get.                                                      *)
TakeEvent(w) ==
  /\ work[w] = NoWork /\ events # <<>> /\ halt # "stopped"
  /\ work' = [work EXCEPT ![w] = [event |-> Head(events), tries |-> 0]]
  /\ events' = Tail(events)
  /\ UNCHANGED <<service, userid, stage, reply, actingAs, unfinishedEvents, halt, eventFate>>

(* Mutant of TaskDone: an event that is given up is not marked as done.     *)
TaskDoneIfSent(w, what) ==
  /\ unfinishedEvents' = IF what = "sent" THEN unfinishedEvents - 1 ELSE unfinishedEvents
  /\ halt' = IF halt = "joining" /\ unfinishedEvents' = 0 THEN "joined" ELSE halt
  /\ work' = [work EXCEPT ![w] = NoWork]
  /\ eventFate' = [eventFate EXCEPT ![work[w].event] = what]
  /\ UNCHANGED <<service, userid, stage, reply, actingAs, events>>

(* task_done releases a join as the count reaches zero.                     *)
TaskDone(w, what) ==
  /\ unfinishedEvents' = unfinishedEvents - 1
  /\ halt' = IF halt = "joining" /\ unfinishedEvents' = 0 THEN "joined" ELSE halt
  /\ work' = [work EXCEPT ![w] = NoWork]
  /\ eventFate' = [eventFate EXCEPT ![work[w].event] = what]
  /\ UNCHANGED <<service, userid, stage, reply, actingAs, events>>

PublishMessage(w) ==
  /\ work[w] # NoWork /\ TaskDone(w, "sent")

(* publish_message raises, with RabbitMQ only for want of a connection:     *)
(* retried after a delay, or given up after the last try.                   *)
PublishRaises(w) ==
  /\ work[w] # NoWork
  /\ \/ /\ work[w].tries + 1 < PublishTries
        /\ work' = [work EXCEPT ![w].tries = @ + 1]
        /\ UNCHANGED <<service, userid, stage, reply, actingAs, events, unfinishedEvents, halt, eventFate>>
     \/ work[w].tries + 1 >= PublishTries /\ TaskDone(w, "givenup")

(* RabbitMQ's publish_message logs the error of basic_publish and returns:  *)
(* the worker takes the event for published.                                *)
PublishSwallows(w) ==
  /\ work[w] # NoWork /\ service = "rabbitmq"
  /\ TaskDone(w, "unsent")

(* stop waits for the queue.                                                *)
StopProducer ==
  /\ halt = "no"
  /\ halt' = IF unfinishedEvents = 0 THEN "joined" ELSE "joining"
  /\ UNCHANGED <<service, userid, stage, reply, actingAs, events, unfinishedEvents, work, eventFate>>

(* The workers are cancelled with what they hold, and the producer          *)
(* disconnects; a request may still come in.                                *)
CancelPublishers ==
  /\ halt = "joined" /\ halt' = "stopped"
  /\ work' = [w \in Publishers |-> NoWork]
  /\ unfinishedEvents' = unfinishedEvents - Cardinality({w \in Publishers : work[w] # NoWork})
  /\ eventFate' = [r \in Posts |->
       IF \E w \in Publishers : work[w].event = r THEN "cancelled" ELSE eventFate[r]]
  /\ UNCHANGED <<service, userid, stage, reply, actingAs, events>>

ProducerStep ==
  \/ \E w \in Publishers : TakeEvent(w) \/ PublishMessage(w) \/ PublishRaises(w) \/ PublishSwallows(w)
  \/ CancelPublishers

-----------------------------------------------------------------------------
(* Properties *)

(* stop returns, and no event accepted before its join ended is left in the *)
(* queue or with a worker: it was published or given up after its last try, *)
(* or, with RabbitMQ alone, went in a publish whose error was swallowed     *)
(* (_event_broker, stop).                                                   *)
StopDrains ==
  /\ halt = "joining" ~> halt = "stopped"
  /\ [](halt = "stopped" => \A r \in Posts :
         /\ eventFate[r] # "accepted"
         /\ eventFate[r] = "unsent" => service = "rabbitmq")

(* Expected to fail, for RabbitMQ: "retrying failed publishes with          *)
(* exponential backoff" (_event_broker), an event is published or was tried *)
(* as often as its retries allow.                                           *)
FailedIsRetried == [](\A r \in Posts : eventFate[r] # "unsent")

(* Expected to fail: a request that is let in carries its own user id.      *)
ActsAsItself == \A r \in Posts : actingAs[r] \in {"nobody", UserOf(r)}

(* Expected to fail: an event answered with 200 is published or given up.   *)
AcceptedIsTried == [](halt = "stopped" => \A r \in Posts : eventFate[r] \notin {"late", "cancelled"})
=============================================================================
