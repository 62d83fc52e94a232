----------------------------- MODULE Entrances ------------------------------
(***************************************************************************)
(* The ways into the bus (evb.py, producers.py, ingress/websocket.py,      *)
(* ingress/grpc.py): the facade that starts the core on first use, the     *)
(* producer with its timeout, and the two ingresses, all of which wait     *)
(* for the core to take an event and answer for it.                        *)
(***************************************************************************)
EXTENDS Naturals, FiniteSets

CONSTANTS
  Entrants,     \* calls, each with an event of its own
  Sockets,      \* the calls that come over a web socket
  Rpcs,         \* the calls that come over gRPC; the others are producers'
  Unauthorized, \* calls without the token
  Invalid,      \* calls whose data does not validate
  Strict,       \* raise_on_error of the producers
  Capacity      \* room in the core's queue

VARIABLES
  facade,     \* _started and _closed: "new", "started" or "closed"
  core,       \* the core: "new", "starting", "running" or "closed"
  pc,         \* call -> how far it is
  answer,     \* call -> what the caller was told
  fanned,     \* events handed to the transport
  coreQueue,  \* events the core has taken and not dispatched
  taken,      \* events the core has taken
  sockets     \* "open" or "closed": has stop of the ingress run?

entranceVars == <<facade, core, pc, answer, fanned, coreQueue, taken, sockets>>

EntranceInit ==
  /\ facade = "new" /\ core = "new"
  /\ pc = [c \in Entrants |-> "idle"] /\ answer = [c \in Entrants |-> "none"]
  /\ fanned = {} /\ coreQueue = {} /\ taken = {} /\ sockets = "open"

Tell(c, what) ==
  /\ answer' = [answer EXCEPT ![c] = what] /\ pc' = [pc EXCEPT ![c] = "done"]

(* _authorized, then IngressEnvelope.model_validate or                      *)
(* validate_publish_request.                                                *)
RefuseCall(c) ==
  /\ pc[c] = "idle" /\ c \in Sockets \cup Rpcs
  /\ \/ c \in Unauthorized /\ Tell(c, "unauthorized")
     \/ c \in Invalid \ Unauthorized /\ Tell(c, "rejected")
  /\ UNCHANGED <<facade, core, fanned, coreQueue, taken, sockets>>

(* publish_event, phase 1: an envelope that does not validate raises in     *)
(* both modes, before the bus is looked up.                                 *)
RefuseEvent(c) ==
  /\ pc[c] = "idle" /\ c \in Invalid \ (Sockets \cup Rpcs) /\ Tell(c, "rejected")
  /\ UNCHANGED <<facade, core, fanned, coreQueue, taken, sockets>>

Admitted(c) ==
  \/ c \in Rpcs \ (Unauthorized \cup Invalid)
  \/ c \in Sockets \ (Unauthorized \cup Invalid) /\ sockets = "open"
  \/ c \notin Sockets \cup Rpcs \cup Invalid

(* _ensure_started: the first caller starts the core, the others go on; a   *)
(* closed facade raises. The producer has the core without the facade.      *)
Emit(c) ==
  /\ pc[c] = "idle" /\ Admitted(c)
  /\ IF c \in Sockets \cup Rpcs /\ facade = "new"
       THEN /\ facade' = "started" /\ core' = IF core = "new" THEN "starting" ELSE core
            /\ pc' = [pc EXCEPT ![c] = "starting"]
       ELSE pc' = [pc EXCEPT ![c] = "publishing"] /\ UNCHANGED <<facade, core>>
  /\ UNCHANGED <<answer, fanned, coreQueue, taken, sockets>>

(* core.start returns.                                                      *)
CoreStarts ==
  /\ core = "starting" /\ core' = "running"
  /\ UNCHANGED <<facade, pc, answer, fanned, coreQueue, taken, sockets>>

Started(c) ==
  /\ pc[c] = "starting" /\ core # "starting"
  /\ pc' = [pc EXCEPT ![c] = "publishing"]
  /\ UNCHANGED <<facade, core, answer, fanned, coreQueue, taken, sockets>>

(* BusCore.publish: the fan-out to the transport is spawned first, then the *)
(* event waits for room in the queue.                                       *)
FanOut(c) ==
  /\ pc[c] = "publishing" /\ core # "closed"
  /\ fanned' = fanned \cup {c} /\ pc' = [pc EXCEPT ![c] = "enqueuing"]
  /\ UNCHANGED <<facade, core, answer, coreQueue, taken, sockets>>

Enqueue(c) ==
  /\ pc[c] = "enqueuing" /\ Cardinality(coreQueue) < Capacity
  /\ coreQueue' = coreQueue \cup {c} /\ taken' = taken \cup {c}
  /\ pc' = [pc EXCEPT ![c] = "published"]
  /\ UNCHANGED <<facade, core, answer, fanned, sockets>>

Dispatch(c) ==
  /\ core # "new" /\ c \in coreQueue /\ coreQueue' = coreQueue \ {c}
  /\ UNCHANGED <<facade, core, pc, answer, fanned, taken, sockets>>

(* Mutant of Returned: the answer is sent as soon as the event is valid.   *)
ReturnedEarly(c) == pc[c] \in {"enqueuing", "published"}

(* emit, or publish, has returned.                                          *)
Returned(c) == pc[c] = "published"

(* The caller is told; a message on a closed socket is not.                 *)
Accept(c) ==
  /\ Returned(c)
  /\ IF c \in Sockets /\ sockets = "closed" THEN Tell(c, "nothing") ELSE Tell(c, "accepted")
  /\ UNCHANGED <<facade, core, fanned, coreQueue, taken, sockets>>

(* What a producer's caller sees of an error.                               *)
Softened(what) == IF Strict THEN what ELSE "returned"

(* BusClosedError: the web socket says so, gRPC fails the call, a producer  *)
(* raises or logs.                                                          *)
PublishRefused(c) ==
  /\ pc[c] = "publishing" /\ core = "closed"
  /\ Tell(c, IF c \in Sockets \cup Rpcs THEN "error" ELSE Softened("error"))
  /\ UNCHANGED <<facade, core, fanned, coreQueue, taken, sockets>>

(* The producer's timeout cancels publish where it waits.                   *)
ProducerTimeout(c) ==
  /\ c \notin Sockets \cup Rpcs /\ pc[c] \in {"publishing", "enqueuing"}
  /\ Tell(c, Softened("timeout"))
  /\ UNCHANGED <<facade, core, fanned, coreQueue, taken, sockets>>

(* stop of the web-socket ingress closes its sockets.                       *)
StopIngress ==
  /\ sockets = "open" /\ sockets' = "closed"
  /\ UNCHANGED <<facade, core, pc, answer, fanned, coreQueue, taken>>

(* close of the facade: the core takes no more events, and drains.          *)
CloseFacade ==
  /\ facade # "closed" /\ facade' = "closed" /\ core' = "closed"
  /\ UNCHANGED <<pc, answer, fanned, coreQueue, taken, sockets>>

EntranceStep ==
  \/ CoreStarts
  \/ \E c \in Entrants :
       Started(c) \/ FanOut(c) \/ Enqueue(c) \/ Dispatch(c) \/ Accept(c) \/ PublishRefused(c)

EntranceNext ==
  \/ \E c \in Entrants : RefuseCall(c)
  \/ \E c \in Entrants : RefuseEvent(c)
  \/ \E c \in Entrants : Emit(c)
  \/ CoreStarts
  \/ \E c \in Entrants : Started(c)
  \/ \E c \in Entrants : FanOut(c)
  \/ \E c \in Entrants : Enqueue(c)
  \/ \E c \in Entrants : Dispatch(c)
  \/ \E c \in Entrants : Accept(c)
  \/ \E c \in Entrants : PublishRefused(c)
  \/ \E c \in Entrants : ProducerTimeout(c)
  \/ StopIngress
  \/ CloseFacade

EntranceSpec == EntranceInit /\ [][EntranceNext]_entranceVars

-----------------------------------------------------------------------------
(* Properties *)

(* What a caller is told is what happened: an accepted event has been taken *)
(* by the core, and one that was refused, failed or timed out has not       *)
(* (_process_message, Publish, publish_event).                              *)
AnswerIsTrue ==
  \A c \in Entrants :
    /\ answer[c] = "accepted" => c \in taken
    /\ answer[c] \in {"unauthorized", "rejected", "error", "timeout"} => c \notin taken

(* Expected to fail: an event whose producer was told of a timeout reaches  *)
(* nobody. Its fan-out is under way before it waits for room.               *)
TimedOutIsGone == \A c \in Entrants : answer[c] = "timeout" => c \notin fanned
=============================================================================
