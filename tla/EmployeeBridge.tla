--------------------------- MODULE EmployeeBridge ---------------------------
(***************************************************************************)
(* The bridge from MQTT to the employee-events exchange (brokers/rabbitmq/ *)
(* bridge.py): envelopes that devices may send twice and the broker may    *)
(* deliver again, checked, marked in Redis and published, one message per  *)
(* event and one per position of a batch.  A mark expires.                 *)
(***************************************************************************)
EXTENDS Naturals, FiniteSets

CONSTANTS
  Bridges,      \* instances of the bridge; each has one delivery in hand
  Events,       \* eventIds of the envelopes
  Positions,    \* Positions[e]: positions of a location.batch, 0 for another type
  Flawed,       \* envelopes whose fields one of the checks refuses
  Misfits,      \* envelopes of an unknown type or with a batch of a wrong size
  MaxBatch,     \* max_batch_size
  MaxSendings,  \* bound: deliveries of envelopes
  MaxLapses,    \* bound: times one dedup key expires
  MaxOutages    \* bound: Redis or publishing failures, crashes

ASSUME BridgeAssumption ==
  /\ MaxBatch \in Nat /\ Positions \in [Events -> 0..MaxBatch] /\ "none" \notin Events
  /\ MaxSendings \in Nat /\ MaxLapses \in Nat /\ MaxOutages \in Nat

VARIABLES
  sendings,   \* deliveries so far
  handling,   \* bridge -> [event, pos, fresh, life], or NoDelivery
  marks,      \* the dedup keys set in Redis: <<event, position>>
  life,       \* dedup key -> how often it has expired
  blind,      \* events one of whose marks could not be read or set
  published,  \* key -> life it was claimed in -> times published
  deadLetters, \* events handed to a dead-letter exchange
  outages

bridgeVars == <<sendings, handling, marks, life, blind, published, deadLetters, outages>>

(* Position 0 is the event itself.                                          *)
Keys == {<<e, i>> : e \in Events, i \in 0..MaxBatch}
Lives == 0..MaxLapses
(* A delivery in hand, at a position whose key is still to be looked at.    *)
At(e, i) == [event |-> e, pos |-> i, fresh |-> FALSE, life |-> 0]
NoDelivery == At("none", 0)

BridgeInit ==
  /\ sendings = 0 /\ handling = [b \in Bridges |-> NoDelivery]
  /\ marks = {} /\ life = [k \in Keys |-> 0] /\ blind = {}
  /\ published = [k \in Keys |-> [n \in Lives |-> 0]]
  /\ deadLetters = {} /\ outages = 0

Batch(e) == Positions[e] > 0

(* _to_dlq.                                                                 *)
ToDlq(e) == deadLetters' = deadLetters \cup {e}

(* _handle_envelope: one with a flaw goes to a dead-letter exchange and its *)
(* delivery is acknowledged; the others are marked next.                    *)
Receive(b, e) ==
  /\ handling[b] = NoDelivery /\ sendings < MaxSendings
  /\ sendings' = sendings + 1
  /\ IF e \in Flawed
       THEN ToDlq(e) /\ UNCHANGED handling
       ELSE /\ handling' = [handling EXCEPT ![b] = At(e, 0)]
            /\ UNCHANGED deadLetters
  /\ UNCHANGED <<marks, life, blind, published, outages>>

Key(b) == <<handling[b].event, handling[b].pos>>

(* After position i of a batch comes the next one, or the end.              *)
Advance(b) ==
  LET h == handling[b] IN
  handling' = [handling EXCEPT ![b] =
    IF h.pos < Positions[h.event]
      THEN At(h.event, h.pos + 1)
      ELSE NoDelivery]

(* Mutant of IsNew: the key is looked up in a copy that may be behind.      *)
IsNewStale(b) == handling[b].pos = 0 \/ Key(b) \notin marks

(* SET NX answers whether the key was new.                                  *)
IsNew(b) == Key(b) \notin marks

(* A key that is not new ends the delivery or skips the position; the       *)
(* event's key of a batch is set and not looked at.  A misfit is refused    *)
(* only then.                                                               *)
GoOn(b, new) ==
  LET h == handling[b]
      first == h.pos = 0
  IN
  IF first /\ h.event \in Misfits /\ (new \/ Batch(h.event))
    THEN ToDlq(h.event) /\ handling' = [handling EXCEPT ![b] = NoDelivery]
    ELSE /\ UNCHANGED deadLetters
         /\ IF ~new \/ (first /\ Batch(h.event))
              THEN Advance(b)
              ELSE handling' = [handling EXCEPT ![b].fresh = TRUE, ![b].life = life[Key(b)]]

(* _dedup_set of the event's key or of a position's.                        *)
DedupSet(b) ==
  /\ handling[b] # NoDelivery /\ ~handling[b].fresh
  /\ marks' = marks \cup {Key(b)} /\ GoOn(b, IsNew(b))
  /\ UNCHANGED <<sendings, life, blind, published, outages>>

(* Without Redis every key counts as new.                                   *)
DedupFails(b) ==
  /\ handling[b] # NoDelivery /\ ~handling[b].fresh /\ outages < MaxOutages
  /\ outages' = outages + 1 /\ blind' = blind \cup {handling[b].event}
  /\ GoOn(b, TRUE)
  /\ UNCHANGED <<sendings, marks, life, published>>

(* dedup_ttl is over, or Redis evicts the key.                              *)
KeyExpires(k) ==
  /\ k \in marks /\ life[k] < MaxLapses
  /\ marks' = marks \ {k} /\ life' = [life EXCEPT ![k] = @ + 1]
  /\ UNCHANGED <<sendings, handling, blind, published, deadLetters, outages>>

(* publish_message, and on to the next position.                            *)
PublishKey(b) ==
  /\ handling[b].fresh
  /\ published' = [published EXCEPT ![Key(b)][handling[b].life] = @ + 1]
  /\ Advance(b)
  /\ UNCHANGED <<sendings, marks, life, blind, deadLetters, outages>>

(* publish_message swallows its error: the bridge goes on just the same.    *)
PublishKeyFails(b) ==
  /\ handling[b].fresh /\ outages < MaxOutages
  /\ outages' = outages + 1 /\ Advance(b)
  /\ UNCHANGED <<sendings, marks, life, blind, published, deadLetters>>

(* The bridge ends in the middle of a delivery, which comes again.          *)
BridgeCrashes(b) ==
  /\ handling[b] # NoDelivery /\ outages < MaxOutages
  /\ outages' = outages + 1
  /\ handling' = [handling EXCEPT ![b] = NoDelivery]
  /\ UNCHANGED <<sendings, marks, life, blind, published, deadLetters>>

BridgeNext ==
  \/ \E b \in Bridges, e \in Events : Receive(b, e)
  \/ \E b \in Bridges : DedupSet(b)
  \/ \E b \in Bridges : DedupFails(b)
  \/ \E k \in Keys : KeyExpires(k)
  \/ \E b \in Bridges : PublishKey(b)
  \/ \E b \in Bridges : PublishKeyFails(b)
  \/ \E b \in Bridges : BridgeCrashes(b)

BridgeSpec == BridgeInit /\ [][BridgeNext]_bridgeVars

-----------------------------------------------------------------------------
(* Properties *)

(* While Redis answers, an event and a position of a batch are published    *)
(* once at most in the lifetime of a dedup key, however often the envelope  *)
(* is sent or delivered, whichever bridges handle it and however late they  *)
(* publish: once in all until a key expires, and once more for each time    *)
(* it does (_dedup_set, _handle_location_batch).                            *)
PublishedOnce == \A k \in Keys : k[1] \notin blind => \A n \in Lives : published[k][n] <= 1

(* Expected to fail: what was marked and is no longer handled has been      *)
(* published. The mark is set first, so after a crash or a failed publish   *)
(* the redelivered envelope passes for a duplicate.                         *)
MarkedIsPublished ==
  \A k \in marks :
    /\ k[2] > 0 \/ ~Batch(k[1])
    /\ \A b \in Bridges : handling[b].event # k[1]
    => \E n \in Lives : published[k][n] > 0
=============================================================================
