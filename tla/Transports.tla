----------------------------- MODULE Transports -----------------------------
(***************************************************************************)
(* The transports a bus may be given (evb.py, backends/memory.py,          *)
(* backends/redis_pubsub.py, backends/composite.py): in the process, over  *)
(* Redis pub/sub with a consumer that reconnects, or as several channels   *)
(* over streams, one of which feeds the bus. The streams themselves are    *)
(* those of StreamsBackend; here they are one log.                         *)
(***************************************************************************)
EXTENDS Naturals, Sequences, FiniteSets

CONSTANTS
  Sent,        \* envelopes the bus fans out
  Poisoned,    \* envelopes that consumers cannot decode
  Channels,    \* the channels of a composite
  Broadcasters, \* which channels may be the broadcasting one, NoChannel: none is
  PublishVia,  \* the channel that publishes
  NoChannel,
  MaxOutage    \* bound: lost pub/sub connections, channels that do not start,
               \* errors of the bus in the feeder's callback

(* What CompositeBackend.__init__ accepts: channels of distinct names, at   *)
(* most one of them broadcasting, and publish_via names one of them.        *)
CompositeConfigOk ==
  /\ Channels # {} /\ PublishVia \in Channels
  /\ Broadcasters \subseteq Channels \cup {NoChannel}

ASSUME TransportAssumption == CompositeConfigOk /\ NoChannel \notin Channels

VARIABLES
  transport,   \* "memory", "pubsub" or "composite"
  explicit,    \* are the streams of the composite given, or discovered?
  broadcast,   \* the channel of the composite that broadcasts, or NoChannel
  consumers,   \* what has a consumer: {"bus"}, or channels of the composite
  joined,      \* channels whose consumer knows the stream
  open,        \* "new", "started" or "closed"
  linked,      \* does the pub/sub consumer hold a subscription?
  inbox,       \* messages of that subscription
  log,         \* the streams of the composite
  cursor,      \* channel -> entries it has gone through or passes over
  pending,     \* entries of the feeder whose callback raised, to be redelivered
  missed,      \* envelopes a broadcast feeder does not redeliver after that
  sent,        \* envelopes published
  busHeard,    \* envelope -> times the bus was called for it
  heard,       \* channel -> envelopes its own callback was called for
  outage

transportVars == <<transport, explicit, broadcast, consumers, joined, open, linked, inbox, log, cursor, pending, missed, sent, busHeard, heard, outage>>

(* _select_backend.                                                         *)
Selected == {"memory", "pubsub", "composite"}

TransportInit ==
  /\ transport \in Selected /\ explicit \in BOOLEAN /\ broadcast \in Broadcasters
  /\ joined = {} /\ pending = {} /\ missed = {}
  /\ consumers = {} /\ open = "new" /\ linked = FALSE /\ inbox = <<>> /\ log = <<>>
  /\ cursor = [c \in Channels |-> 0] /\ sent = {} /\ busHeard = [e \in Sent |-> 0]
  /\ heard = [c \in Channels |-> {}] /\ outage = 0

(* The channel whose entries feed the bus.                                  *)
Feeder == IF broadcast # NoChannel THEN broadcast ELSE PublishVia

(* A memory or pub/sub consumer.                                            *)
StartSingle ==
  /\ open = "new" /\ transport # "composite"
  /\ open' = "started" /\ consumers' = {"bus"}
  /\ UNCHANGED <<transport, explicit, broadcast, joined, pending, missed, linked, inbox, log, cursor, sent, busHeard, heard, outage>>

(* start_consumer of the composite: channel by channel, a failure is        *)
(* logged.                                                                  *)
StartChannels ==
  /\ open = "new" /\ transport = "composite"
  /\ open' = "started"
  /\ \E failed \in SUBSET Channels :
       /\ Cardinality(failed) <= MaxOutage - outage
       /\ consumers' = Channels \ failed /\ outage' = outage + Cardinality(failed)
  /\ UNCHANGED <<transport, explicit, broadcast, joined, linked, inbox, log, cursor, pending, missed, sent, busHeard, heard>>

(* The consumer of a channel finds the stream, which without streams= has   *)
(* to be there: a group starts at its beginning, a broadcast channel after  *)
(* what is in it by then.                                                   *)
Discover(c) ==
  /\ transport = "composite" /\ c \in consumers \ joined
  /\ explicit \/ log # <<>>
  /\ joined' = joined \cup {c}
  /\ cursor' = [cursor EXCEPT ![c] = IF c = broadcast THEN Len(log) ELSE 0]
  /\ UNCHANGED <<transport, explicit, broadcast, consumers, open, linked, inbox, log, pending, missed, sent, busHeard, heard, outage>>

CallBus(e) == busHeard' = [busHeard EXCEPT ![e] = @ + 1]

(* publish: into the process, to whoever is subscribed, or to the streams.  *)
PublishMemory(e) ==
  /\ transport = "memory" /\ e \notin sent /\ sent' = sent \cup {e}
  /\ IF "bus" \in consumers THEN CallBus(e) ELSE UNCHANGED busHeard
  /\ UNCHANGED <<transport, explicit, broadcast, joined, pending, missed, consumers, open, linked, inbox, log, cursor, heard, outage>>

PublishPubSub(e) ==
  /\ transport = "pubsub" /\ e \notin sent /\ open # "closed" /\ sent' = sent \cup {e}
  /\ inbox' = IF linked THEN Append(inbox, e) ELSE inbox
  /\ UNCHANGED <<transport, explicit, broadcast, joined, pending, missed, consumers, open, linked, log, cursor, busHeard, heard, outage>>

PublishComposite(e) ==
  /\ transport = "composite" /\ e \notin sent /\ open # "closed" /\ sent' = sent \cup {e}
  /\ log' = Append(log, e)
  /\ UNCHANGED <<transport, explicit, broadcast, joined, pending, missed, consumers, open, linked, inbox, cursor, busHeard, heard, outage>>

(* _run_consumer: connect and psubscribe.                                   *)
PSubscribe ==
  /\ transport = "pubsub" /\ open = "started" /\ ~linked
  /\ linked' = TRUE /\ inbox' = <<>>
  /\ UNCHANGED <<transport, explicit, broadcast, joined, pending, missed, consumers, open, log, cursor, sent, busHeard, heard, outage>>

(* The connection is lost, with what was on its way; the consumer sleeps    *)
(* for a delay that doubles, and subscribes anew.                           *)
LinkLost ==
  /\ linked /\ outage < MaxOutage
  /\ linked' = FALSE /\ inbox' = <<>> /\ outage' = outage + 1
  /\ UNCHANGED <<transport, explicit, broadcast, joined, pending, missed, consumers, open, log, cursor, sent, busHeard, heard>>

(* _handle_message: an envelope that cannot be decoded is dropped, an error *)
(* of the bus is logged.                                                    *)
HandleMessage ==
  /\ linked /\ inbox # <<>>
  /\ inbox' = Tail(inbox)
  /\ IF Head(inbox) \in Poisoned THEN UNCHANGED busHeard ELSE CallBus(Head(inbox))
  /\ UNCHANGED <<transport, explicit, broadcast, joined, pending, missed, consumers, open, linked, log, cursor, sent, heard, outage>>

(* Mutant of CallsChannel: the feeder's own callback is replaced.           *)
CallsChannelInstead(c) == c # Feeder

(* _chain_feeder_callback: the bus first, then the channel's own callback.  *)
CallsChannel(c) == c \in Channels

(* The bus is called for the entries of the feeder only.                    *)
CallsBus(c) == c = Feeder

(* _combined, or the channel's own callback.                                *)
Called(c, e) ==
  /\ IF CallsBus(c) THEN CallBus(e) ELSE UNCHANGED busHeard
  /\ heard' = IF CallsChannel(c) THEN [heard EXCEPT ![c] = @ \cup {e}] ELSE heard

(* One entry of a channel. What cannot be decoded is passed over.           *)
ChannelEntry(c) ==
  /\ transport = "composite" /\ c \in joined /\ cursor[c] < Len(log)
  /\ LET e == log[cursor[c] + 1] IN
       IF e \in Poisoned THEN UNCHANGED <<busHeard, heard>> ELSE Called(c, e)
  /\ cursor' = [cursor EXCEPT ![c] = @ + 1]
  /\ UNCHANGED <<transport, explicit, broadcast, consumers, joined, open, linked, inbox, log, pending, missed, sent, outage>>

(* The bus raises, and the feeder's own callback is not called. A group     *)
(* leaves the entry pending, a broadcast reader has moved on.               *)
BusRaises(c) ==
  /\ transport = "composite" /\ c \in joined /\ CallsBus(c) /\ cursor[c] < Len(log)
  /\ outage < MaxOutage /\ outage' = outage + 1
  /\ LET e == log[cursor[c] + 1] IN
       /\ e \notin Poisoned /\ CallBus(e)
       /\ IF c = broadcast
            THEN missed' = missed \cup {e} /\ UNCHANGED pending
            ELSE pending' = pending \cup {e} /\ UNCHANGED missed
  /\ cursor' = [cursor EXCEPT ![c] = @ + 1]
  /\ UNCHANGED <<transport, explicit, broadcast, consumers, joined, open, linked, inbox, log, sent, heard>>

(* The sweeper hands the entry out again.                                   *)
Redeliver(e) ==
  /\ e \in pending /\ Feeder \in consumers
  /\ pending' = pending \ {e} /\ Called(Feeder, e)
  /\ UNCHANGED <<transport, explicit, broadcast, consumers, joined, open, linked, inbox, log, cursor, missed, sent, outage>>

(* close: the consumer is cancelled and its subscription given up; errors   *)
(* of the client are swallowed.                                             *)
CloseSingle ==
  /\ open = "started" /\ transport # "composite" /\ open' = "closed"
  /\ consumers' = {} /\ linked' = FALSE /\ inbox' = <<>>
  /\ UNCHANGED <<transport, explicit, broadcast, joined, pending, missed, log, cursor, sent, busHeard, heard, outage>>

(* close of the composite: every channel's consumer, one failing or not.    *)
CloseChannels ==
  /\ open = "started" /\ transport = "composite" /\ open' = "closed"
  /\ consumers' = {}
  /\ UNCHANGED <<transport, explicit, broadcast, joined, pending, missed, linked, inbox, log, cursor, sent, busHeard, heard, outage>>

TransportStep ==
  \/ HandleMessage
  \/ \E c \in Channels : Discover(c) \/ ChannelEntry(c)
  \/ \E e \in Sent : Redeliver(e)

-----------------------------------------------------------------------------
(* Properties *)

(* Every channel with a consumer calls its own callback for every envelope  *)
(* that it can decode: a group channel for all in the stream, a broadcast   *)
(* channel for those published after it found the stream. That holds for    *)
(* the feeder too, unless it broadcasts and the bus raised for the          *)
(* envelope (start_consumer, _chain_feeder_callback).                       *)
ChannelsHear ==
  \A c \in Channels, e \in Sent \ Poisoned :
    (/\ c \in IF c = broadcast THEN joined ELSE consumers
     /\ \E i \in (cursor[c] + 1)..Len(log) : log[i] = e)
      ~> (e \in heard[c] \/ open = "closed" \/ (c = broadcast /\ e \in missed))

(* Expected to fail: a broadcast channel hears what was published after     *)
(* start_consumer. It looks for its streams later, and takes the first      *)
(* entry for an old one.                                                    *)
BroadcastHears ==
  \A c \in Channels, e \in Sent \ Poisoned :
    [](c = broadcast /\ c \in consumers /\ e \notin sent =>
         [](e \in sent => <>(e \in heard[c] \cup missed \/ open = "closed")))
=============================================================================
