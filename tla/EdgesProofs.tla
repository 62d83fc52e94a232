---------------------------- MODULE EdgesProofs -----------------------------
(***************************************************************************)
(* Machine-checked proofs about the parts at the edges of the bus: the     *)
(* employee bridge, the polling consumers, the dead letters and the ways   *)
(* in.  Each part has an inductive invariant, a step lemma for it and a    *)
(* theorem about the part's own specification.  The last section shows     *)
(* that the specification the run checks, MCEdges, is each of them as far  *)
(* as that part's variables are concerned.                                 *)
(***************************************************************************)
EXTENDS MCEdges, SequenceTheorems, TLAPS

-----------------------------------------------------------------------------
(* The employee bridge.                                                     *)

Delivery == [event : Events, pos : 0..MaxBatch, fresh : BOOLEAN, life : Lives]

(* What a bridge has in hand is a position that the batch has.              *)
BridgeTypes ==
  /\ handling \in [Bridges -> {NoDelivery} \cup Delivery]
  /\ \A b \in Bridges : handling[b] # NoDelivery => handling[b].pos <= Positions[handling[b].event]
  /\ marks \subseteq Keys
  /\ life \in [Keys -> Lives]
  /\ published \in [Keys -> [Lives -> Nat]]

(* A bridge that found its key new is the only one that did in that life of *)
(* the key, and has not published yet; a life in which no mark was set has  *)
(* seen nothing published.                                                  *)
BridgeInv ==
  /\ BridgeTypes
  /\ \A b \in Bridges : handling[b].fresh /\ handling[b].event \notin blind =>
       /\ published[Key(b)][handling[b].life] = 0
       /\ handling[b].life <= life[Key(b)]
       /\ handling[b].life = life[Key(b)] => Key(b) \in marks
  /\ \A b, c \in Bridges :
       handling[b].fresh /\ handling[c].fresh /\ Key(b) = Key(c) /\ handling[b].life = handling[c].life
         /\ handling[b].event \notin blind => b = c
  /\ \A k \in Keys : k[1] \notin blind => \A n \in Lives :
       /\ published[k][n] <= 1
       /\ n > life[k] => published[k][n] = 0
       /\ k \notin marks => published[k][life[k]] = 0

(* The next position of a batch is one the batch has.                       *)
LEMMA AdvanceType ==
  ASSUME BridgeTypes, NEW b \in Bridges, handling[b] # NoDelivery, Advance(b)
  PROVE  /\ handling' \in [Bridges -> {NoDelivery} \cup Delivery]
         /\ ~handling'[b].fresh
         /\ \A c \in Bridges : handling'[c] # NoDelivery =>
              handling'[c].pos <= Positions[handling'[c].event]
         /\ \A c \in Bridges : c # b => handling'[c] = handling[c]
<1> DEFINE h == handling[b]
<1>0. 0 \in Lives
  BY BridgeAssumption DEF Lives
<1>1. h \in Delivery /\ h.pos <= Positions[h.event] /\ Positions[h.event] \in 0..MaxBatch
  BY BridgeAssumption DEF BridgeTypes, Delivery
<1>2. CASE h.pos < Positions[h.event]
  <2>1. handling' = [handling EXCEPT ![b] = [event |-> h.event, pos |-> h.pos + 1, fresh |-> FALSE, life |-> 0]]
    BY <1>2 DEF Advance, At
  <2>2. h.pos + 1 \in 0..MaxBatch /\ h.pos + 1 <= Positions[h.event]
    BY <1>1, <1>2, BridgeAssumption DEF Delivery
  <2> QED  BY <1>0, <1>1, <2>1, <2>2 DEF Delivery, BridgeTypes
<1>3. CASE ~(h.pos < Positions[h.event])
  <2>1. handling' = [handling EXCEPT ![b] = NoDelivery]
    BY <1>3 DEF Advance, BridgeTypes
  <2> QED  BY <2>1 DEF BridgeTypes, NoDelivery, At
<1> QED  BY <1>2, <1>3

(* The key of what a bridge has in hand is a key.                           *)
LEMMA KeyIsKey ==
  ASSUME BridgeTypes, NEW b \in Bridges, handling[b] # NoDelivery
  PROVE  Key(b) \in Keys /\ handling[b] \in Delivery /\ Key(b)[1] = handling[b].event
BY DEF BridgeTypes, Delivery, Key, Keys

(* After its key was looked at a delivery is over or at another position,   *)
(* or it has taken the key in its present life.                             *)
Moved(b) ==
  /\ handling' \in [Bridges -> {NoDelivery} \cup Delivery]
  /\ \A c \in Bridges : handling'[c] # NoDelivery => handling'[c].pos <= Positions[handling'[c].event]
  /\ \A c \in Bridges : c # b => handling'[c] = handling[c]

Takes(b) ==
  /\ handling'[b].event = handling[b].event /\ handling'[b].pos = handling[b].pos
  /\ handling'[b].fresh /\ handling'[b].life = life[Key(b)]

LEMMA GoOnMoves ==
  ASSUME BridgeTypes, NEW b \in Bridges, handling[b] # NoDelivery, ~handling[b].fresh,
         NEW new \in BOOLEAN, GoOn(b, new)
  PROVE  Moved(b) /\ (~handling'[b].fresh \/ (new /\ Takes(b)))
<1>1. CASE Advance(b)
  BY <1>1, AdvanceType DEF Moved
<1>2. CASE handling' = [handling EXCEPT ![b] = NoDelivery]
  BY <1>2 DEF Moved, BridgeTypes, NoDelivery, At
<1>3. CASE new /\ handling' = [handling EXCEPT ![b].fresh = TRUE, ![b].life = life[Key(b)]]
  <2>1. handling[b] \in Delivery /\ Key(b) \in Keys /\ life[Key(b)] \in Lives
    BY KeyIsKey DEF BridgeTypes
  <2>2. handling'[b] = [event |-> handling[b].event, pos |-> handling[b].pos, fresh |-> TRUE, life |-> life[Key(b)]]
    BY <1>3, <2>1 DEF BridgeTypes, Delivery
  <2>3. handling'[b] \in Delivery
    BY <2>1, <2>2 DEF Delivery
  <2> QED  BY <1>3, <2>2, <2>3 DEF Moved, Takes, BridgeTypes
<1> QED  BY <1>1, <1>2, <1>3 DEF GoOn

LEMMA BridgeStep == ASSUME BridgeInv, [BridgeNext]_bridgeVars PROVE BridgeInv'
<1> USE DEF BridgeInv
<1>0. ASSUME NEW b \in Bridges, handling[b].fresh PROVE handling[b] # NoDelivery
  BY <1>0 DEF NoDelivery, At
<1>1. ASSUME NEW b \in Bridges, NEW e \in Events, Receive(b, e) PROVE BridgeInv'
  <2>0. UNCHANGED <<marks, life, blind, published>> /\ handling[b] = NoDelivery
    BY <1>1 DEF Receive
  <2>1. CASE UNCHANGED handling
    BY <2>0, <2>1 DEF BridgeTypes, Key
  <2>2. CASE handling' = [handling EXCEPT ![b] = At(e, 0)]
    <3>1. handling' = [handling EXCEPT ![b] = [event |-> e, pos |-> 0, fresh |-> FALSE, life |-> 0]]
      BY <2>2 DEF At
    <3>2. [event |-> e, pos |-> 0, fresh |-> FALSE, life |-> 0] \in Delivery /\ 0 <= Positions[e]
      BY BridgeAssumption DEF Delivery, Lives
    <3>4. BridgeTypes'
      BY <3>1, <3>2, <2>0 DEF BridgeTypes
    <3> QED  BY <3>1, <2>0, <3>4 DEF Key, BridgeTypes
  <2> QED  BY <1>1, <2>1, <2>2 DEF Receive
<1>2. ASSUME NEW b \in Bridges, handling[b] # NoDelivery, Moved(b), ~handling'[b].fresh,
             UNCHANGED <<life, published>>, marks' = marks \/ marks' = marks \cup {Key(b)},
             blind \subseteq blind'
      PROVE BridgeInv'
  <2>1. Key(b) \in Keys
    BY <1>2, KeyIsKey
  <2>2. BridgeTypes'
    BY <1>2, <2>1 DEF BridgeTypes, Moved
  <2>3. \A c \in Bridges : handling'[c].fresh => handling'[c] = handling[c] /\ Key(c)' = Key(c)
    BY <1>2 DEF Moved, Key
  <2>4. \A c \in Bridges : handling'[c].event \notin blind' => handling'[c].event \notin blind
    BY <1>2
  <2> QED  BY <1>2, <2>1, <2>2, <2>3, <2>4
<1>3. ASSUME NEW b \in Bridges, DedupSet(b) PROVE BridgeInv'
  <2>0. handling[b] # NoDelivery /\ ~handling[b].fresh /\ UNCHANGED <<blind, published, life>>
        /\ marks' = marks \cup {Key(b)} /\ GoOn(b, IsNew(b)) /\ IsNew(b) \in BOOLEAN
    BY <1>3 DEF DedupSet, IsNew
  <2>1. Key(b) \in Keys /\ handling[b] \in Delivery /\ Key(b)[1] = handling[b].event
    BY <2>0, KeyIsKey
  <2>2. Moved(b) /\ (~handling'[b].fresh \/ (IsNew(b) /\ Takes(b)))
    BY <2>0, GoOnMoves
  <2>3. CASE ~handling'[b].fresh
    BY <1>2, <2>0, <2>2, <2>3
  <2>4. CASE IsNew(b) /\ Takes(b)
    <3>1. BridgeTypes'
      BY <2>0, <2>1, <2>2 DEF BridgeTypes, Moved
    <3>2. handling'[b].event = handling[b].event /\ handling'[b].life = life[Key(b)]
          /\ \A c \in Bridges : c # b => handling'[c] = handling[c]
      BY <2>2, <2>4 DEF Moved, Takes
    <3>3. \A c \in Bridges : Key(c)' = Key(c)
      BY <2>2, <2>4 DEF Moved, Takes, Key
    <3>4. Key(b) \notin marks /\ life[Key(b)] \in Lives
      BY <2>1, <2>4 DEF IsNew, BridgeTypes
    <3>5. \A c \in Bridges : handling[c].fresh /\ Key(c) = Key(b) /\ handling[b].event \notin blind
            => handling[c].life # life[Key(b)]
      BY <3>4, <2>1 DEF Key
    <3>6. handling[b].event \notin blind => published[Key(b)][life[Key(b)]] = 0
      BY <2>1, <3>4
    <3>7. \A c \in Bridges : handling[c].fresh => Key(c) \in Keys
      BY <1>0, KeyIsKey
    <3>8. \A c \in Bridges : handling'[c].fresh /\ handling'[c].event \notin blind' =>
            /\ published'[Key(c)'][handling'[c].life] = 0
            /\ handling'[c].life <= life'[Key(c)']
            /\ handling'[c].life = life'[Key(c)'] => Key(c)' \in marks'
      <4> SUFFICES ASSUME NEW c \in Bridges, handling'[c].fresh, handling'[c].event \notin blind'
                   PROVE  /\ published[Key(c)][handling'[c].life] = 0
                          /\ handling'[c].life <= life[Key(c)]
                          /\ handling'[c].life = life[Key(c)] => Key(c) \in marks'
        BY <2>0, <3>3
      <4>1. CASE c = b
        BY <4>1, <2>0, <3>2, <3>4, <3>6 DEF Lives
      <4>2. CASE c # b
        BY <4>2, <2>0, <3>2
      <4> QED  BY <4>1, <4>2
    <3>9. \A c, d \in Bridges :
            handling'[c].fresh /\ handling'[d].fresh /\ Key(c)' = Key(d)' /\ handling'[c].life = handling'[d].life
              /\ handling'[c].event \notin blind' => c = d
      <4> SUFFICES ASSUME NEW c \in Bridges, NEW d \in Bridges, handling'[c].fresh, handling'[d].fresh,
                          Key(c) = Key(d), handling'[c].life = handling'[d].life,
                          handling'[c].event \notin blind
                   PROVE  c = d
        BY <2>0, <3>3
      <4>0. handling[c].event = handling'[c].event /\ handling[c].event = handling[d].event
        BY <3>2 DEF Key
      <4>1. CASE c = b /\ d # b
        BY <4>0, <4>1, <3>2, <3>5
      <4>2. CASE d = b /\ c # b
        BY <4>0, <4>2, <3>2, <3>5
      <4>3. CASE c # b /\ d # b
        BY <4>0, <4>3, <3>2
      <4> QED  BY <4>1, <4>2, <4>3
    <3>10. \A k \in Keys : k[1] \notin blind' => \A n \in Lives :
             /\ published'[k][n] <= 1
             /\ n > life'[k] => published'[k][n] = 0
             /\ k \notin marks' => published'[k][life'[k]] = 0
      BY <2>0
    <3> QED  BY <3>1, <3>8, <3>9, <3>10
  <2> QED  BY <2>2, <2>3, <2>4
<1>4. ASSUME NEW b \in Bridges, DedupFails(b) PROVE BridgeInv'
  <2>0. handling[b] # NoDelivery /\ ~handling[b].fresh /\ UNCHANGED <<marks, published, life>>
        /\ blind' = blind \cup {handling[b].event} /\ GoOn(b, TRUE)
    BY <1>4 DEF DedupFails
  <2>2. Moved(b) /\ (~handling'[b].fresh \/ Takes(b))
    BY <2>0, GoOnMoves
  <2>3. CASE ~handling'[b].fresh
    BY <1>2, <2>0, <2>2, <2>3
  <2>4. CASE Takes(b)
    <3>1. BridgeTypes'
      BY <2>0, <2>2 DEF BridgeTypes, Moved
    <3>2. handling'[b].event = handling[b].event
          /\ \A c \in Bridges : c # b => handling'[c] = handling[c]
      BY <2>2, <2>4 DEF Moved, Takes
    <3>3. \A c \in Bridges : Key(c)' = Key(c)
      BY <2>2, <2>4 DEF Moved, Takes, Key
    <3>4. \A c \in Bridges : Key(c) = Key(b) => handling[c].event = handling[b].event
      BY DEF Key
    <3> QED  BY <2>0, <3>1, <3>2, <3>3, <3>4
  <2> QED  BY <2>2, <2>3, <2>4
<1>5. ASSUME NEW k \in Keys, KeyExpires(k) PROVE BridgeInv'
  <2>0. k \in marks /\ life[k] < MaxLapses /\ marks' = marks \ {k}
        /\ life' = [life EXCEPT ![k] = @ + 1] /\ UNCHANGED <<handling, blind, published>>
    BY <1>5 DEF KeyExpires
  <2>1. life[k] \in Lives /\ life[k] + 1 \in Lives
    BY <2>0, BridgeAssumption DEF BridgeTypes, Lives
  <2>2. BridgeTypes'
    BY <2>0, <2>1 DEF BridgeTypes
  <2>3. \A c \in Bridges : Key(c)' = Key(c)
    BY <2>0 DEF Key
  <2>4. \A c \in Bridges : handling[c].fresh => Key(c) \in Keys /\ handling[c].life \in Lives
    BY <1>0, KeyIsKey DEF Delivery
  <2>5. life'[k] = life[k] + 1 /\ \A j \in Keys : j # k => life'[j] = life[j]
    BY <2>0 DEF BridgeTypes
  <2>6. \A j \in Keys : life[j] \in Lives
    BY DEF BridgeTypes
  <2>7. \A c \in Bridges : handling'[c].fresh /\ handling'[c].event \notin blind' =>
          /\ published'[Key(c)'][handling'[c].life] = 0
          /\ handling'[c].life <= life'[Key(c)']
          /\ handling'[c].life = life'[Key(c)'] => Key(c)' \in marks'
    <3> SUFFICES ASSUME NEW c \in Bridges, handling[c].fresh, handling[c].event \notin blind
                 PROVE  /\ published[Key(c)][handling[c].life] = 0
                        /\ handling[c].life <= life'[Key(c)]
                        /\ handling[c].life = life'[Key(c)] => Key(c) \in marks'
      BY <2>0, <2>3
    <3>1. CASE Key(c) = k
      BY <3>1, <2>1, <2>4, <2>5 DEF Lives
    <3>2. CASE Key(c) # k
      BY <3>2, <2>0, <2>4, <2>5
    <3> QED  BY <3>1, <3>2
  <2>8. \A j \in Keys : j[1] \notin blind' => \A n \in Lives :
          /\ published'[j][n] <= 1
          /\ n > life'[j] => published'[j][n] = 0
          /\ j \notin marks' => published'[j][life'[j]] = 0
    <3> SUFFICES ASSUME NEW j \in Keys, j[1] \notin blind, NEW n \in Lives
                 PROVE  /\ published[j][n] <= 1
                        /\ n > life'[j] => published[j][n] = 0
                        /\ j \notin marks' => published[j][life'[j]] = 0
      BY <2>0
    <3>1. CASE j = k
      BY <3>1, <2>1, <2>5 DEF Lives
    <3>2. CASE j # k
      BY <3>2, <2>0, <2>5
    <3> QED  BY <3>1, <3>2
  <2> QED  BY <2>0, <2>2, <2>3, <2>7, <2>8
<1>6. ASSUME NEW b \in Bridges, PublishKey(b) PROVE BridgeInv'
  <2>0. handling[b].fresh /\ handling[b] # NoDelivery /\ Advance(b) /\ UNCHANGED <<marks, life, blind>>
        /\ published' = [published EXCEPT ![Key(b)][handling[b].life] = @ + 1]
    BY <1>6, <1>0 DEF PublishKey
  <2>1. Key(b) \in Keys /\ handling[b] \in Delivery /\ Key(b)[1] = handling[b].event /\ handling[b].life \in Lives
    BY <2>0, KeyIsKey DEF Delivery
  <2>2. BridgeTypes'
    BY <2>0, <2>1, AdvanceType DEF BridgeTypes
  <2>3. \A c \in Bridges : handling'[c].fresh => c # b /\ handling'[c] = handling[c] /\ Key(c)' = Key(c)
    BY <2>0, AdvanceType DEF Key
  <2>4. \A c \in Bridges : c # b /\ handling[c].fresh /\ handling[c].event \notin blind =>
          Key(c) # Key(b) \/ handling[c].life # handling[b].life
    BY <2>0
  <2>5. \A k \in Keys, n \in Lives : k # Key(b) \/ n # handling[b].life => published'[k][n] = published[k][n]
    BY <2>0, <2>1 DEF BridgeTypes
  <2>6. handling[b].event \notin blind => published'[Key(b)][handling[b].life] = 1
    BY <2>0, <2>1 DEF BridgeTypes
  <2>7. \A c \in Bridges : handling[c].fresh => Key(c) \in Keys /\ handling[c].life \in Lives
    BY <1>0, KeyIsKey DEF Delivery
  <2>8. \A k \in Keys : life[k] \in Lives
    BY DEF BridgeTypes
  <2>9. \A k \in Keys : k[1] \notin blind' => \A n \in Lives :
          /\ published'[k][n] <= 1
          /\ n > life'[k] => published'[k][n] = 0
          /\ k \notin marks' => published'[k][life'[k]] = 0
    <3> SUFFICES ASSUME NEW k \in Keys, k[1] \notin blind, NEW n \in Lives
                 PROVE  /\ published'[k][n] <= 1
                        /\ n > life[k] => published'[k][n] = 0
                        /\ k \notin marks => published'[k][life[k]] = 0
      BY <2>0
    <3>1. CASE k = Key(b)
      <4>1. handling[b].life <= life[k] /\ (handling[b].life = life[k] => k \in marks)
        BY <3>1, <2>0, <2>1
      <4> QED  BY <4>1, <3>1, <2>1, <2>5, <2>6, <2>8 DEF Lives
    <3>2. CASE k # Key(b)
      BY <3>2, <2>5, <2>8
    <3> QED  BY <3>1, <3>2
  <2>10. \A c \in Bridges : handling'[c].fresh /\ handling'[c].event \notin blind' =>
          /\ published'[Key(c)'][handling'[c].life] = 0
          /\ handling'[c].life <= life'[Key(c)']
          /\ handling'[c].life = life'[Key(c)'] => Key(c)' \in marks'
    BY <2>0, <2>3, <2>4, <2>5, <2>7
  <2> QED  BY <2>0, <2>2, <2>3, <2>9, <2>10
<1>7. ASSUME NEW b \in Bridges, PublishKeyFails(b) PROVE BridgeInv'
  <2>0. handling[b] # NoDelivery /\ Advance(b) /\ UNCHANGED <<marks, life, blind, published>>
    BY <1>7, <1>0 DEF PublishKeyFails
  <2> QED  BY <1>2, <2>0, AdvanceType DEF Moved
<1>8. ASSUME NEW b \in Bridges, BridgeCrashes(b) PROVE BridgeInv'
  BY <1>8 DEF BridgeCrashes, BridgeTypes, Key, NoDelivery, At
<1>9. CASE UNCHANGED bridgeVars
  BY <1>9 DEF bridgeVars, BridgeTypes, Key
<1> QED
  BY <1>1, <1>3, <1>4, <1>5, <1>6, <1>7, <1>8, <1>9 DEF BridgeNext

(* Deduplication by SET NX: for any number of bridges, deliveries and       *)
(* batches, whatever expiries, crashes and failed publishes come between, a *)
(* key whose event never met a Redis failure is published once at most in   *)
(* each lifetime of its mark.                                               *)
THEOREM BridgePublishesOnce == BridgeSpec => []PublishedOnce
<1>1. BridgeInit => BridgeInv
  BY BridgeAssumption DEF BridgeInit, BridgeInv, BridgeTypes, NoDelivery, At, Lives
<1>2. BridgeInv => PublishedOnce
  BY DEF BridgeInv, PublishedOnce
<1>3. QED
  BY <1>1, <1>2, BridgeStep, PTL DEF BridgeSpec

-----------------------------------------------------------------------------
(* The polling consumers.                                                   *)

PolledTypes ==
  /\ entry \in [Entries -> {"unsent", "ready", "out", "gone", "trimmed"}]
  /\ batch \in [Calls -> Seq(Entries)]
  /\ called \in [Calls -> {"no", "ok", "raised"}]

(* A callback that ended without an error was that of the message in hand,  *)
(* and it was recorded; nothing has ended before a batch is read.           *)
PolledInv ==
  /\ PolledTypes
  /\ \A c \in Calls : batch[c] = <<>> => called[c] = "no"
  /\ \A c \in Calls : called[c] = "ok" => Head(batch[c]) \in succeeded \cup swallowed
  /\ GoneIsHandled

LEMMA PolledInvStep == ASSUME PolledInv, [PolledNext]_polledVars PROVE PolledInv'
<1> USE DEF PolledInv, PolledTypes, GoneIsHandled
<1>1. ASSUME NEW e \in Entries, Send(e) PROVE PolledInv'
  BY <1>1 DEF Send
<1>2. CASE StartConsumer
  BY <1>2 DEF StartConsumer, Trimmed
<1>12. CASE AnotherStarts
  BY <1>12 DEF AnotherStarts, Trimmed
<1>13. ASSUME NEW e \in Entries, GrowsOld(e) PROVE PolledInv'
  BY <1>13 DEF GrowsOld
<1>3. ASSUME NEW c \in Calls, NEW from, from \notin {"gone", "trimmed"}, Reads(c, from) PROVE PolledInv'
  <2>1. PICK s \in Batches({e \in Entries : entry[e] = from}) :
          /\ batch' = [batch EXCEPT ![c] = s]
          /\ entry' = [e \in Entries |-> IF \E i \in 1..Len(s) : s[i] = e THEN "out" ELSE entry[e]]
    BY <1>3 DEF Reads
  <2>2. s \in Seq(Entries)
    <3>1. PICK n \in 1..BatchSize : s \in [1..n -> {e \in Entries : entry[e] = from}]
      BY DEF Batches
    <3>2. n \in Nat
      BY <3>1, PolledAssumption
    <3>3. s \in [1..n -> Entries]
      BY <3>1
    <3> QED  BY <3>2, <3>3, SeqDef
  <2>3. UNCHANGED <<broker, old, called, succeeded, swallowed>> /\ batch[c] = <<>> /\ called[c] = "no"
    BY <1>3 DEF Reads
  <2> QED  BY <2>1, <2>2, <2>3
<1>4. CASE ReadBatch
  BY <1>4, <1>3 DEF ReadBatch, Calls
<1>5. CASE ReadFails
  BY <1>5 DEF ReadFails
<1>6. CASE ReclaimPending
  BY <1>6, <1>3 DEF ReclaimPending, Calls
<1>7. ASSUME NEW c \in Calls, CallbackEnds(c) PROVE PolledInv'
  BY <1>7 DEF CallbackEnds, Raises, Swallows
<1>8. ASSUME NEW c \in Calls, NextMessage(c) PROVE PolledInv'
  <2>1. batch[c] # <<>> /\ UNCHANGED <<broker, old, succeeded, swallowed>> /\ called' = [called EXCEPT ![c] = "no"]
        /\ entry' = IF Confirms(c) THEN [entry EXCEPT ![Head(batch[c])] = "gone"] ELSE entry
    BY <1>8 DEF NextMessage
  <2>2. Head(batch[c]) \in Entries /\ Tail(batch[c]) \in Seq(Entries)
    BY <2>1, HeadTailProperties
  <2>3. batch' \in [Calls -> Seq(Entries)] /\ \A k \in Calls : k # c => batch'[k] = batch[k]
    BY <1>8, <2>2 DEF NextMessage
  <2>4. Confirms(c) => Head(batch[c]) \in succeeded \cup swallowed
    BY DEF Confirms
  <2> QED  BY <2>1, <2>2, <2>3, <2>4
<1>9. ASSUME NEW e \in Entries, VisibilityTimeout(e) PROVE PolledInv'
  BY <1>9 DEF VisibilityTimeout
<1>10. CASE StopConsumer
  BY <1>10 DEF StopConsumer, Calls
<1>11. CASE UNCHANGED polledVars
  BY <1>11 DEF polledVars
<1> QED
  BY <1>1, <1>2, <1>4, <1>5, <1>6, <1>7, <1>8, <1>9, <1>10, <1>11, <1>12, <1>13 DEF PolledNext

(* Confirming after the callback: for Redis groups and SQS queues, any      *)
(* number of messages and any batch size, with reclaims, visibility         *)
(* timeouts, restarts and cancellation at any point, no message leaves      *)
(* unhandled but what is older than the seven days a start keeps.           *)
THEOREM PolledGoneIsHandled == PolledSpec => []GoneIsHandled
<1>1. PolledInit => PolledInv
  BY DEF PolledInit, PolledInv, PolledTypes, GoneIsHandled
<1>2. QED
  BY <1>1, PolledInvStep, PTL DEF PolledSpec, PolledInv

-----------------------------------------------------------------------------
(* The dead letters.                                                        *)

DeadTypes ==
  /\ failures \in [Letters -> Nat] /\ inserting \in [Letters -> Nat] /\ again \in [Letters -> Nat]
  /\ row \in [Letters -> {"none", "stored", "replayed"}]
  /\ replay \in [Replays -> [todo : SUBSET Letters, at : Letters \cup {"none"},
                             step : {"idle", "next", "publish", "mark"}]]

(* A replay marks the row of a letter that it has published, and nobody     *)
(* else marks rows.                                                         *)
DeadInv ==
  /\ DeadTypes
  /\ \A r \in Replays : replay[r].step \in {"publish", "mark"} => replay[r].at \in Letters
  /\ \A r \in Replays : replay[r].step = "mark" => again[replay[r].at] > 0
  /\ \A d \in Letters : row[d] = "replayed" => again[d] > 0
  /\ FailedIsStored

LEMMA DeadInvStep == ASSUME DeadInv, [DeadNext]_deadVars PROVE DeadInv'
<1> USE DEF DeadInv, DeadTypes, FailedIsStored
<1>0. ASSUME NEW r \in Replays
      PROVE  /\ NextRow(r) \in [todo : SUBSET Letters, at : Letters \cup {"none"},
                                step : {"idle", "next", "publish", "mark"}]
             /\ NextRow(r).step \notin {"publish", "mark"}
  BY DEF NextRow
<1>1. ASSUME NEW d \in Letters, Handled(d) PROVE DeadInv'
  BY <1>1 DEF Handled
<1>2. ASSUME NEW d \in Letters, OnDlq(d) PROVE DeadInv'
  BY <1>2 DEF OnDlq
<1>3. ASSUME NEW d \in Letters, Announced(d) PROVE DeadInv'
  BY <1>3 DEF Announced
<1>12. ASSUME NEW d \in Letters, AnnounceCancelled(d) PROVE DeadInv'
  BY <1>12 DEF AnnounceCancelled
<1>13. CASE DeadCrash
  BY <1>13 DEF DeadCrash, NoReplay
<1>4. ASSUME NEW d \in Letters, Persist(d) PROVE DeadInv'
  BY <1>4 DEF Persist
<1>5. ASSUME NEW d \in Letters, PersistFails(d) PROVE DeadInv'
  BY <1>5 DEF PersistFails
<1>6. ASSUME NEW r \in Replays, ReplaySelect(r) PROVE DeadInv'
  BY <1>6 DEF ReplaySelect
<1>7. ASSUME NEW r \in Replays, ReplayTake(r) PROVE DeadInv'
  BY <1>7 DEF ReplayTake
<1>8. ASSUME NEW r \in Replays, ReplayPublish(r) PROVE DeadInv'
  BY <1>8, SMTT(30) DEF ReplayPublish, Marked, MarksAt
<1>9. ASSUME NEW r \in Replays, ReplayFails(r) PROVE DeadInv'
  <2>1. replay' = [replay EXCEPT ![r] = NextRow(r)]
        /\ UNCHANGED <<failures, announcing, inserting, again, unstored, row>>
    BY <1>9 DEF ReplayFails, Marked, MarksAt
  <2> QED  BY <2>1, <1>0
<1>10. ASSUME NEW r \in Replays, ReplayMark(r) PROVE DeadInv'
  <2>1. replay' = [replay EXCEPT ![r] = NextRow(r)]
        /\ UNCHANGED <<failures, announcing, inserting, again, unstored>>
        /\ row' = [row EXCEPT ![replay[r].at] = "replayed"]
    BY <1>10 DEF ReplayMark, Marked, MarksAt
  <2>2. replay[r].at \in Letters /\ again[replay[r].at] > 0
    BY <1>10 DEF ReplayMark
  <2> QED  BY <2>1, <2>2, <1>0
<1>11. CASE UNCHANGED deadVars
  BY <1>11 DEF deadVars
<1> QED
  BY <1>1, <1>2, <1>3, <1>4, <1>5, <1>6, <1>7, <1>8, <1>9, <1>10, <1>11, <1>12, <1>13 DEF DeadNext

(* Publish, then mark: for any number of letters and concurrent replays,    *)
(* with errors, cancellations and crashes at every step, a letter that      *)
(* failed and was stored stays to be replayed until it was published again. *)
THEOREM DeadLettersAreStored == DeadSpec => []FailedIsStored
<1>1. DeadInit => DeadInv
  BY DEF DeadInit, DeadInv, DeadTypes, FailedIsStored, NoReplay
<1>2. QED
  BY <1>1, DeadInvStep, PTL DEF DeadSpec, DeadInv

-----------------------------------------------------------------------------
(* The ways in.                                                             *)

(* The core has taken an event only once its publish has gone through, and  *)
(* a caller is told something only when its call is over.                   *)
EntranceInv ==
  /\ pc \in [Entrants -> {"idle", "starting", "publishing", "enqueuing", "published", "done"}]
  /\ answer \in [Entrants -> {"none", "unauthorized", "rejected", "error", "timeout", "returned",
                              "accepted", "nothing"}]
  /\ \A c \in Entrants : c \in taken => pc[c] \in {"published", "done"}
  /\ \A c \in Entrants : pc[c] = "published" => c \in taken
  /\ \A c \in Entrants : answer[c] # "none" => pc[c] = "done"
  /\ AnswerIsTrue

LEMMA EntranceInvStep == ASSUME EntranceInv, [EntranceNext]_entranceVars PROVE EntranceInv'
<1> USE DEF EntranceInv, AnswerIsTrue
<1>1. ASSUME NEW c \in Entrants, RefuseCall(c) PROVE EntranceInv'
  BY <1>1 DEF RefuseCall, Tell
<1>2. ASSUME NEW c \in Entrants, RefuseEvent(c) PROVE EntranceInv'
  BY <1>2 DEF RefuseEvent, Tell
<1>3. ASSUME NEW c \in Entrants, Emit(c) PROVE EntranceInv'
  BY <1>3 DEF Emit
<1>4. CASE CoreStarts
  BY <1>4 DEF CoreStarts
<1>5. ASSUME NEW c \in Entrants, Started(c) PROVE EntranceInv'
  BY <1>5 DEF Started
<1>6. ASSUME NEW c \in Entrants, FanOut(c) PROVE EntranceInv'
  BY <1>6 DEF FanOut
<1>7. ASSUME NEW c \in Entrants, Enqueue(c) PROVE EntranceInv'
  BY <1>7 DEF Enqueue
<1>8. ASSUME NEW c \in Entrants, Dispatch(c) PROVE EntranceInv'
  BY <1>8 DEF Dispatch
<1>9. ASSUME NEW c \in Entrants, Accept(c) PROVE EntranceInv'
  BY <1>9 DEF Accept, Returned, Tell
<1>10. ASSUME NEW c \in Entrants, PublishRefused(c) PROVE EntranceInv'
  BY <1>10 DEF PublishRefused, Tell, Softened
<1>11. ASSUME NEW c \in Entrants, ProducerTimeout(c) PROVE EntranceInv'
  BY <1>11 DEF ProducerTimeout, Tell, Softened
<1>12. CASE StopIngress
  BY <1>12 DEF StopIngress
<1>13. CASE CloseFacade
  BY <1>13 DEF CloseFacade
<1>14. CASE UNCHANGED entranceVars
  BY <1>14 DEF entranceVars
<1> QED
  BY <1>1, <1>2, <1>3, <1>4, <1>5, <1>6, <1>7, <1>8, <1>9, <1>10, <1>11, <1>12, <1>13, <1>14
  DEF EntranceNext

(* The answers of facade, producer, web socket and gRPC are true, for any   *)
(* number of calls, whatever timeouts, stops and closes they meet.          *)
THEOREM EntranceAnswersAreTrue == EntranceSpec => []AnswerIsTrue
<1>1. EntranceInit => EntranceInv
  BY DEF EntranceInit, EntranceInv, AnswerIsTrue
<1>2. QED
  BY <1>1, EntranceInvStep, PTL DEF EntranceSpec, EntranceInv

-----------------------------------------------------------------------------
(* The specification that the run checks.  One part takes steps, the others *)
(* stand still.                                                             *)

(* What the run checks of the bridge is what is proved of it.               *)
THEOREM EdgesHasBridge == Spec => BridgeSpec
<1>1. Init => BridgeInit
  BY DEF Init
<1>2. ASSUME [Next]_vars PROVE [BridgeNext]_bridgeVars
  BY <1>2 DEF Next, vars, Rabbit, Polled, Producer, Bridge, Dead, Transport, Entrance, BridgeNext
<1>3. QED
  BY <1>1, <1>2, PTL DEF Spec, BridgeSpec

(* ... of the polling consumers ...                                         *)
THEOREM EdgesHasPolled == Spec => PolledSpec
<1>1. Init => PolledInit
  BY DEF Init
<1>2. ASSUME [Next]_vars PROVE [PolledNext]_polledVars
  BY <1>2 DEF Next, vars, Rabbit, Polled, Producer, Bridge, Dead, Transport, Entrance, PolledNext
<1>3. QED
  BY <1>1, <1>2, PTL DEF Spec, PolledSpec

(* ... of the dead letters ...                                              *)
THEOREM EdgesHasDead == Spec => DeadSpec
<1>1. Init => DeadInit
  BY DEF Init
<1>2. ASSUME [Next]_vars PROVE [DeadNext]_deadVars
  BY <1>2 DEF Next, vars, Rabbit, Polled, Producer, Bridge, Dead, Transport, Entrance, DeadNext
<1>3. QED
  BY <1>1, <1>2, PTL DEF Spec, DeadSpec

(* ... and of the ways in.                                                  *)
THEOREM EdgesHasEntrance == Spec => EntranceSpec
<1>1. Init => EntranceInit
  BY DEF Init
<1>2. ASSUME [Next]_vars PROVE [EntranceNext]_entranceVars
  BY <1>2 DEF Next, vars, Rabbit, Polled, Producer, Bridge, Dead, Transport, Entrance, EntranceNext
<1>3. QED
  BY <1>1, <1>2, PTL DEF Spec, EntranceSpec
=============================================================================
