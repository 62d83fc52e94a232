----------------------------- MODULE MCEdges --------------------------------
(* What the bus and its users meet at the edges, one part at a time: broker *)
(* clients, transports, entrances and dead letters.                         *)
EXTENDS TLC, RabbitBroker, PolledConsumer, BrokerProducer, EmployeeBridge,
        DeadLetters, Transports, Entrances

CONSTANTS m1, m2, e1, e2, e3, e4, p1, p2, p3, w1, w2, b1, b2, c1, c2, c3, c4, c5, c6, none
CONSTANT Subjects

VARIABLE subject

vars == <<subject, rabbitVars, polledVars, producerVars, bridgeVars, deadVars, transportVars, entranceVars>>

SomePositions == (e1 :> 0) @@ (e2 :> 2) @@ (e3 :> 0) @@ (e4 :> 0)

Init ==
  /\ subject \in Subjects /\ RabbitInit /\ PolledInit /\ ProducerInit /\ BridgeInit
  /\ DeadInit /\ TransportInit /\ EntranceInit
  /\ subject # "polled" => broker = "redis"
  /\ subject # "dead" => dsn
  /\ subject # "producer" => service = "redis"
  /\ subject # "transport" => transport = "memory" /\ ~explicit /\ broadcast = none

Rabbit(A) ==
  subject = "rabbit" /\ A
  /\ UNCHANGED <<subject, polledVars, producerVars, bridgeVars, deadVars, transportVars, entranceVars>>
Polled(A) ==
  subject = "polled" /\ A
  /\ UNCHANGED <<subject, rabbitVars, producerVars, bridgeVars, deadVars, transportVars, entranceVars>>
Producer(A) ==
  subject = "producer" /\ A
  /\ UNCHANGED <<subject, rabbitVars, polledVars, bridgeVars, deadVars, transportVars, entranceVars>>
Bridge(A) ==
  subject = "bridge" /\ A
  /\ UNCHANGED <<subject, rabbitVars, polledVars, producerVars, deadVars, transportVars, entranceVars>>
Dead(A) ==
  subject = "dead" /\ A
  /\ UNCHANGED <<subject, rabbitVars, polledVars, producerVars, bridgeVars, transportVars, entranceVars>>
Transport(A) ==
  subject = "transport" /\ A
  /\ UNCHANGED <<subject, rabbitVars, polledVars, producerVars, bridgeVars, deadVars, entranceVars>>
Entrance(A) ==
  subject = "entrance" /\ A
  /\ UNCHANGED <<subject, rabbitVars, polledVars, producerVars, bridgeVars, deadVars, transportVars>>

Next ==
  \/ Rabbit(\E t \in Tasks : FindClosed(t))
  \/ Rabbit(\E t \in Tasks : ConnectOk(t))
  \/ Rabbit(\E t \in Tasks : ConnectFails(t))
  \/ Rabbit(\E t \in Tasks : Resume(t))
  \/ Rabbit(Subscribe)
  \/ Rabbit(\E m \in Msgs : Arrive(m))
  \/ Rabbit(Deliver)
  \/ Rabbit(AnswerFails)
  \/ Rabbit(CallbackReturns)
  \/ Rabbit(CallbackRejects)
  \/ Rabbit(CallbackRaises)
  \/ Rabbit(RetryUnread)
  \/ Rabbit(Republish)
  \/ Rabbit(\E g \in live : ConnectionLost(g))
  \/ Rabbit(StopConsuming)
  \/ Rabbit(Disconnect)
  \/ Polled(\E e \in Entries : Send(e))
  \/ Polled(\E e \in Entries : GrowsOld(e))
  \/ Polled(StartConsumer)
  \/ Polled(AnotherStarts)
  \/ Polled(ReadBatch)
  \/ Polled(ReadFails)
  \/ Polled(ReclaimPending)
  \/ Polled(\E c \in Calls : CallbackEnds(c))
  \/ Polled(\E c \in Calls : NextMessage(c))
  \/ Polled(\E e \in Entries : VisibilityTimeout(e))
  \/ Polled(StopConsumer)
  \/ Producer(\E r \in Posts : ServiceAuth(r))
  \/ Producer(\E r \in Posts : EventPublisher(r))
  \/ Producer(\E w \in Publishers : TakeEvent(w))
  \/ Producer(\E w \in Publishers : PublishMessage(w))
  \/ Producer(\E w \in Publishers : PublishRaises(w))
  \/ Producer(\E w \in Publishers : PublishSwallows(w))
  \/ Producer(StopProducer)
  \/ Producer(CancelPublishers)
  \/ Bridge(\E b \in Bridges, e \in Events : Receive(b, e))
  \/ Bridge(\E b \in Bridges : DedupSet(b))
  \/ Bridge(\E b \in Bridges : DedupFails(b))
  \/ Bridge(\E k \in Keys : KeyExpires(k))
  \/ Bridge(\E b \in Bridges : PublishKey(b))
  \/ Bridge(\E b \in Bridges : PublishKeyFails(b))
  \/ Bridge(\E b \in Bridges : BridgeCrashes(b))
  \/ Dead(\E d \in Letters : Handled(d))
  \/ Dead(\E d \in Letters : OnDlq(d))
  \/ Dead(\E d \in Letters : Announced(d))
  \/ Dead(\E d \in Letters : AnnounceCancelled(d))
  \/ Dead(\E d \in Letters : Persist(d))
  \/ Dead(\E d \in Letters : PersistFails(d))
  \/ Dead(DeadCrash)
  \/ Dead(\E r \in Replays : ReplaySelect(r))
  \/ Dead(\E r \in Replays : ReplayTake(r))
  \/ Dead(\E r \in Replays : ReplayPublish(r))
  \/ Dead(\E r \in Replays : ReplayFails(r))
  \/ Dead(\E r \in Replays : ReplayMark(r))
  \/ Transport(StartSingle)
  \/ Transport(StartChannels)
  \/ Transport(\E e \in Sent : PublishMemory(e))
  \/ Transport(\E e \in Sent : PublishPubSub(e))
  \/ Transport(\E e \in Sent : PublishComposite(e))
  \/ Transport(PSubscribe)
  \/ Transport(LinkLost)
  \/ Transport(HandleMessage)
  \/ Transport(\E c \in Channels : Discover(c))
  \/ Transport(\E c \in Channels : ChannelEntry(c))
  \/ Transport(\E c \in Channels : BusRaises(c))
  \/ Transport(\E e \in Sent : Redeliver(e))
  \/ Transport(CloseSingle)
  \/ Transport(CloseChannels)
  \/ Entrance(\E c \in Entrants : RefuseCall(c))
  \/ Entrance(\E c \in Entrants : RefuseEvent(c))
  \/ Entrance(\E c \in Entrants : Emit(c))
  \/ Entrance(CoreStarts)
  \/ Entrance(\E c \in Entrants : Started(c))
  \/ Entrance(\E c \in Entrants : FanOut(c))
  \/ Entrance(\E c \in Entrants : Enqueue(c))
  \/ Entrance(\E c \in Entrants : Dispatch(c))
  \/ Entrance(\E c \in Entrants : Accept(c))
  \/ Entrance(\E c \in Entrants : PublishRefused(c))
  \/ Entrance(\E c \in Entrants : ProducerTimeout(c))
  \/ Entrance(StopIngress)
  \/ Entrance(CloseFacade)

Fairness ==
  /\ WF_vars(Rabbit(RabbitStep))
  /\ WF_vars(Polled(PolledStep))
  /\ WF_vars(Producer(ProducerStep))
  /\ WF_vars(Transport(TransportStep))

Spec == Init /\ [][Next]_vars
FairSpec == Spec /\ Fairness
=============================================================================
