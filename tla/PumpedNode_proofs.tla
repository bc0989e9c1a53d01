--------------------------- MODULE PumpedNode_proofs ---------------------------
(***************************************************************************)
(* Proofs about PumpedNode: no node dies unnoticed behind the request      *)
(* channel, connect does not wait for itself, and on the connection that   *)
(* connect made the broker publishes data only after its birth.            *)
(***************************************************************************)
EXTENDS PumpedNode, EdgeNode_proofs, SequenceTheorems
-----------------------------------------------------------------------------
(* Strengthenings that make the properties inductive. *)

Request ==
    Message \cup [type : {"SUBSCRIBE"}, filter : Devices \cup {"NCMD", "STATE"}]
            \cup {DisconnectRequest}

PumpTypeOK ==
    /\ TypeOK
    /\ {client, conn, world} \subseteq BdSeqs \cup {None}
    /\ channel \in Seq(Request)
    /\ {network, link, fresh} \subseteq BOOLEAN
    /\ published \in Seq(Message)
    /\ known \subseteq Scopes

\* The engine's connection is that of the client it has, and while the engine
\* goes on with it, bd_seq is the one the client registered as its will.
ClientInv ==
    session.open =>
        /\ session.will = client
        /\ lifecycle_ok \/ birth # None => bd_seq = client

\* So is the broker's, while the link is up.
ConnInv == link => conn = client /\ client # None

\* What waits in the channel was enqueued for the client there is.
ChannelBdSeq ==
    \A i \in DOMAIN channel :
        channel[i].type \in {"NBIRTH", "NDEATH"} => channel[i].bdSeq = client

\* DISCONNECT is the last request, and the engine's NDEATH is right before it or
\* was the last one sent.
GoodbyeInv ==
    \A i \in DOMAIN channel :
        channel[i].type = "DISCONNECT" =>
            /\ ~session.open
            /\ i = Len(channel)
            /\ IF i > 1
               THEN channel[i - 1].type = "NDEATH"
               ELSE link => world = None

\* Nothing is known of a node that is not believed alive.
DeadUnknown == world = None => known = {}

BirthOf(request, s) ==
    request.type = (IF s = None THEN "NBIRTH" ELSE "DBIRTH") /\ request.device = s

DeathOf(request, s) ==
    \/ request.type = "NDEATH"
    \/ request.type = "NBIRTH" /\ s # None
    \/ request.type = "DDEATH" /\ request.device = s

\* Somebody who hears the first n requests of the channel then knows the scope:
\* it was born among them or is known now, and did not die since.
KnownAfter(s, n) ==
    \E j \in 0 .. n :
        /\ IF j = 0 THEN s \in known ELSE BirthOf(channel[j], s)
        /\ \A k \in j + 1 .. n : ~DeathOf(channel[k], s)

\* On the connection that connect made, what the engine announced is known once
\* the channel is sent, and so is the scope of each request that needs it.
KnownInv ==
    fresh /\ link =>
        /\ \A i \in DOMAIN channel :
              /\ channel[i].type \in {"NDATA", "DDATA"} =>
                    KnownAfter(channel[i].device, i - 1)
              /\ channel[i].type = "DBIRTH" => KnownAfter(None, i - 1)
        /\ session.open =>
              \A s \in Scopes : announced[s] # None => KnownAfter(s, Len(channel))

\* A node without a primary host does not wait for one.
UngatedInv == ~config.gated => state # "WaitingForPrimaryHost"

\* A connect enqueues its subscriptions and the births published so far.
RoomInv ==
    birth # None /\ birth.by = "connect" =>
        Len(channel) <= Len(DeviceList) + 1 + birth.at
-----------------------------------------------------------------------------
\* The engine's part of a step is one of EdgeNode's, or it only waits.
LEMMA EngineStep ==
    ASSUME [PumpNext]_pumpVars
    PROVE  [Next]_vars \/ EngineIdle
BY DEF PumpNext, NodeConnects, NodeCalls, NodeReceives, NodePumps, NodeCrashes, NetworkFails,
       RebirthWindowEnds, Next, Connect, Environment, Calls, pumpVars

\* The engine stays well typed, and what it announced stays in step with its births.
LEMMA EngineInvStep ==
    ASSUME TypeOK, AnnouncedInv, [PumpNext]_pumpVars
    PROVE  TypeOK' /\ AnnouncedInv'
<1>1. CASE [Next]_vars
  BY <1>1, TypeOKStep, AnnouncedInvStep
<1>2. CASE EngineIdle
  BY <1>2, WaitingKeeps DEF EngineIdle, EngineWaits
<1> QED
  BY <1>1, <1>2, EngineStep
-----------------------------------------------------------------------------
(* What is in the channel. *)

SubscribeRequest == [type : {"SUBSCRIBE"}, filter : Devices \cup {"NCMD", "STATE"}]

\* A request is a message of the engine, or of another type than a message.
LEMMA RequestTypes ==
    /\ \A r \in Request : r.type \in MessageType <=> r \in Message
    /\ \A r \in Message : r \in Request /\ r.device \in Scopes
    /\ \A r \in SubscribeRequest : r \in Request /\ r.type = "SUBSCRIBE"
    /\ DisconnectRequest \in Request /\ DisconnectRequest.type = "DISCONNECT"
    /\ \A r \in Request : r.type = "DISCONNECT" => r = DisconnectRequest
<1>1. \A r \in Message : r.type \in MessageType /\ r.device \in Scopes
  BY DEF Message
<1>2. \A r \in SubscribeRequest : r.type = "SUBSCRIBE"
  BY DEF SubscribeRequest
<1>3. DisconnectRequest.type = "DISCONNECT"
  BY DEF DisconnectRequest
<1>4. "SUBSCRIBE" \notin MessageType /\ "DISCONNECT" \notin MessageType
  BY DEF MessageType
<1>5. Request = Message \cup SubscribeRequest \cup {DisconnectRequest}
  BY DEF Request, SubscribeRequest
<1> QED
  BY <1>1, <1>2, <1>3, <1>4, <1>5

\* The subscriptions of a connect are nothing else, all of them or some.
LEMMA SubscriptionsType ==
    /\ Subscriptions \in Seq(SubscribeRequest)
    /\ ~config.gated => Len(Subscriptions) = Len(DeviceList) + 1
    /\ \A n \in 0 .. Len(Subscriptions) - 1 :
          SubSeq(Subscriptions, 1, n) \in Seq(SubscribeRequest)
<1> DEFINE first == <<Subscribe("NCMD")>>
           devices == [i \in DOMAIN DeviceList |-> Subscribe(DeviceList[i])]
           last == IF config.gated THEN <<Subscribe("STATE")>> ELSE << >>
<1>1. \A f \in Devices \cup {"NCMD", "STATE"} : Subscribe(f) \in SubscribeRequest
  BY DEF Subscribe, SubscribeRequest
<1>2. first \in Seq(SubscribeRequest) /\ Len(first) = 1
  BY <1>1
<1>3. devices \in Seq(SubscribeRequest) /\ Len(devices) = Len(DeviceList)
  <2>1. DeviceList \in Seq(Devices) /\ DOMAIN DeviceList = 1 .. Len(DeviceList)
        /\ Len(DeviceList) \in Nat
    BY SparkplugAssumption
  <2>2. devices \in [1 .. Len(DeviceList) -> SubscribeRequest]
    BY <1>1, <2>1
  <2>3. \A S, n \in Nat : \A f \in [1 .. n -> S] : f \in Seq(S) /\ Len(f) = n
    OBVIOUS
  <2> QED
    BY <2>1, <2>2, <2>3
<1>4. last \in Seq(SubscribeRequest) /\ (~config.gated => last = << >>)
  BY <1>1
<1> HIDE DEF first, devices, last
<1>5. first \o devices \in Seq(SubscribeRequest) /\ Len(first \o devices) = Len(DeviceList) + 1
  <2>1. Len(DeviceList) \in Nat
    BY SparkplugAssumption
  <2>2. /\ first \o devices \in Seq(SubscribeRequest)
        /\ Len(first \o devices) = Len(first) + Len(devices)
    BY <1>2, <1>3, ConcatProperties
  <2>3. 1 + Len(DeviceList) = Len(DeviceList) + 1
    BY <2>1
  <2> QED
    BY <1>2, <1>3, <2>2, <2>3, Zenon
<1>6. (first \o devices) \o last \in Seq(SubscribeRequest)
      /\ (~config.gated => Len((first \o devices) \o last) = Len(DeviceList) + 1)
  BY <1>4, <1>5
<1>7. Subscriptions = (first \o devices) \o last
  BY DEF Subscriptions, first, devices, last
<1> HIDE DEF Subscriptions
<1>8. ASSUME NEW n \in 0 .. Len(Subscriptions) - 1
      PROVE  SubSeq(Subscriptions, 1, n) \in Seq(SubscribeRequest)
  <2>1. Subscriptions \in Seq(SubscribeRequest)
    BY <1>6, <1>7
  <2> QED
    BY <2>1
<1> QED
  BY <1>6, <1>7, <1>8

\* A channel of subscriptions is well typed and holds nothing else.
LEMMA OnlySubscriptions ==
    ASSUME NEW requests \in Seq(SubscribeRequest)
    PROVE  /\ requests \in Seq(Request)
           /\ \A i \in DOMAIN requests : requests[i].type = "SUBSCRIBE"
<1>1. \A i \in DOMAIN requests : requests[i] \in SubscribeRequest
  OBVIOUS
<1> QED
  BY <1>1, RequestTypes

\* What a step of the engine on its connection enqueues.
LEMMA EnqueueForms ==
    ASSUME channel \in Seq(Request), session.open, Enqueue(Requests)
    PROVE  /\ session' = session /\ out' = << >> => channel' = channel
           /\ \A m \in Request :
                 /\ session' = session /\ out' = <<m>> => channel' = Append(channel, m)
                 /\ ~session'.open /\ out' = <<m>> =>
                       channel' = Append(Append(channel, m), DisconnectRequest)
<1>1. channel' = channel \o Requests
  BY DEF Enqueue
<1>2. DisconnectRequest \in Request
  BY RequestTypes
<1>3. ASSUME session' = session, out' = << >>
      PROVE  channel' = channel
  BY <1>1, <1>3 DEF Requests
<1>4. ASSUME NEW m \in Request, session' = session, out' = <<m>>
      PROVE  channel' = Append(channel, m)
  <2>1. Requests = <<m>> \o << >>
    BY <1>4 DEF Requests
  <2> QED
    BY <1>1, <2>1
<1>5. ASSUME NEW m \in Request, ~session'.open, out' = <<m>>
      PROVE  channel' = Append(Append(channel, m), DisconnectRequest)
  <2>1. Requests = <<m>> \o <<DisconnectRequest>>
    BY <1>5 DEF Requests
  <2> HIDE DEF Requests
  <2>2. channel \o (<<m>> \o <<DisconnectRequest>>) = Append(Append(channel, m), DisconnectRequest)
    BY <1>2
  <2> QED
    BY <1>1, <2>1, <2>2
<1> QED
  BY <1>3, <1>4, <1>5
-----------------------------------------------------------------------------
(* What the engine enqueues. *)

\* The engine says nothing, enqueues one message, or says goodbye.
SaysNothing == channel' = channel /\ announced' = announced /\ session' = session

Says(m) == channel' = Append(channel, m) /\ announced' = Announce(m) /\ session' = session

SaysGoodbye ==
    /\ channel' = Append(Append(channel, NodeDeath(client)), DisconnectRequest)
    /\ ~session'.open

\* What the engine has to know before it enqueues the message.
MaySay(m) ==
    /\ m \in Message
    /\ m.type \in {"NBIRTH", "NDEATH"} => m.bdSeq = client
    /\ m.type = "NBIRTH" => m.device = None
    /\ m.type = "DBIRTH" => m.device # None /\ announced[None] # None
    /\ m.type \in {"NDATA", "DDATA"} /\ state # "WaitingForPrimaryHost" =>
          announced[m.device] # None

\* A call that goes on without an error is one on a client whose will is bd_seq.
LEMMA NodeSays ==
    ASSUME PumpTypeOK, ClientInv, AnnouncedInv, NodeCalls \/ NodeReceives
    PROVE  /\ session.open /\ bd_seq = client /\ bd_seq' = bd_seq /\ client # None
           /\ UNCHANGED <<client, network, link, conn, world, known, fresh>>
           /\ published' = << >> /\ (lifecycle_ok \/ birth # None)
           /\ SaysNothing \/ SaysGoodbye \/ \E m : MaySay(m) /\ Says(m)
<1>t. /\ TypeOK /\ channel \in Seq(Request)
      /\ session \in [open : BOOLEAN, will : BdSeqs \cup {None}]
  BY DEF PumpTypeOK, TypeOK
<1>1. /\ session.open /\ ~MustRetry /\ Enqueue(Requests)
      /\ UNCHANGED <<client, network, link, conn, world, known, fresh>>
      /\ published' = << >> /\ client # None
  BY DEF NodeCalls, NodeReceives, Enqueue, pumpObservers
<1>2. lifecycle_ok \/ birth # None
  BY <1>1 DEF MustRetry, Idle
<1>3. bd_seq = client
  BY <1>1, <1>2 DEF ClientInv
<1>4. ASSUME Quiet, session' = session
      PROVE  SaysNothing
  BY <1>t, <1>1, <1>4, EnqueueForms DEF Quiet, SaysNothing
<1>5. ASSUME NEW m \in Message, Send(m), session' = session
      PROVE  Says(m)
  <2>1. out' = <<m>> /\ announced' = Announce(m)
    BY <1>1, <1>5 DEF Send
  <2> QED
    BY <1>t, <1>1, <1>5, <2>1, EnqueueForms, RequestTypes DEF Says
<1>6. NodeDeath(bd_seq) \in Message /\ NodeDeath(bd_seq).bdSeq = bd_seq
      /\ NodeDeath(bd_seq).type = "NDEATH"
  BY <1>t, DeathType DEF NodeDeath
<1>7. ASSUME DisconnectOk \/ DisconnectFails
      PROVE  SaysNothing \/ SaysGoodbye \/ \E m : MaySay(m) /\ Says(m)
  <2>1. CASE DisconnectOk
    <3>1. out' = <<NodeDeath(bd_seq)>> /\ ~session'.open
      BY <1>t, <1>1, <2>1 DEF DisconnectOk, SendDeath, Send
    <3>2. NodeDeath(bd_seq) \in Request
      BY <1>6, RequestTypes
    <3>3. channel' = Append(Append(channel, NodeDeath(bd_seq)), DisconnectRequest)
      BY <1>t, <1>1, <3>1, <3>2, EnqueueForms
    <3>4. SaysGoodbye
      BY <1>3, <3>1, <3>3 DEF SaysGoodbye
    <3> QED
      BY <3>4
  <2>2. CASE DisconnectFails /\ Quiet
    BY <1>4, <2>2 DEF DisconnectFails
  <2>3. CASE DisconnectFails /\ SendDeath
    <3>1. Says(NodeDeath(bd_seq))
      BY <1>5, <1>6, <2>3 DEF DisconnectFails, SendDeath
    <3>2. MaySay(NodeDeath(bd_seq))
      BY <1>3, <1>6 DEF MaySay
    <3> QED
      BY <3>1, <3>2
  <2>4. DisconnectFails => Quiet \/ SendDeath
    BY DEF DisconnectFails
  <2> QED
    BY <1>7, <2>1, <2>2, <2>3, <2>4, Zenon
<1>8. CASE PublishNodeBirth
  <2>1. PICK m : m = NodeBirth(seq, BirthBdSeq, Aliased(NodeMetrics, next_alias))
    OBVIOUS
  <2>2. m \in Message /\ m.type = "NBIRTH" /\ m.bdSeq = bd_seq /\ m.device = None
    <3>1. Aliased(NodeMetrics, next_alias) \in Seq(Metric)
      BY <1>t, AliasedType, EdgeNodeAssumption DEF TypeOK
    <3> QED
      BY <1>t, <2>1, <3>1 DEF NodeBirth, BirthBdSeq, Message, MessageType, Scopes, TypeOK
  <2>3. session' = session /\ bd_seq' = bd_seq /\ (Send(m) \/ Quiet)
    BY <1>8, <2>1 DEF PublishNodeBirth
  <2>4. MaySay(m)
    BY <1>3, <2>2 DEF MaySay
  <2> QED
    BY <1>1, <1>2, <1>3, <1>4, <1>5, <2>2, <2>3, <2>4
<1>9. CASE PublishDeviceBirth
  <2>1. PICK d, m : /\ d = DeviceList[birth.at]
                    /\ m = Sequenced("DBIRTH", d, seq, Aliased(DeviceMetrics[d], next_alias))
    OBVIOUS
  <2>2. birth # None /\ birth.at \in 1 .. Len(DeviceList)
    BY <1>t, <1>9, SparkplugAssumption DEF PublishDeviceBirth, Idle, TypeOK, BirthProgress
  <2>3. d \in Devices
    BY <2>1, <2>2, SparkplugAssumption DEF Devices
  <2>4. m \in Message /\ m.type = "DBIRTH" /\ m.device # None
    <3>1. Aliased(DeviceMetrics[d], next_alias) \in Seq(Metric)
      BY <1>t, <2>3, AliasedType, EdgeNodeAssumption DEF TypeOK
    <3>2. d \in Scopes /\ seq \in Seqs /\ "DBIRTH" \in MessageType
      BY <1>t, <2>3 DEF Scopes, TypeOK, MessageType
    <3>3. d # None
      BY <2>3, SparkplugAssumption
    <3> QED
      BY <2>1, <3>1, <3>2, <3>3, SequencedType DEF Sequenced
  <2>5. session' = session /\ bd_seq' = bd_seq /\ (Send(m) \/ Quiet)
    BY <1>9, <2>1 DEF PublishDeviceBirth
  <2>6. MaySay(m)
    BY <1>1, <2>2, <2>4 DEF MaySay, AnnouncedInv
  <2> QED
    BY <1>1, <1>2, <1>3, <1>4, <1>5, <2>4, <2>5, <2>6
<1>10. CASE PublishNodeData
  <2>1. /\ session' = session /\ bd_seq' = bd_seq /\ state = "Online" /\ lifecycle_ok
        /\ seq \in Seqs
    BY <1>t, <1>2, <1>10 DEF PublishNodeData, NodeDataAllowed, Idle, TypeOK
  <2>2. PICK i \in DOMAIN NodeMetrics :
            \/ Send(Sequenced("NDATA", None, seq, <<DataMetric(NodeMetrics[i])>>))
            \/ Quiet
    BY <1>10 DEF PublishNodeData
  <2>3. PICK m : m = Sequenced("NDATA", None, seq, <<DataMetric(NodeMetrics[i])>>)
    OBVIOUS
  <2>4. m \in Message /\ m.type = "NDATA" /\ m.device = None
    <3>1. NodeMetrics[i] \in Names
      BY EdgeNodeAssumption
    <3>2. DataMetric(NodeMetrics[i]) \in Metric
      BY <1>t, <3>1, DataMetricType
    <3>3. <<DataMetric(NodeMetrics[i])>> \in Seq(Metric) /\ None \in Scopes /\ "NDATA" \in MessageType
      BY <3>2 DEF Scopes, MessageType
    <3> QED
      BY <2>1, <2>3, <3>3, SequencedType DEF Sequenced
  <2>5. MaySay(m)
    BY <1>1, <2>1, <2>4 DEF MaySay, AnnouncedInv
  <2> QED
    BY <1>1, <1>2, <1>3, <1>4, <1>5, <2>1, <2>2, <2>3, <2>4, <2>5
<1>11. ASSUME NEW d \in Devices, PublishDeviceData(d)
       PROVE  bd_seq' = bd_seq /\ (SaysNothing \/ SaysGoodbye \/ \E m : MaySay(m) /\ Says(m))
  <2>1. /\ session' = session /\ bd_seq' = bd_seq /\ lifecycle_ok /\ d \in born_devices
        /\ seq \in Seqs
    BY <1>t, <1>2, <1>11 DEF PublishDeviceData, Idle, TypeOK
  <2>2. PICK i \in DOMAIN DeviceMetrics[d] :
            \/ Send(Sequenced("DDATA", d, seq, <<DataMetric(DeviceMetrics[d][i])>>))
            \/ Quiet
    BY <1>11 DEF PublishDeviceData
  <2>3. PICK m : m = Sequenced("DDATA", d, seq, <<DataMetric(DeviceMetrics[d][i])>>)
    OBVIOUS
  <2>4. m \in Message /\ m.type = "DDATA" /\ m.device = d
    <3>1. DeviceMetrics[d][i] \in Names
      BY EdgeNodeAssumption
    <3>2. DataMetric(DeviceMetrics[d][i]) \in Metric
      BY <1>t, <3>1, DataMetricType
    <3>3. <<DataMetric(DeviceMetrics[d][i])>> \in Seq(Metric) /\ d \in Scopes /\ "DDATA" \in MessageType
      BY <3>2 DEF Scopes, MessageType
    <3> QED
      BY <2>1, <2>3, <3>3, SequencedType DEF Sequenced
  <2>5. MaySay(m)
    BY <1>1, <2>1, <2>4 DEF MaySay, AnnouncedInv, DevicesAnnounced
  <2> QED
    BY <1>4, <1>5, <2>1, <2>2, <2>3, <2>4, <2>5
<1>12. ASSUME NEW d \in Devices, PublishDeviceDeath(d)
       PROVE  bd_seq' = bd_seq /\ (SaysNothing \/ SaysGoodbye \/ \E m : MaySay(m) /\ Says(m))
  <2>1. PICK m : m = Sequenced("DDEATH", d, seq, << >>)
    OBVIOUS
  <2>2. /\ session' = session /\ bd_seq' = bd_seq /\ (Send(m) \/ Quiet)
    BY <1>12, <2>1 DEF PublishDeviceDeath
  <2>3. m \in Message /\ m.type = "DDEATH"
    <3>1. << >> \in Seq(Metric) /\ d \in Scopes /\ "DDEATH" \in MessageType /\ seq \in Seqs
      BY <1>t DEF Scopes, MessageType, TypeOK
    <3> QED
      BY <2>1, <3>1, SequencedType DEF Sequenced
  <2>4. MaySay(m)
    BY <2>3 DEF MaySay
  <2> QED
    BY <1>4, <1>5, <2>2, <2>3, <2>4
<1>13. CASE Disconnect
  BY <1>1, <1>2, <1>3, <1>7, <1>13 DEF Disconnect
<1>14. CASE CallPublishBirthSequence \/ HandleRebirth
  BY <1>1, <1>2, <1>3, <1>4, <1>14 DEF CallPublishBirthSequence, HandleRebirth
<1>15. ASSUME NEW ts \in Timestamps, HandleHostOnline(ts)
       PROVE  bd_seq' = bd_seq /\ SaysNothing
  BY <1>4, <1>15 DEF HandleHostOnline
<1>16. ASSUME NEW ts \in Timestamps, HandleHostOffline(ts)
       PROVE  bd_seq' = bd_seq /\ (SaysNothing \/ SaysGoodbye \/ \E m : MaySay(m) /\ Says(m))
  BY <1>4, <1>7, <1>16 DEF HandleHostOffline
<1>17. bd_seq' = bd_seq /\ (SaysNothing \/ SaysGoodbye \/ \E m : MaySay(m) /\ Says(m))
  BY <1>8, <1>9, <1>10, <1>11, <1>12, <1>13, <1>14, <1>15, <1>16
  DEF NodeCalls, NodeReceives, Calls, Publish
<1> QED
  BY <1>1, <1>2, <1>3, <1>17
-----------------------------------------------------------------------------
(* What connect does to the transport. *)

\* A connect that fails leaves the client as it was, though an attempt that was
\* dropped may cost it its connection; another starts afresh.
ConnectStays ==
    /\ SaysNothing /\ UNCHANGED <<client, network, fresh>>
    /\ ~lifecycle_ok' /\ birth' = None
    /\ \/ UNCHANGED <<link, conn>> /\ published' = << >>
       \/ ~link' /\ conn' \in BdSeqs /\ published' = WillOfOld

ConnectAfresh ==
    /\ session' = [open |-> TRUE, will |-> bd_seq'] /\ bd_seq' \in BdSeqs
    /\ client' = bd_seq' /\ conn' = bd_seq'
    /\ link' /\ network' /\ fresh'
    /\ channel' \in Seq(SubscribeRequest)
    /\ announced' = NothingAnnounced
    /\ published' = WillOfOld
    /\ birth' # None =>
          /\ birth' = [at |-> 0, by |-> "connect"]
          /\ Len(channel') = Len(DeviceList) + 1

LEMMA NodeConnectsMoves ==
    ASSUME PumpTypeOK, NodeConnects
    PROVE  Hear /\ (ConnectStays \/ ConnectAfresh)
<1>t. TypeOK
  BY DEF PumpTypeOK
<1>h. Hear
  BY DEF NodeConnects
<1>1. CASE ConnectStoreFails /\ TransportIdle /\ UNCHANGED fresh
  BY <1>h, <1>1 DEF ConnectStoreFails, TransportIdle, ConnectStays, SaysNothing, MayConnect, Idle, Quiet
<1>b. TakeBdSeq => bd_seq' \in BdSeqs
  BY <1>t, TakeBdSeqType
<1>2. CASE ConnectRefused /\ TransportConnectFails(bd_seq') /\ UNCHANGED fresh
  BY <1>h, <1>b, <1>2
  DEF ConnectRefused, TransportConnectFails, ConnectStays, SaysNothing, MayConnect, Idle, Quiet
<1>3. ASSUME ConnectSubscribeFails, NEW n \in 0 .. Len(Subscriptions) - 1, fresh' = TRUE,
             TransportConnects(bd_seq', SubSeq(Subscriptions, 1, n))
      PROVE  ConnectAfresh
  <2>1. SubSeq(Subscriptions, 1, n) \in Seq(SubscribeRequest)
    BY <1>3, SubscriptionsType
  <2> QED
    BY <1>b, <1>3, <2>1
    DEF ConnectSubscribeFails, TransportConnects, FirstRequests, ConnectAfresh, Open, MayConnect, Idle
<1>4. ASSUME ConnectAndWait \/ ConnectAndBirth, fresh' = TRUE,
             TransportConnects(bd_seq', Subscriptions)
      PROVE  ConnectAfresh
  <2>1. Subscriptions \in Seq(SubscribeRequest)
    BY SubscriptionsType
  <2>2. ~config.gated => Len(Subscriptions) = Len(DeviceList) + 1
    BY SubscriptionsType
  <2> HIDE DEF Subscriptions
  <2>3. bd_seq' \in BdSeqs /\ session' = [open |-> TRUE, will |-> bd_seq']
        /\ announced' = NothingAnnounced
    BY <1>b, <1>4 DEF ConnectAndWait, ConnectAndBirth, Open
  <2>4. birth' # None => ~config.gated /\ birth' = [at |-> 0, by |-> "connect"]
    BY <1>4 DEF ConnectAndWait, ConnectAndBirth, StartBirths, MayConnect, Idle
  <2> QED
    BY <1>4, <2>1, <2>2, <2>3, <2>4 DEF TransportConnects, FirstRequests, ConnectAfresh
<1> QED
  BY <1>h, <1>1, <1>2, <1>3, <1>4 DEF NodeConnects

\* Nothing is heard when the broker publishes nothing.
LEMMA HearNothing ==
    ASSUME published' = << >>, Hear
    PROVE  world' = world /\ known' = known
BY DEF Hear

\* The will of the connection that the broker holds ends the life that is known.
LEMMA HearWill ==
    ASSUME PumpTypeOK, DeathIsTold, world = None => known = {}, published' = WillOfOld, Hear
    PROVE  world' = None /\ known' = {}
<1>1. CASE conn = None
  BY <1>1, HearNothing DEF WillOfOld, DeathIsTold
<1>2. CASE conn # None
  <2>1. PICK m : m = NodeDeath(conn)
    OBVIOUS
  <2>2. m.type = "NDEATH" /\ m.bdSeq = conn /\ published' = <<m>>
    BY <1>2, <2>1 DEF NodeDeath, WillOfOld
  <2>3. published' # << >> /\ published'[1] = m
    BY <2>2
  <2>4. CASE world = None
    BY <1>2, <2>2, <2>3, <2>4 DEF Hear
  <2>5. CASE world # None
    BY <2>2, <2>3, <2>5 DEF Hear, DeathIsTold
  <2> QED
    BY <2>4, <2>5
<1> QED
  BY <1>1, <1>2
-----------------------------------------------------------------------------
(* What the event loop does. *)

\* What is sent is published if it is a message, and heard as what it says.
HeardAs(r) ==
    /\ r.type = "NBIRTH" => world' = r.bdSeq /\ known' = {None}
    /\ r.type = "NDEATH" =>
          \/ r.bdSeq = world /\ world' = None /\ known' = {}
          \/ r.bdSeq # world /\ world' = world /\ known' = known
    /\ r.type = "DBIRTH" =>
          /\ world' = world
          /\ world # None => known' = known \cup {r.device}
          /\ world = None => known' = known
    /\ r.type = "DDEATH" => world' = world /\ known' = known \ {r.device}
    /\ r.type \notin {"NBIRTH", "NDEATH", "DBIRTH", "DDEATH"} => world' = world /\ known' = known
    /\ r.type \in MessageType => published' = <<r>>
    /\ r.type \notin MessageType => published' = << >>

\* The first request of a channel, and what is left.
LEMMA FirstOfChannel ==
    ASSUME channel \in Seq(Request), channel # << >>
    PROVE  /\ Head(channel) = channel[1] /\ channel[1] \in Request
           /\ Tail(channel) \in Seq(Request)
           /\ Len(channel) \in Nat /\ Len(channel) >= 1
           /\ Len(Tail(channel)) = Len(channel) - 1
           /\ DOMAIN channel = 1 .. Len(channel)
           /\ DOMAIN Tail(channel) = 1 .. Len(channel) - 1
           /\ \A i \in 1 .. Len(channel) - 1 : Tail(channel)[i] = channel[i + 1]
<1>1. /\ Tail(channel) \in Seq(Request) /\ Len(Tail(channel)) = Len(channel) - 1
      /\ \A i \in 1 .. Len(Tail(channel)) : Tail(channel)[i] = channel[i + 1]
      /\ Head(channel) \in Request
  BY HeadTailProperties
<1>2. Len(channel) \in Nat /\ DOMAIN channel = 1 .. Len(channel) /\ Head(channel) = channel[1]
  OBVIOUS
<1>3. Len(channel) # 0
  BY EmptySeq
<1>4. DOMAIN Tail(channel) = 1 .. Len(Tail(channel))
  BY <1>1
<1> QED
  BY <1>1, <1>2, <1>3, <1>4

\* The event loop sends the first request, on a live connection or a broken one.
Sends(r) ==
    /\ channel # << >> /\ r = channel[1] /\ r \in Request /\ channel' = Tail(channel)
    /\ UNCHANGED <<client, fresh>>
    /\ \/ ~link /\ ~link' /\ conn' = conn /\ world' = world /\ known' = known
          /\ published' = << >>
       \/ /\ link /\ HeardAs(r)
          /\ r.type = "DISCONNECT" => conn' = None /\ ~link'
          /\ r.type # "DISCONNECT" => conn' = conn /\ link'

Reconnects ==
    /\ channel' \in {channel, << >>}
    /\ client # None /\ link' /\ conn' = client /\ ~fresh' /\ client' = client
    /\ published' = WillOfOld

\* It, or the broker, notices that the connection is broken.
Breaks ==
    /\ UNCHANGED <<client, channel, fresh>> /\ ~link'
    /\ \/ conn' = conn /\ published' = << >>
       \/ conn' = None /\ published' = WillOfOld

LEMMA TransmitMoves ==
    ASSUME PumpTypeOK, Transmit, Hear, UNCHANGED fresh
    PROVE  \E r : Sends(r)
<1>1. /\ channel # << >> /\ Head(channel) = channel[1] /\ channel[1] \in Request
  BY FirstOfChannel DEF PumpTypeOK, Transmit
<1>2. PICK r : r = channel[1]
  OBVIOUS
<1>3. /\ channel' = Tail(channel) /\ client' = client /\ r \in Request
      /\ published' = IF link /\ r.type \in MessageType THEN <<r>> ELSE << >>
      /\ IF link /\ r.type = "DISCONNECT"
         THEN conn' = None /\ link' = FALSE
         ELSE UNCHANGED <<conn, link>>
  BY <1>1, <1>2 DEF Transmit
<1>4. CASE ~link
  BY <1>1, <1>2, <1>3, <1>4, HearNothing DEF Sends
<1>5. CASE link
  <2>1. HeardAs(r)
    <3>1. CASE r.type \in MessageType
      <4>1. published' = <<r>> /\ published' # << >> /\ published'[1] = r
        BY <1>3, <1>5, <3>1
      <4> QED
        BY <3>1, <4>1 DEF Hear, HeardAs, MessageType
    <3>2. CASE r.type \notin MessageType
      <4>1. world' = world /\ known' = known /\ published' = << >>
        BY <1>3, <3>2, HearNothing
      <4> QED
        BY <3>2, <4>1 DEF HeardAs, MessageType
    <3> QED
      BY <3>1, <3>2
  <2> QED
    BY <1>1, <1>2, <1>3, <1>5, <2>1 DEF Sends
<1> QED
  BY <1>4, <1>5

\* These are the steps that are none of the engine's calls.
LEMMA PumpMoves ==
    ASSUME PumpTypeOK, NodePumps \/ NetworkFails
    PROVE  /\ EngineIdle /\ Hear
           /\ (\E r : Sends(r)) \/ Reconnects \/ Breaks
<1>1. EngineIdle /\ Hear
  BY DEF NodePumps, NetworkFails
<1>2. CASE Transmit /\ UNCHANGED fresh
  BY <1>1, <1>2, TransmitMoves
<1>3. CASE RecvFails /\ UNCHANGED fresh
  BY <1>1, <1>3 DEF RecvFails, Breaks
<1>4. CASE Reconnect /\ fresh' = FALSE
  BY <1>1, <1>4 DEF Reconnect, Reconnects
<1>5. CASE LinkBreaks /\ UNCHANGED fresh
  BY <1>1, <1>5 DEF LinkBreaks, Breaks
<1>6. CASE BrokerNotices /\ UNCHANGED fresh
  BY <1>1, <1>6 DEF BrokerNotices, Breaks
<1> QED
  BY <1>1, <1>2, <1>3, <1>4, <1>5, <1>6 DEF NodePumps, NetworkFails

\* A crash leaves the broker's end to itself.
CrashMoves ==
    /\ ~session'.open /\ birth' = None /\ client' = None /\ channel' = << >> /\ ~link'
    /\ UNCHANGED <<conn, world, known, fresh>>
    /\ published' = << >> /\ network' = FALSE

\* The rest touches neither the transport nor what the engine has announced.
Stays ==
    /\ UNCHANGED <<client, channel, network, link, conn, world, known, fresh,
                   session, announced, bd_seq, birth, lifecycle_ok>>
    /\ published' \in {<< >>, published}

\* These are all the steps there are.
LEMMA PumpSteps ==
    ASSUME PumpTypeOK, ClientInv, AnnouncedInv, [PumpNext]_pumpVars
    PROVE  \/ NodeConnects /\ Hear /\ (ConnectStays \/ ConnectAfresh)
           \/ (NodeCalls \/ NodeReceives) /\ (SaysNothing \/ SaysGoodbye \/ \E m : MaySay(m) /\ Says(m))
           \/ EngineIdle /\ Hear /\ ((\E r : Sends(r)) \/ Reconnects \/ Breaks)
           \/ CrashMoves
           \/ Stays
<1>1. CASE NodeConnects
  BY <1>1, NodeConnectsMoves
<1>2. CASE NodeCalls \/ NodeReceives
  BY <1>2, NodeSays
<1>3. CASE NodePumps \/ NetworkFails
  BY <1>3, PumpMoves
<1>4. CASE NodeCrashes
  BY <1>4 DEF NodeCrashes, Crash, ProcessDies, pumpObservers, NoSession, CrashMoves
<1>5. CASE RebirthWindowEnds
  BY <1>5 DEF RebirthWindowEnds, DebounceElapses, TransportIdle, pumpObservers, Quiet, Stays
<1>6. CASE UNCHANGED pumpVars
  BY <1>6 DEF pumpVars, vars, transportVars, pumpObservers, Stays
<1> QED
  BY <1>1, <1>2, <1>3, <1>4, <1>5, <1>6 DEF PumpNext
-----------------------------------------------------------------------------
(* Type correctness. *)

\* Every step keeps engine, transport and observers well typed.
LEMMA PumpTypeStep ==
    ASSUME PumpTypeOK, ClientInv, AnnouncedInv, DeathIsTold, DeadUnknown,
           [PumpNext]_pumpVars
    PROVE  PumpTypeOK'
<1>t. /\ channel \in Seq(Request) /\ {client, conn, world} \subseteq BdSeqs \cup {None}
      /\ {network, link, fresh} \subseteq BOOLEAN /\ published \in Seq(Message)
      /\ known \subseteq Scopes
  BY DEF PumpTypeOK
<1>e. TypeOK' /\ << >> \in Seq(Request) /\ << >> \in Seq(Message) /\ None \in Scopes
  BY EngineInvStep DEF PumpTypeOK, Scopes
<1>w. published' = WillOfOld => published' \in Seq(Message)
  <2>1. conn # None => NodeDeath(conn) \in Message
    BY <1>t DEF NodeDeath, Message, MessageType, Scopes
  <2> QED
    BY <1>e, <2>1 DEF WillOfOld
<1>h. Hear /\ published' \in {<< >>, WillOfOld} =>
         {world'} \subseteq BdSeqs \cup {None} /\ known' \subseteq Scopes
  BY <1>t, HearNothing, HearWill DEF DeadUnknown
<1>b. {network', link', fresh'} \subseteq BOOLEAN
  <2>1. /\ link' \in {TRUE, FALSE, link} /\ network' \in {TRUE, FALSE, network}
        /\ fresh' \in {TRUE, FALSE, fresh}
    <3>1. CASE NodeConnects
      BY <3>1 DEF NodeConnects, TransportConnects, TransportIdle, TransportConnectFails
    <3>2. CASE NodePumps \/ NetworkFails
      BY <3>2 DEF NodePumps, NetworkFails, Transmit, RecvFails, Reconnect, LinkBreaks, BrokerNotices
    <3>3. CASE NodeCalls \/ NodeReceives \/ NodeCrashes \/ RebirthWindowEnds \/ UNCHANGED pumpVars
      BY <3>3 DEF NodeCalls, NodeReceives, NodeCrashes, RebirthWindowEnds, Enqueue, ProcessDies,
                  TransportIdle, pumpVars, transportVars, pumpObservers
    <3>4. \/ NodeConnects \/ NodePumps \/ NetworkFails
          \/ NodeCalls \/ NodeReceives \/ NodeCrashes \/ RebirthWindowEnds \/ UNCHANGED pumpVars
      BY DEF PumpNext
    <3> QED
      BY <3>1, <3>2, <3>3, <3>4, Zenon
  <2> QED
    BY <1>t, <2>1
<1> SUFFICES /\ {client', conn', world'} \subseteq BdSeqs \cup {None}
             /\ channel' \in Seq(Request) /\ published' \in Seq(Message)
             /\ known' \subseteq Scopes
  BY <1>b, <1>e DEF PumpTypeOK
<1>1. CASE NodeConnects /\ Hear /\ ConnectStays
  BY <1>1, <1>t, <1>e, <1>w, <1>h DEF ConnectStays, SaysNothing
<1>2. CASE NodeConnects /\ Hear /\ ConnectAfresh
  <2>1. channel' \in Seq(Request)
    BY <1>2, OnlySubscriptions DEF ConnectAfresh
  <2> QED
    BY <1>2, <1>e, <1>w, <1>h, <2>1 DEF ConnectAfresh
<1>3. CASE (NodeCalls \/ NodeReceives) /\ (SaysNothing \/ SaysGoodbye \/ \E m : MaySay(m) /\ Says(m))
  <2>1. /\ UNCHANGED <<client, network, link, conn, world, known, fresh>>
        /\ published' = << >> /\ client # None
    BY <1>3, NodeSays
  <2>2. channel' \in Seq(Request)
    <3>1. CASE SaysNothing
      BY <1>t, <3>1 DEF SaysNothing
    <3>2. CASE SaysGoodbye
      <4>1. NodeDeath(client) \in Message
        BY <1>t, <2>1 DEF NodeDeath, Message, MessageType, Scopes
      <4>2. NodeDeath(client) \in Request /\ DisconnectRequest \in Request
        BY <4>1, RequestTypes
      <4> QED
        BY <1>t, <3>2, <4>2 DEF SaysGoodbye
    <3>3. ASSUME NEW m, MaySay(m), Says(m) PROVE channel' \in Seq(Request)
      <4>1. m \in Request
        BY <3>3, RequestTypes DEF MaySay
      <4> QED
        BY <1>t, <3>3, <4>1 DEF Says
    <3> QED
      BY <1>3, <3>1, <3>2, <3>3
  <2> QED
    BY <1>t, <1>e, <2>1, <2>2
<1>4. ASSUME Hear, NEW r, Sends(r)
      PROVE  /\ {client', conn', world'} \subseteq BdSeqs \cup {None}
             /\ channel' \in Seq(Request) /\ published' \in Seq(Message)
             /\ known' \subseteq Scopes
  <2>1. channel' \in Seq(Request) /\ r \in Request
    BY <1>t, <1>4, FirstOfChannel DEF Sends
  <2>2. r.type \in MessageType => <<r>> \in Seq(Message) /\ r.device \in Scopes
                                   /\ r.bdSeq \in BdSeqs \cup {None}
    <3>1. r.type \in MessageType => r \in Message
      BY <2>1, RequestTypes
    <3> QED
      BY <3>1 DEF Message
  <2>3. published' \in Seq(Message)
    BY <1>4, <1>e, <2>2 DEF Sends, HeardAs
  <2>4. /\ {client', conn', world'} \subseteq BdSeqs \cup {None} 
        /\ known' \subseteq Scopes
    BY <1>4, <1>t, <1>e, <2>2 DEF Sends, HeardAs, MessageType
  <2> QED
    BY <2>1, <2>3, <2>4
<1>5. CASE Hear /\ Reconnects
  BY <1>5, <1>t, <1>e, <1>w, <1>h DEF Reconnects
<1>6. CASE Hear /\ Breaks
  BY <1>6, <1>t, <1>e, <1>w, <1>h DEF Breaks
<1>7. CASE CrashMoves
  BY <1>7, <1>t, <1>e DEF CrashMoves
<1>8. CASE Stays
  BY <1>8, <1>t, <1>e DEF Stays
<1> QED
  BY <1>1, <1>2, <1>3, <1>4, <1>5, <1>6, <1>7, <1>8, PumpSteps
-----------------------------------------------------------------------------
(* No death that nobody is told of. *)

\* The queue before a request that is added keeps its places.
LEMMA Appended ==
    ASSUME NEW box \in Seq(Request), NEW r \in Request
    PROVE  /\ Append(box, r) \in Seq(Request)
           /\ Len(box) \in Nat /\ Len(Append(box, r)) = Len(box) + 1
           /\ DOMAIN box = 1 .. Len(box) /\ DOMAIN Append(box, r) = 1 .. Len(box) + 1
           /\ Append(box, r)[Len(box) + 1] = r
           /\ \A i \in 1 .. Len(box) : Append(box, r)[i] = box[i]
OBVIOUS

\* The requests that are left are requests that were there.
LEMMA LeftInChannel ==
    ASSUME channel \in Seq(Request), NEW r, Sends(r), NEW i \in DOMAIN channel'
    PROVE  /\ i + 1 \in DOMAIN channel /\ channel'[i] = channel[i + 1]
           /\ i \in 1 .. Len(channel') /\ Len(channel') = Len(channel) - 1
           /\ Len(channel) \in Nat
<1>1. channel # << >> /\ channel' = Tail(channel)
  BY DEF Sends
<1>2. /\ Len(channel) \in Nat /\ Len(Tail(channel)) = Len(channel) - 1
      /\ DOMAIN channel = 1 .. Len(channel)
      /\ DOMAIN Tail(channel) = 1 .. Len(channel) - 1
      /\ \A k \in 1 .. Len(channel) - 1 : Tail(channel)[k] = channel[k + 1]
  BY <1>1, FirstOfChannel
<1>3. i \in 1 .. Len(channel) - 1
  BY <1>1, <1>2
<1>4. i + 1 \in 1 .. Len(channel)
  BY <1>2, <1>3
<1> QED
  BY <1>1, <1>2, <1>3, <1>4

\* The engine's connection stays that of its client.
LEMMA ClientStep ==
    ASSUME PumpTypeOK, ClientInv, ConnInv, AnnouncedInv, [PumpNext]_pumpVars
    PROVE  ClientInv' /\ ConnInv'
<1>1. CASE NodeConnects /\ Hear /\ ConnectStays
  BY <1>1 DEF ConnectStays, SaysNothing, ClientInv, ConnInv
<1>2. CASE NodeConnects /\ Hear /\ ConnectAfresh
  <2>1. None \notin BdSeqs
    BY SparkplugAssumption DEF BdSeqs
  <2> QED
    BY <1>2, <2>1 DEF ConnectAfresh, ClientInv, ConnInv
<1>3. CASE (NodeCalls \/ NodeReceives) /\ (SaysNothing \/ SaysGoodbye \/ \E m : MaySay(m) /\ Says(m))
  <2>1. /\ session.open /\ bd_seq = client /\ bd_seq' = bd_seq
        /\ UNCHANGED <<client, link, conn>>
    BY <1>3, NodeSays
  <2>2. session' = session \/ ~session'.open
    BY <1>3 DEF SaysNothing, SaysGoodbye, Says
  <2> QED
    BY <2>1, <2>2 DEF ClientInv, ConnInv
<1>4. ASSUME EngineIdle, NEW r, Sends(r)
      PROVE  ClientInv' /\ ConnInv'
  BY <1>4 DEF EngineIdle, fields, Sends, ClientInv, ConnInv
<1>5. CASE EngineIdle /\ (Reconnects \/ Breaks)
  BY <1>5 DEF EngineIdle, fields, Reconnects, Breaks, ClientInv, ConnInv
<1>6. CASE CrashMoves
  BY <1>6 DEF CrashMoves, ClientInv, ConnInv
<1>7. CASE Stays
  BY <1>7 DEF Stays, ClientInv, ConnInv
<1> QED
  BY <1>1, <1>2, <1>3, <1>4, <1>5, <1>6, <1>7, PumpSteps

\* The channel stays one of the client there is.
LEMMA ChannelBdSeqStep ==
    ASSUME PumpTypeOK, ClientInv, AnnouncedInv, ChannelBdSeq, [PumpNext]_pumpVars
    PROVE  ChannelBdSeq'
<1>t. channel \in Seq(Request)
  BY DEF PumpTypeOK
<1>1. CASE NodeConnects /\ Hear /\ ConnectStays
  BY <1>1 DEF ConnectStays, SaysNothing, ChannelBdSeq
<1>2. CASE NodeConnects /\ Hear /\ ConnectAfresh
  <2>1. \A i \in DOMAIN channel' : channel'[i].type = "SUBSCRIBE"
    BY <1>2, OnlySubscriptions DEF ConnectAfresh
  <2> QED
    BY <2>1 DEF ChannelBdSeq
<1>3. CASE (NodeCalls \/ NodeReceives) /\ (SaysNothing \/ SaysGoodbye \/ \E m : MaySay(m) /\ Says(m))
  <2>1. client' = client /\ client # None
    BY <1>3, NodeSays
  <2>2. CASE SaysNothing
    BY <2>1, <2>2 DEF SaysNothing, ChannelBdSeq
  <2>3. ASSUME NEW m, MaySay(m), Says(m)
        PROVE  ChannelBdSeq'
    <3>1. m \in Request /\ channel' = Append(channel, m)
      BY <2>3, RequestTypes DEF MaySay, Says
    <3>2. \A i \in DOMAIN channel' : (i \in DOMAIN channel /\ channel'[i] = channel[i]) \/ channel'[i] = m
      BY <1>t, <3>1, Appended
    <3> QED
      BY <2>1, <2>3, <3>2 DEF MaySay, ChannelBdSeq
  <2>4. CASE SaysGoodbye
    <3>1. PICK m : m = NodeDeath(client)
      OBVIOUS
    <3>2. m \in Message /\ m.bdSeq = client
      BY <2>1, <3>1 DEF NodeDeath, Message, MessageType, Scopes, PumpTypeOK
    <3>3. /\ m \in Request /\ DisconnectRequest \in Request
          /\ channel' = Append(Append(channel, m), DisconnectRequest)
      BY <2>4, <3>1, <3>2, RequestTypes DEF SaysGoodbye
    <3>4. Append(channel, m) \in Seq(Request)
      BY <1>t, <3>3, Appended
    <3>5. \A i \in DOMAIN channel' :
              \/ i \in DOMAIN channel /\ channel'[i] = channel[i]
              \/ channel'[i] = m \/ channel'[i] = DisconnectRequest
      BY <1>t, <3>3, <3>4, Appended
    <3> QED
      BY <2>1, <3>2, <3>5 DEF ChannelBdSeq, DisconnectRequest
  <2> QED
    BY <1>3, <2>2, <2>3, <2>4
<1>4. ASSUME NEW r, Sends(r)
      PROVE  ChannelBdSeq'
  <2>1. client' = client
    BY <1>4 DEF Sends
  <2> QED
    BY <1>t, <1>4, <2>1, LeftInChannel DEF ChannelBdSeq
<1>5. CASE Reconnects \/ Breaks
  BY <1>5 DEF Reconnects, Breaks, ChannelBdSeq
<1>6. CASE CrashMoves
  BY <1>6 DEF CrashMoves, ChannelBdSeq
<1>7. CASE Stays
  BY <1>7 DEF Stays, ChannelBdSeq
<1> QED
  BY <1>1, <1>2, <1>3, <1>4, <1>5, <1>6, <1>7, PumpSteps

\* When the engine's NDEATH is sent on the link, nobody believes in it any more.
LEMMA DeathHeard ==
    ASSUME ConnInv, ChannelBdSeq, DeathIsTold, link, 1 \in DOMAIN channel,
           channel[1].type = "NDEATH", HeardAs(channel[1])
    PROVE  world' = None
<1>1. channel[1].bdSeq = client /\ conn = client
  BY DEF ChannelBdSeq, ConnInv
<1> QED
  BY <1>1 DEF HeardAs, DeathIsTold

\* DISCONNECT stays behind the NDEATH.
LEMMA GoodbyeStep ==
    ASSUME PumpTypeOK, ClientInv, ConnInv, ChannelBdSeq, AnnouncedInv, DeathIsTold,
           DeadUnknown, GoodbyeInv, [PumpNext]_pumpVars
    PROVE  GoodbyeInv'
<1>t. channel \in Seq(Request)
  BY DEF PumpTypeOK
<1>1. CASE NodeConnects /\ Hear /\ ConnectStays
  <2>1. /\ UNCHANGED <<channel, session>> /\ (world' = world \/ world' = None)
        /\ (link' => link)
    BY <1>1, HearNothing, HearWill DEF ConnectStays, SaysNothing, DeadUnknown
  <2> QED
    BY <2>1 DEF GoodbyeInv
<1>2. CASE NodeConnects /\ Hear /\ ConnectAfresh
  <2>1. \A i \in DOMAIN channel' : channel'[i].type = "SUBSCRIBE"
    BY <1>2, OnlySubscriptions DEF ConnectAfresh
  <2> QED
    BY <2>1 DEF GoodbyeInv
<1>3. CASE (NodeCalls \/ NodeReceives) /\ (SaysNothing \/ SaysGoodbye \/ \E m : MaySay(m) /\ Says(m))
  <2>1. /\ session.open /\ UNCHANGED <<client, link, world>> /\ client # None
    BY <1>3, NodeSays
  <2>2. \A i \in DOMAIN channel : channel[i].type # "DISCONNECT"
    BY <2>1 DEF GoodbyeInv
  <2>3. CASE SaysNothing
    BY <2>2, <2>3 DEF SaysNothing, GoodbyeInv
  <2>4. ASSUME NEW m, MaySay(m), Says(m)
        PROVE  GoodbyeInv'
    <3>1. m \in Request /\ channel' = Append(channel, m) /\ m.type # "DISCONNECT"
      BY <2>4, RequestTypes DEF MaySay, Says, Message, MessageType
    <3>2. \A i \in DOMAIN channel' : (i \in DOMAIN channel /\ channel'[i] = channel[i]) \/ channel'[i] = m
      BY <1>t, <3>1, Appended
    <3>3. \A i \in DOMAIN channel' : channel'[i].type # "DISCONNECT"
      BY <2>2, <3>1, <3>2
    <3> QED
      BY <3>3 DEF GoodbyeInv
  <2>5. CASE SaysGoodbye
    <3>1. PICK m : m = NodeDeath(client)
      OBVIOUS
    <3>2. m \in Message /\ m.type = "NDEATH"
      BY <2>1, <3>1 DEF NodeDeath, Message, MessageType, Scopes, PumpTypeOK
    <3>3. /\ m \in Request /\ DisconnectRequest \in Request /\ ~session'.open
          /\ channel' = Append(Append(channel, m), DisconnectRequest)
      BY <2>5, <3>1, <3>2, RequestTypes DEF SaysGoodbye
    <3>4. /\ Append(channel, m) \in Seq(Request) /\ Len(channel) \in Nat
          /\ Len(Append(channel, m)) = Len(channel) + 1
          /\ \A i \in 1 .. Len(channel) : Append(channel, m)[i] = channel[i]
          /\ Append(channel, m)[Len(channel) + 1] = m
          /\ DOMAIN channel = 1 .. Len(channel)
      BY <1>t, <3>3, Appended
    <3>5. /\ Len(channel') = (Len(channel) + 1) + 1
          /\ DOMAIN channel' = 1 .. (Len(channel) + 1) + 1
          /\ \A i \in 1 .. Len(channel) + 1 : channel'[i] = Append(channel, m)[i]
      BY <3>3, <3>4, Appended
    <3>6. ASSUME NEW i \in DOMAIN channel', channel'[i].type = "DISCONNECT"
          PROVE  i = Len(channel') /\ i > 1 /\ channel'[i - 1].type = "NDEATH"
      <4>1. CASE i \in 1 .. Len(channel)
        <5>1. i \in 1 .. Len(channel) + 1
          BY <3>4, <4>1
        <5> QED
          BY <2>2, <3>4, <3>5, <3>6, <4>1, <5>1
      <4>2. CASE i = Len(channel) + 1
        <5>1. i \in 1 .. Len(channel) + 1
          BY <3>4, <4>2
        <5> QED
          BY <3>2, <3>4, <3>5, <3>6, <4>2, <5>1
      <4>3. CASE i = (Len(channel) + 1) + 1
        <5>1. i - 1 = Len(channel) + 1 /\ Len(channel) + 1 \in 1 .. Len(channel) + 1 /\ i > 1
          BY <3>4, <4>3
        <5> QED
          BY <3>2, <3>4, <3>5, <4>3, <5>1
      <4> QED
        BY <3>4, <3>5, <4>1, <4>2, <4>3
    <3> QED
      BY <3>3, <3>6 DEF GoodbyeInv
  <2> QED
    BY <1>3, <2>3, <2>4, <2>5
<1>4. ASSUME EngineIdle, NEW r, Sends(r)
      PROVE  GoodbyeInv'
  <2> SUFFICES ASSUME NEW i \in DOMAIN channel', channel'[i].type = "DISCONNECT"
               PROVE  /\ ~session'.open /\ i = Len(channel')
                      /\ IF i > 1 THEN channel'[i - 1].type = "NDEATH" ELSE link' => world' = None
    BY DEF GoodbyeInv
  <2>1. /\ i + 1 \in DOMAIN channel /\ channel'[i] = channel[i + 1]
        /\ i \in 1 .. Len(channel') /\ Len(channel') = Len(channel) - 1 /\ Len(channel) \in Nat
    BY <1>t, <1>4, LeftInChannel
  <2>2. i + 1 = Len(channel) /\ i + 1 > 1 /\ channel[(i + 1) - 1].type = "NDEATH" /\ ~session.open
    BY <2>1 DEF GoodbyeInv
  <2>3. session' = session /\ i = Len(channel')
    BY <1>4, <2>1, <2>2 DEF EngineIdle
  <2>4. CASE i > 1
    <3>1. i - 1 \in DOMAIN channel'
      BY <2>1, <2>4, <1>t, <1>4, FirstOfChannel DEF Sends
    <3>2. channel'[i - 1] = channel[(i - 1) + 1]
      BY <1>t, <1>4, <3>1, LeftInChannel
    <3>3. (i - 1) + 1 = (i + 1) - 1
      BY <2>1
    <3> QED
      BY <2>2, <2>3, <2>4, <3>2, <3>3
  <2>5. CASE i = 1
    <3>1. channel[1].type = "NDEATH" /\ 1 \in DOMAIN channel /\ r = channel[1]
      BY <1>4, <2>1, <2>2, <2>5, <1>t DEF Sends
    <3>2. link' => world' = None
      BY <1>4, <3>1, DeathHeard DEF Sends
    <3> QED
      BY <2>2, <2>3, <2>5, <3>2
  <2> QED
    BY <2>1, <2>4, <2>5
<1>5. CASE EngineIdle /\ Hear /\ (Reconnects \/ Breaks)
  <2>1. /\ channel' \in {channel, << >>} /\ session' = session
        /\ link' => world' = None
    BY <1>5, HearWill DEF EngineIdle, Reconnects, Breaks, DeadUnknown
  <2> QED
    BY <2>1 DEF GoodbyeInv
<1>6. CASE CrashMoves
  BY <1>6 DEF CrashMoves, GoodbyeInv
<1>7. CASE Stays
  BY <1>7 DEF Stays, GoodbyeInv
<1> QED
  BY <1>1, <1>2, <1>3, <1>4, <1>5, <1>6, <1>7, PumpSteps

\* While a node is believed alive, the broker keeps the will that tells of its death.
LEMMA DeathIsToldStep ==
    ASSUME PumpTypeOK, ClientInv, ConnInv, ChannelBdSeq, AnnouncedInv, DeathIsTold,
           DeadUnknown, GoodbyeInv, [PumpNext]_pumpVars
    PROVE  DeathIsTold' /\ DeadUnknown'
<1>1. CASE NodeConnects /\ Hear /\ ConnectStays
  BY <1>1, HearNothing, HearWill DEF ConnectStays, DeathIsTold, DeadUnknown
<1>2. CASE NodeConnects /\ Hear /\ ConnectAfresh
  BY <1>2, HearWill DEF ConnectAfresh, DeathIsTold, DeadUnknown
<1>3. CASE NodeCalls \/ NodeReceives
  BY <1>3, NodeSays DEF DeathIsTold, DeadUnknown
<1>4. ASSUME NEW r, Sends(r)
      PROVE  DeathIsTold' /\ DeadUnknown'
  <2>1. r = channel[1] /\ 1 \in DOMAIN channel /\ Len(channel) >= 1
    BY <1>4, FirstOfChannel DEF Sends, PumpTypeOK
  <2>2. CASE ~link
    BY <1>4, <2>2 DEF Sends, DeathIsTold, DeadUnknown
  <2>3. CASE link
    <3>1. HeardAs(r) /\ conn = client
      BY <1>4, <2>3 DEF Sends, ConnInv
    <3>2. CASE r.type = "DISCONNECT"
      <4>1. world = None
        BY <2>1, <2>3, <3>2 DEF GoodbyeInv
      <4>2. world' = world /\ known' = known
        BY <3>1, <3>2 DEF HeardAs
      <4> QED
        BY <4>1, <4>2 DEF DeathIsTold, DeadUnknown
    <3>3. CASE r.type = "NBIRTH"
      <4>1. r.bdSeq = client /\ r.bdSeq # None /\ conn' = conn /\ world' = r.bdSeq
        <5>1. r.bdSeq = client /\ client # None
          BY <2>1, <2>3, <3>3 DEF ChannelBdSeq, ConnInv
        <5> QED
          BY <1>4, <2>3, <3>1, <3>3, <5>1 DEF Sends, HeardAs
      <4> QED
        BY <3>1, <4>1 DEF DeathIsTold, DeadUnknown
    <3>4. CASE r.type \notin {"DISCONNECT", "NBIRTH"}
      <4>1. conn' = conn
        BY <1>4, <2>3, <3>4 DEF Sends
      <4>2. \/ world' = None /\ known' = {}
            \/ world' = world /\ (world = None => known' \subseteq known)
        BY <3>1, <3>4 DEF HeardAs
      <4> QED
        BY <4>1, <4>2 DEF DeathIsTold, DeadUnknown
    <3> QED
      BY <3>2, <3>3, <3>4
  <2> QED
    BY <2>2, <2>3
<1>5. CASE Hear /\ (Reconnects \/ Breaks)
  BY <1>5, HearNothing, HearWill DEF Reconnects, Breaks, DeathIsTold, DeadUnknown
<1>6. CASE CrashMoves
  BY <1>6 DEF CrashMoves, DeathIsTold, DeadUnknown
<1>7. CASE Stays
  BY <1>7 DEF Stays, DeathIsTold, DeadUnknown
<1> QED
  BY <1>1, <1>2, <1>3, <1>4, <1>5, <1>6, <1>7, PumpSteps
-----------------------------------------------------------------------------
(* The invariant behind DeathIsTold. *)

DeathInv ==
    /\ PumpTypeOK /\ AnnouncedInv
    /\ ClientInv /\ ConnInv
    /\ ChannelBdSeq /\ GoodbyeInv
    /\ DeathIsTold /\ DeadUnknown

\* It holds at first: nothing is connected, waits, or is known.
LEMMA DeathInit ==
    ASSUME PumpInit
    PROVE  DeathInv
<1>1. TypeOK /\ AnnouncedInv
  BY InitTypeOK DEF PumpInit, Init, AnnouncedInv
<1>2. /\ client = None /\ conn = None /\ world = None /\ known = {}
      /\ channel = << >> /\ published = << >>
      /\ network = FALSE /\ link = FALSE /\ fresh = FALSE /\ ~session.open
  BY DEF PumpInit, TransportInit, Init, NoSession
<1>3. PumpTypeOK
  <2>1. << >> \in Seq(Request) /\ << >> \in Seq(Message)
    OBVIOUS
  <2>2. {network, link, fresh} \subseteq BOOLEAN
    BY <1>2
  <2> QED
    BY <1>1, <1>2, <2>1, <2>2 DEF PumpTypeOK
<1>4. DOMAIN channel = {}
  BY <1>2
<1> QED
  BY <1>1, <1>2, <1>3, <1>4
  DEF DeathInv, ClientInv, ConnInv, ChannelBdSeq, GoodbyeInv, DeathIsTold, DeadUnknown

\* Every step keeps it.
LEMMA DeathInvStep ==
    ASSUME DeathInv, [PumpNext]_pumpVars
    PROVE  DeathInv'
<1>1. PumpTypeOK' /\ AnnouncedInv'
  BY PumpTypeStep, EngineInvStep DEF DeathInv, PumpTypeOK
<1>2. ClientInv' /\ ConnInv' /\ ChannelBdSeq'
  BY ClientStep, ChannelBdSeqStep DEF DeathInv
<1>3. GoodbyeInv' /\ DeathIsTold' /\ DeadUnknown'
  BY GoodbyeStep, DeathIsToldStep DEF DeathInv
<1> QED
  BY <1>1, <1>2, <1>3 DEF DeathInv

LEMMA DeathInvHolds == PumpSpec => []DeathInv
<1>1. PumpInit => DeathInv
  BY DeathInit
<1>2. DeathInv /\ [PumpNext]_pumpVars => DeathInv'
  BY DeathInvStep
<1> QED
  BY <1>1, <1>2, PTL DEF PumpSpec

\* Engine, transport and broker stay well typed together.
THEOREM PumpTypeCorrect == PumpSpec => []PumpTypeOK
<1>1. DeathInv => PumpTypeOK
  BY DEF DeathInv
<1> QED
  BY <1>1, DeathInvHolds, PTL

\* Behind a channel of any capacity, with or without a primary host, and over
\* broken links, reconnects, refused connects and crashes, no node is believed
\* alive whose death nobody would be told of (connect, disconnect, recv).
THEOREM DeathIsToldHolds == PumpSpec => []DeathIsTold
<1>1. DeathInv => DeathIsTold
  BY DEF DeathInv
<1> QED
  BY <1>1, DeathInvHolds, PTL
-----------------------------------------------------------------------------
(* connect returns. *)

\* A birth sequence that a connect began enqueues one request for each birth.
LEMMA RoomStep ==
    ASSUME PumpTypeOK, ClientInv, AnnouncedInv, RoomInv, [PumpNext]_pumpVars
    PROVE  RoomInv'
<1>t. /\ channel \in Seq(Request) /\ birth \in BirthProgress \cup {None}
      /\ Len(channel) \in Nat /\ Len(DeviceList) \in Nat
      /\ session \in [open : BOOLEAN, will : BdSeqs \cup {None}]
  BY SparkplugAssumption DEF PumpTypeOK, TypeOK
<1>1. CASE NodeConnects /\ Hear /\ ConnectStays
  BY <1>1 DEF ConnectStays, RoomInv
<1>2. CASE NodeConnects /\ Hear /\ ConnectAfresh
  BY <1>2, <1>t DEF ConnectAfresh, RoomInv
<1>3. CASE (NodeCalls \/ NodeReceives) /\ (SaysNothing \/ SaysGoodbye \/ \E m : MaySay(m) /\ Says(m))
  <2> SUFFICES ASSUME birth' # None, birth'.by = "connect"
               PROVE  Len(channel') <= Len(DeviceList) + 1 + birth'.at
    BY DEF RoomInv
  <2>1. CASE birth = None
    <3>1. birth' = None \/ \E by \in {"call", "rebirth", "state"} : birth' = [at |-> 0, by |-> by]
      BY <1>3, <2>1
      DEF NodeCalls, NodeReceives, Calls, Publish, PublishNodeBirth, PublishDeviceBirth,
          PublishNodeData, PublishDeviceData, PublishDeviceDeath, Disconnect,
          CallPublishBirthSequence, HandleRebirth, HandleHostOnline, HandleHostOffline,
          StartBirths, Idle
    <3> QED
      BY <3>1
  <2>2. CASE birth # None
    <3>1. /\ PublishNodeBirth \/ PublishDeviceBirth
          /\ session' = session
      BY <1>3, <2>2
      DEF NodeCalls, NodeReceives, Calls, Publish, PublishNodeBirth, PublishDeviceBirth,
          PublishNodeData, PublishDeviceData, PublishDeviceDeath, Disconnect,
          CallPublishBirthSequence, HandleRebirth, HandleHostOnline, HandleHostOffline, Idle
    <3>2. BirthPublished /\ birth.at < Len(DeviceList) /\ birth' = [birth EXCEPT !.at = @ + 1]
      BY <3>1 DEF PublishNodeBirth, PublishDeviceBirth, BirthPublished, BirthsDone, BirthFailed
    <3>3. birth'.at = birth.at + 1 /\ birth.by = "connect" /\ birth.at \in Nat
      BY <1>t, <2>2, <3>2 DEF BirthProgress
    <3>4. Len(channel) <= Len(DeviceList) + 1 + birth.at
      BY <2>2, <3>3 DEF RoomInv
    <3>5. Len(channel') = Len(channel) \/ Len(channel') = Len(channel) + 1
      <4>1. session.open
        BY <1>3, NodeSays
      <4>2. SaysNothing \/ \E m : MaySay(m) /\ Says(m)
        BY <1>3, <3>1, <4>1 DEF SaysGoodbye
      <4>3. ASSUME NEW m, MaySay(m), Says(m)
            PROVE  Len(channel') = Len(channel) + 1
        BY <1>t, <4>3, RequestTypes, Appended DEF MaySay, Says
      <4> QED
        BY <4>2, <4>3 DEF SaysNothing
    <3> QED
      BY <1>t, <3>3, <3>4, <3>5
  <2> QED
    BY <2>1, <2>2
<1>4. ASSUME EngineIdle, NEW r, Sends(r)
      PROVE  RoomInv'
  <2>1. birth' = birth /\ Len(channel') = Len(channel) - 1
    BY <1>4, <1>t, FirstOfChannel DEF EngineIdle, Sends
  <2> QED
    BY <1>t, <2>1 DEF RoomInv, BirthProgress
<1>5. CASE EngineIdle /\ (Reconnects \/ Breaks)
  <2>1. birth' = birth /\ (Len(channel') = Len(channel) \/ Len(channel') = 0)
    BY <1>5 DEF EngineIdle, Reconnects, Breaks
  <2> QED
    BY <1>t, <2>1 DEF RoomInv, BirthProgress
<1>6. CASE CrashMoves
  BY <1>6 DEF CrashMoves, RoomInv
<1>7. CASE Stays
  BY <1>7 DEF Stays, RoomInv
<1> QED
  BY <1>1, <1>2, <1>3, <1>4, <1>5, <1>6, <1>7, PumpSteps

\* With room for two requests of the node and two of each device, connect never
\* waits for a channel that nobody drains: the default capacity of 256 is enough
\* for 127 devices (publish_birth_sequence, RumqttcTransport::publish).
THEOREM ConnectReturnsHolds ==
    ASSUME ChannelCapacity >= 2 * (Len(DeviceList) + 1)
    PROVE  PumpSpec => []ConnectReturns
<1>1. PumpInit => DeathInv /\ RoomInv
  BY DeathInit DEF PumpInit, Init, RoomInv
<1>2. DeathInv /\ RoomInv /\ [PumpNext]_pumpVars => RoomInv'
  BY RoomStep DEF DeathInv
<1>3. DeathInv /\ RoomInv => ConnectReturns
  <2> SUFFICES ASSUME DeathInv, RoomInv, birth # None, birth.by = "connect"
               PROVE  HasRoom(Len(DeviceList) + 1 - birth.at)
    BY DEF ConnectReturns
  <2>1. /\ Len(channel) \in Nat /\ Len(DeviceList) \in Nat /\ birth.at \in Nat
        /\ ChannelCapacity \in Nat
    BY SparkplugAssumption, CapacityAssumption
    DEF DeathInv, PumpTypeOK, TypeOK, BirthProgress
  <2>2. Len(channel) <= Len(DeviceList) + 1 + birth.at
    BY DEF RoomInv
  <2>3. \A room, len, devices, at \in Nat :
            room >= 2 * (devices + 1) /\ len <= devices + 1 + at
                => len + (devices + 1 - at) <= room
    OBVIOUS
  <2>4. Len(channel) + (Len(DeviceList) + 1 - birth.at) <= ChannelCapacity
    BY <2>1, <2>2, <2>3
  <2> QED
    BY <2>4 DEF HasRoom
<1> QED
  BY <1>1, <1>2, <1>3, DeathInvHolds, PTL DEF PumpSpec
-----------------------------------------------------------------------------
(* Data behind its birth. *)

\* What is known after the first requests stays so as long as they are there.
LEMMA KnownKept ==
    ASSUME NEW n \in Nat, \A i \in 1 .. n : channel'[i] = channel[i], known' = known,
           NEW s, KnownAfter(s, n)
    PROVE  KnownAfter(s, n)'
<1>1. PICK j \in 0 .. n :
          /\ IF j = 0 THEN s \in known ELSE BirthOf(channel[j], s)
          /\ \A k \in j + 1 .. n : ~DeathOf(channel[k], s)
  BY DEF KnownAfter
<1>2. j = 0 \/ channel'[j] = channel[j]
  BY <1>1
<1>3. \A k \in j + 1 .. n : channel'[k] = channel[k]
  BY <1>1
<1>4. /\ IF j = 0 THEN s \in known' ELSE BirthOf(channel'[j], s)
      /\ \A k \in j + 1 .. n : ~DeathOf(channel'[k], s)
  BY <1>1, <1>2, <1>3
<1> QED
  BY <1>1, <1>4, Zenon DEF KnownAfter

\* A request that is added changes nothing for those before it, and adds what it
\* says itself.
LEMMA KnownAppend ==
    ASSUME channel \in Seq(Request), NEW r \in Request, channel' = Append(channel, r),
           known' = known, NEW s
    PROVE  /\ \A n \in 0 .. Len(channel) : KnownAfter(s, n) => KnownAfter(s, n)'
           /\ KnownAfter(s, Len(channel)) /\ ~DeathOf(r, s) => KnownAfter(s, Len(channel))'
           /\ BirthOf(r, s) => KnownAfter(s, Len(channel))'
<1>t. /\ Len(channel) \in Nat /\ Len(channel') = Len(channel) + 1
      /\ channel'[Len(channel) + 1] = r
      /\ \A i \in 1 .. Len(channel) : channel'[i] = channel[i]
  BY Appended
<1>1. ASSUME NEW n \in 0 .. Len(channel), KnownAfter(s, n)
      PROVE  KnownAfter(s, n)'
  <2>1. \A i \in 1 .. n : channel'[i] = channel[i]
    BY <1>t
  <2> QED
    BY <1>1, <2>1, KnownKept
<1>2. ASSUME KnownAfter(s, Len(channel)), ~DeathOf(r, s)
      PROVE  KnownAfter(s, Len(channel))'
  <2>1. PICK j \in 0 .. Len(channel) :
            /\ IF j = 0 THEN s \in known ELSE BirthOf(channel[j], s)
            /\ \A k \in j + 1 .. Len(channel) : ~DeathOf(channel[k], s)
    BY <1>2 DEF KnownAfter
  <2>2. j = 0 \/ channel'[j] = channel[j]
    BY <1>t, <2>1
  <2>3. ASSUME NEW k \in j + 1 .. Len(channel')
        PROVE  ~DeathOf(channel'[k], s)
    <3>1. k = Len(channel) + 1 \/ k \in j + 1 .. Len(channel)
      BY <1>t, <2>1, <2>3
    <3>2. CASE k = Len(channel) + 1
      BY <1>t, <1>2, <3>2
    <3>3. CASE k \in j + 1 .. Len(channel)
      <4>1. channel'[k] = channel[k]
        BY <1>t, <2>1, <3>3
      <4> QED
        BY <2>1, <3>3, <4>1
    <3> QED
      BY <3>1, <3>2, <3>3
  <2>4. j \in 0 .. Len(channel') /\ (IF j = 0 THEN s \in known' ELSE BirthOf(channel'[j], s))
    BY <1>t, <2>1, <2>2
  <2> QED
    BY <2>3, <2>4, Zenon DEF KnownAfter
<1>3. ASSUME BirthOf(r, s)
      PROVE  KnownAfter(s, Len(channel))'
  <2>1. PICK j : j = Len(channel')
    OBVIOUS
  <2>2. j \in 0 .. Len(channel') /\ j # 0 /\ channel'[j] = r /\ j + 1 .. Len(channel') = {}
    BY <1>t, <2>1
  <2>3. /\ IF j = 0 THEN s \in known' ELSE BirthOf(channel'[j], s)
        /\ \A k \in j + 1 .. Len(channel') : ~DeathOf(channel'[k], s)
    BY <1>3, <2>2
  <2> QED
    BY <2>2, <2>3, Zenon DEF KnownAfter
<1> QED
  BY <1>1, <1>2, <1>3

\* The first request, once heard, has the effect it had in the channel.
LEMMA KnownSent ==
    ASSUME PumpTypeOK, DeadUnknown, KnownInv, fresh, link, NEW r, Sends(r), NEW s \in Scopes,
           NEW n \in Nat, n + 1 <= Len(channel), KnownAfter(s, n + 1)
    PROVE  KnownAfter(s, n)'
<1>t. /\ channel \in Seq(Request) /\ known \subseteq Scopes
      /\ r = channel[1] /\ 1 \in DOMAIN channel /\ HeardAs(r)
      /\ None \notin Devices /\ Scopes = Devices \cup {None}
  <2>1. channel # << >> /\ channel \in Seq(Request)
    BY DEF PumpTypeOK, Sends
  <2>2. 1 \in DOMAIN channel
    BY <2>1, FirstOfChannel
  <2> QED
    BY <2>1, <2>2, SparkplugAssumption DEF PumpTypeOK, Sends, Scopes
<1>1. r.type = "DBIRTH" => world # None
  <2> SUFFICES ASSUME r.type = "DBIRTH" PROVE world # None
    OBVIOUS
  <2>1. KnownAfter(None, 1 - 1)
    BY <1>t DEF KnownInv
  <2>2. None \in known
    BY <2>1 DEF KnownAfter
  <2> QED
    BY <2>2 DEF DeadUnknown
<1>2. /\ s \in known /\ ~DeathOf(r, s) => s \in known'
      /\ BirthOf(r, s) => s \in known'
  BY <1>t, <1>1 DEF HeardAs, DeathOf, BirthOf
<1>3. PICK j \in 0 .. n + 1 :
          /\ IF j = 0 THEN s \in known ELSE BirthOf(channel[j], s)
          /\ \A k \in j + 1 .. n + 1 : ~DeathOf(channel[k], s)
  BY DEF KnownAfter
<1>4. /\ \A k \in 1 .. n : channel'[k] = channel[k + 1]
      /\ \A k \in 2 .. n + 1 : k - 1 \in 1 .. n /\ (k - 1) + 1 = k
  <2>1. channel' = Tail(channel) /\ channel # << >>
    BY DEF Sends
  <2>2. \A k \in 1 .. Len(channel) - 1 : Tail(channel)[k] = channel[k + 1]
    BY <1>t, <2>1, FirstOfChannel
  <2>3. Len(channel) \in Nat
    BY <1>t
  <2>4. \A k \in 1 .. n : k \in 1 .. Len(channel) - 1
    BY <2>3
  <2> QED
    BY <2>1, <2>2, <2>4
<1>5. CASE j \in {0, 1}
  <2>1. s \in known'
    <3>1. CASE j = 0
      <4>1. 1 \in j + 1 .. n + 1
        BY <3>1
      <4> QED
        BY <1>t, <1>2, <1>3, <3>1, <4>1
    <3>2. CASE j = 1
      BY <1>t, <1>2, <1>3, <3>2
    <3> QED
      BY <1>5, <3>1, <3>2
  <2>2. ASSUME NEW k \in 1 .. n
        PROVE  ~DeathOf(channel'[k], s)
    <3>1. k + 1 \in j + 1 .. n + 1
      BY <1>5, <2>2
    <3> QED
      BY <1>3, <1>4, <2>2, <3>1
  <2>3. PICK i : i = 0
    OBVIOUS
  <2>4. /\ i \in 0 .. n
        /\ IF i = 0 THEN s \in known' ELSE BirthOf(channel'[i], s)
        /\ \A k \in i + 1 .. n : ~DeathOf(channel'[k], s)
    BY <2>1, <2>2, <2>3
  <2> QED
    BY <2>4, Zenon DEF KnownAfter
<1>6. CASE j \in 2 .. n + 1
  <2>1. PICK i : i = j - 1
    OBVIOUS
  <2>2. i \in 1 .. n /\ i \in 0 .. n /\ i # 0 /\ i + 1 = j
    BY <1>6, <2>1
  <2>3. BirthOf(channel'[i], s)
    <3>1. channel'[i] = channel[j] /\ j # 0
      BY <1>4, <1>6, <2>2
    <3> QED
      BY <1>3, <3>1
  <2>4. ASSUME NEW k \in i + 1 .. n
        PROVE  ~DeathOf(channel'[k], s)
    <3>1. k + 1 \in j + 1 .. n + 1 /\ k \in 1 .. n
      BY <2>2, <2>4
    <3> QED
      BY <1>3, <1>4, <3>1
  <2>5. /\ IF i = 0 THEN s \in known' ELSE BirthOf(channel'[i], s)
        /\ \A k \in i + 1 .. n : ~DeathOf(channel'[k], s)
    BY <2>2, <2>3, <2>4
  <2> QED
    BY <2>2, <2>5, Zenon DEF KnownAfter
<1> QED
  BY <1>3, <1>5, <1>6

\* What the engine enqueues next finds its scope known.
LEMMA KnownSaid ==
    ASSUME PumpTypeOK, KnownInv, fresh, link, session.open, NEW m, MaySay(m), Says(m),
           UNCHANGED <<known, fresh, link>>,
           state # "WaitingForPrimaryHost"
    PROVE  KnownInv'
<1>t. /\ channel \in Seq(Request) /\ m \in Request /\ channel' = Append(channel, m)
      /\ announced' = Announce(m) /\ announced \in [Scopes -> Seq(Metric) \cup {None}]
      /\ m \in Message /\ m.device \in Scopes /\ None \in Scopes
  BY RequestTypes DEF PumpTypeOK, TypeOK, MaySay, Says, Scopes
<1>l. /\ Len(channel) \in Nat /\ Len(channel') = Len(channel) + 1
      /\ DOMAIN channel = 1 .. Len(channel) /\ DOMAIN channel' = 1 .. Len(channel) + 1
      /\ channel'[Len(channel) + 1] = m
      /\ \A i \in 1 .. Len(channel) : channel'[i] = channel[i]
      /\ Len(channel) \in 0 .. Len(channel) /\ (Len(channel) + 1) - 1 = Len(channel)
  BY <1>t, Appended
<1>k. /\ \A s \in Scopes : announced[s] # None => KnownAfter(s, Len(channel))
      /\ \A i \in DOMAIN channel :
            /\ channel[i].type \in {"NDATA", "DDATA"} => KnownAfter(channel[i].device, i - 1)
            /\ channel[i].type = "DBIRTH" => KnownAfter(None, i - 1)
  BY DEF KnownInv
<1>1. ASSUME NEW i \in DOMAIN channel'
      PROVE  /\ channel'[i].type \in {"NDATA", "DDATA"} => KnownAfter(channel[i].device, i - 1)'
             /\ channel'[i].type = "DBIRTH" => KnownAfter(None, i - 1)'
  <2>1. CASE i \in DOMAIN channel
    <3>1. channel'[i] = channel[i] /\ i - 1 \in 0 .. Len(channel)
      BY <1>l, <2>1
    <3>2. PICK s, n : s = channel[i].device /\ n = i - 1
      OBVIOUS
    <3>3. /\ channel[i].type \in {"NDATA", "DDATA"} => KnownAfter(s, n)'
          /\ channel[i].type = "DBIRTH" => KnownAfter(None, n)'
      BY <1>t, <1>k, <2>1, <3>1, <3>2, KnownAppend
    <3> QED
      BY <3>1, <3>2, <3>3
  <2>2. CASE i = Len(channel) + 1
    <3>1. channel'[i] = m /\ i - 1 = Len(channel)
      BY <1>l, <2>2
    <3>2. PICK s, n : s = m.device /\ n = Len(channel)
      OBVIOUS
    <3>3. /\ m.type \in {"NDATA", "DDATA"} => KnownAfter(s, n)
          /\ m.type = "DBIRTH" => KnownAfter(None, n)
      BY <1>t, <1>k, <3>2 DEF MaySay
    <3>4. /\ m.type \in {"NDATA", "DDATA"} => KnownAfter(s, n)'
          /\ m.type = "DBIRTH" => KnownAfter(None, n)'
      BY <1>t, <1>l, <3>2, <3>3, KnownAppend
    <3> QED
      BY <3>1, <3>2, <3>4
  <2> QED
    BY <1>l, <1>1, <2>1, <2>2
<1>2. ASSUME NEW s \in Scopes, announced'[s] # None
      PROVE  KnownAfter(s, Len(channel))'
  <2>1. BirthOf(m, s) \/ (announced[s] # None /\ ~DeathOf(m, s))
    <3>1. CASE m.type = "NBIRTH"
      <4>1. announced' = [NothingAnnounced EXCEPT ![None] = m.metrics] /\ m.device = None
        BY <1>t, <3>1 DEF Announce, MaySay
      <4>2. s = None
        BY <1>2, <4>1 DEF NothingAnnounced
      <4> QED
        BY <3>1, <4>1, <4>2 DEF BirthOf
    <3>2. CASE m.type = "DBIRTH"
      <4>1. announced' = [announced EXCEPT ![m.device] = m.metrics] /\ m.device # None
        BY <1>t, <3>2 DEF Announce, MaySay
      <4>2. s = m.device \/ announced[s] # None
        BY <1>t, <1>2, <4>1
      <4> QED
        BY <3>2, <4>1, <4>2 DEF BirthOf, DeathOf
    <3>3. CASE m.type = "DDEATH"
      <4>1. announced' = [announced EXCEPT ![m.device] = None]
        BY <1>t, <3>3 DEF Announce
      <4>2. s # m.device /\ announced[s] # None
        BY <1>t, <1>2, <4>1
      <4> QED
        BY <3>3, <4>2 DEF DeathOf
    <3>4. CASE m.type = "NDEATH"
      <4>1. announced' = NothingAnnounced
        BY <1>t, <3>4 DEF Announce
      <4> QED
        BY <1>2, <4>1 DEF NothingAnnounced
    <3>5. CASE m.type \notin {"NBIRTH", "DBIRTH", "DDEATH", "NDEATH"}
      <4>1. announced' = announced
        BY <1>t, <3>5 DEF Announce
      <4> QED
        BY <1>2, <3>5, <4>1 DEF DeathOf
    <3> QED
      BY <3>1, <3>2, <3>3, <3>4, <3>5
  <2> QED
    BY <1>t, <1>k, <2>1, KnownAppend
<1> QED
  BY <1>1, <1>2 DEF KnownInv

\* The channel of the connection that connect made stays in order.
LEMMA KnownInvStep ==
    ASSUME DeathInv, KnownInv, state # "WaitingForPrimaryHost", [PumpNext]_pumpVars
    PROVE  KnownInv'
<1>t. /\ PumpTypeOK /\ ClientInv /\ AnnouncedInv /\ DeadUnknown /\ DeathIsTold
      /\ channel \in Seq(Request) /\ Len(channel) \in Nat
  BY DEF DeathInv, PumpTypeOK
<1>0. ~fresh' \/ ~link' => KnownInv'
  BY DEF KnownInv
<1>s. ASSUME UNCHANGED <<channel, known, fresh, link, session, announced>>
      PROVE  KnownInv'
  BY <1>s DEF KnownInv, KnownAfter
<1>1. CASE NodeConnects /\ Hear /\ ConnectStays
  <2>1. CASE UNCHANGED <<link, conn>> /\ published' = << >>
    BY <1>1, <1>s, <2>1, HearNothing DEF ConnectStays, SaysNothing
  <2> QED
    BY <1>0, <1>1, <2>1 DEF ConnectStays
<1>2. CASE NodeConnects /\ Hear /\ ConnectAfresh
  <2>1. \A i \in DOMAIN channel' : channel'[i].type = "SUBSCRIBE"
    BY <1>2, OnlySubscriptions DEF ConnectAfresh
  <2>2. \A s \in Scopes : announced'[s] = None
    BY <1>2 DEF ConnectAfresh, NothingAnnounced
  <2> QED
    BY <2>1, <2>2 DEF KnownInv
<1>3. CASE (NodeCalls \/ NodeReceives) /\ (SaysNothing \/ SaysGoodbye \/ \E m : MaySay(m) /\ Says(m))
  <2> SUFFICES ASSUME fresh', link'
               PROVE  KnownInv'
    BY <1>0
  <2>1. session.open /\ UNCHANGED <<client, link, known, fresh>> /\ client # None
    BY <1>3, <1>t, NodeSays
  <2>2. CASE SaysNothing
    BY <1>s, <2>1, <2>2 DEF SaysNothing
  <2>3. ASSUME NEW m, MaySay(m), Says(m)
        PROVE  KnownInv'
    BY <1>t, <2>1, <2>3, KnownSaid
  <2>4. CASE SaysGoodbye
    <3>1. PICK m : m = NodeDeath(client)
      OBVIOUS
    <3>2. m \in Message /\ m.type = "NDEATH"
      BY <1>t, <2>1, <3>1 DEF NodeDeath, Message, MessageType, Scopes, PumpTypeOK
    <3>3. /\ m \in Request /\ DisconnectRequest \in Request /\ ~session'.open
          /\ channel' = Append(Append(channel, m), DisconnectRequest)
          /\ DisconnectRequest.type = "DISCONNECT"
      BY <2>4, <3>1, <3>2, RequestTypes DEF SaysGoodbye
    <3>4. /\ Append(channel, m) \in Seq(Request)
          /\ Len(Append(channel, m)) = Len(channel) + 1
          /\ \A i \in 1 .. Len(channel) : Append(channel, m)[i] = channel[i]
          /\ Append(channel, m)[Len(channel) + 1] = m
          /\ DOMAIN channel = 1 .. Len(channel)
      BY <1>t, <3>3, Appended
    <3>5. /\ DOMAIN channel' = 1 .. (Len(channel) + 1) + 1
          /\ channel'[(Len(channel) + 1) + 1] = DisconnectRequest
          /\ \A i \in 1 .. Len(channel) + 1 : channel'[i] = Append(channel, m)[i]
      BY <3>3, <3>4, Appended
    <3>6. \A i \in 1 .. Len(channel) : i \in 1 .. Len(channel) + 1
      BY <1>t
    <3>7. \A i \in 1 .. Len(channel) : channel'[i] = channel[i]
      BY <3>4, <3>5, <3>6
    <3>8. ASSUME NEW i \in DOMAIN channel'
          PROVE  /\ channel'[i].type \in {"NDATA", "DDATA"} => KnownAfter(channel[i].device, i - 1)'
                 /\ channel'[i].type = "DBIRTH" => KnownAfter(None, i - 1)'
      <4>1. CASE i \in DOMAIN channel
        <5>1. PICK s, n : s = channel[i].device /\ n = i - 1
          OBVIOUS
        <5>2. channel'[i] = channel[i] /\ n \in Nat /\ (\A k \in 1 .. n : channel'[k] = channel[k])
          BY <1>t, <3>4, <3>7, <4>1, <5>1
        <5>3. /\ channel[i].type \in {"NDATA", "DDATA"} => KnownAfter(s, n)
              /\ channel[i].type = "DBIRTH" => KnownAfter(None, n)
          BY <2>1, <4>1, <5>1 DEF KnownInv
        <5>4. /\ channel[i].type \in {"NDATA", "DDATA"} => KnownAfter(s, n)'
              /\ channel[i].type = "DBIRTH" => KnownAfter(None, n)'
          BY <2>1, <5>2, <5>3, KnownKept
        <5> QED
          BY <5>1, <5>2, <5>4
      <4>2. CASE i \notin DOMAIN channel
        <5>1. i = Len(channel) + 1 \/ i = (Len(channel) + 1) + 1
          BY <1>t, <3>4, <3>5, <4>2
        <5>2. Len(channel) + 1 \in 1 .. Len(channel) + 1
          BY <1>t
        <5>3. channel'[i] = m \/ channel'[i] = DisconnectRequest
          BY <3>4, <3>5, <5>1, <5>2
        <5> QED
          BY <3>2, <3>3, <5>3
      <4> QED
        BY <4>1, <4>2
    <3> QED
      BY <3>3, <3>8 DEF KnownInv
  <2> QED
    BY <1>3, <2>2, <2>3, <2>4
<1>4. ASSUME EngineIdle, NEW r, Sends(r)
      PROVE  KnownInv'
  <2> SUFFICES ASSUME fresh', link'
               PROVE  KnownInv'
    BY <1>0
  <2>1. fresh /\ link /\ announced' = announced /\ session' = session
    BY <1>4 DEF Sends, EngineIdle, Quiet
  <2>2. ASSUME NEW i \in DOMAIN channel'
        PROVE  /\ channel'[i].type \in {"NDATA", "DDATA"} => KnownAfter(channel[i].device, i - 1)'
               /\ channel'[i].type = "DBIRTH" => KnownAfter(None, i - 1)'
    <3>1. /\ i + 1 \in DOMAIN channel /\ channel'[i] = channel[i + 1]
          /\ i \in 1 .. Len(channel') /\ Len(channel') = Len(channel) - 1
      BY <1>t, <1>4, LeftInChannel
    <3>2. PICK s, n : s = channel[i + 1].device /\ n = i - 1
      OBVIOUS
    <3>3. n \in Nat /\ n + 1 = (i + 1) - 1 /\ n + 1 <= Len(channel) /\ None \in Scopes
      <4>1. \A len \in Nat : \A k \in 1 .. len - 1 :
                k - 1 \in Nat /\ (k - 1) + 1 = (k + 1) - 1 /\ (k - 1) + 1 <= len
        OBVIOUS
      <4>2. i \in 1 .. Len(channel) - 1
        BY <3>1
      <4>3. None \in Scopes
        BY DEF Scopes
      <4> QED
        BY <1>t, <3>2, <4>1, <4>2, <4>3
    <3>4. channel[i + 1].type \in {"NDATA", "DDATA"} => s \in Scopes
      <4>1. channel[i + 1] \in Request
        BY <1>t, <3>1
      <4> QED
        BY <3>2, <4>1, RequestTypes DEF MessageType
    <3>5. /\ channel[i + 1].type \in {"NDATA", "DDATA"} => KnownAfter(s, n + 1)
          /\ channel[i + 1].type = "DBIRTH" => KnownAfter(None, n + 1)
      BY <2>1, <3>1, <3>2, <3>3 DEF KnownInv
    <3>6. /\ channel[i + 1].type \in {"NDATA", "DDATA"} => KnownAfter(s, n)'
          /\ channel[i + 1].type = "DBIRTH" => KnownAfter(None, n)'
      BY <1>t, <1>4, <2>1, <3>3, <3>4, <3>5, KnownSent
    <3> QED
      BY <3>1, <3>2, <3>6
  <2>3. ASSUME session.open, NEW s \in Scopes, announced[s] # None
        PROVE  KnownAfter(s, Len(channel))'
    <3>1. Len(channel') = Len(channel) - 1 /\ Len(channel) >= 1
      BY <1>t, <1>4, FirstOfChannel DEF Sends
    <3>2. PICK n : n = Len(channel')
      OBVIOUS
    <3>3. n \in Nat /\ n + 1 = Len(channel)
      BY <1>t, <3>1, <3>2
    <3>4. KnownAfter(s, n + 1)
      BY <2>1, <2>3, <3>3 DEF KnownInv
    <3>5. KnownAfter(s, n)'
      BY <1>t, <1>4, <2>1, <3>3, <3>4, KnownSent
    <3> QED
      BY <3>2, <3>5
  <2> QED
    BY <2>1, <2>2, <2>3 DEF KnownInv
<1>5. CASE Reconnects \/ Breaks
  BY <1>0, <1>5 DEF Reconnects, Breaks
<1>6. CASE CrashMoves
  BY <1>0, <1>6 DEF CrashMoves
<1>7. CASE Stays
  BY <1>s, <1>7 DEF Stays
<1> QED
  BY <1>t, <1>1, <1>2, <1>3, <1>4, <1>5, <1>6, <1>7, PumpSteps

\* Only connect makes a node wait, and only one that has a primary host.
LEMMA UngatedStep ==
    ASSUME UngatedInv, [PumpNext]_pumpVars
    PROVE  UngatedInv' /\ config' = config
<1>1. CASE EngineIdle
  BY <1>1 DEF EngineIdle, fields, UngatedInv
<1>2. CASE [Next]_vars
  <2>1. config' = config
    BY <1>2
    DEF Next, Connect, Disconnect, Publish, Environment, ConnectStoreFails, ConnectRefused,
        ConnectSubscribeFails, ConnectAndWait, ConnectAndBirth, DisconnectOk, DisconnectFails,
        PublishNodeBirth, PublishDeviceBirth, PublishNodeData, PublishDeviceData,
        PublishDeviceDeath, CallPublishBirthSequence, HandleRebirth, HandleHostOnline,
        HandleHostOffline, DebounceElapses, ConnectionLost, Crash, vars, fields
  <2>2. state' \in {state, "Disconnected", "Online"} \/ config.gated
    BY <1>2
    DEF Next, Connect, Disconnect, Publish, Environment, ConnectStoreFails, ConnectRefused,
        ConnectSubscribeFails, ConnectAndWait, ConnectAndBirth, DisconnectOk, DisconnectFails,
        PublishNodeBirth, PublishDeviceBirth, PublishNodeData, PublishDeviceData,
        PublishDeviceDeath, CallPublishBirthSequence, HandleRebirth, HandleHostOnline,
        HandleHostOffline, DebounceElapses, ConnectionLost, Crash, vars, fields,
        BirthPublished, BirthFailed, BirthsDone, StartBirths
  <2> QED
    BY <2>1, <2>2 DEF UngatedInv
<1> QED
  BY <1>1, <1>2, EngineStep

\* What the broker publishes on it has the birth that it followed in the channel.
LEMMA FreshDataStep ==
    ASSUME DeathInv, KnownInv, FreshDataAfterBirth, [PumpNext]_pumpVars
    PROVE  FreshDataAfterBirth'
<1>t. /\ PumpTypeOK /\ ClientInv /\ AnnouncedInv
      /\ channel \in Seq(Request) /\ conn \in BdSeqs \cup {None}
  BY DEF DeathInv, PumpTypeOK
<1>0. published' = << >> => FreshDataAfterBirth'
  BY DEF FreshDataAfterBirth, DataAfterBirth, DataPublished
<1>w. published' = WillOfOld => FreshDataAfterBirth'
  <2>1. conn # None => NodeDeath(conn).type = "NDEATH"
    BY DEF NodeDeath
  <2> QED
    BY <1>0, <2>1 DEF WillOfOld, FreshDataAfterBirth, DataAfterBirth, DataPublished
<1>1. CASE NodeConnects /\ Hear /\ (ConnectStays \/ ConnectAfresh)
  BY <1>0, <1>w, <1>1 DEF ConnectStays, ConnectAfresh
<1>2. CASE NodeCalls \/ NodeReceives
  BY <1>t, <1>0, <1>2, NodeSays
<1>3. ASSUME NEW r, Sends(r)
      PROVE  FreshDataAfterBirth'
  <2>1. r = channel[1] /\ 1 \in DOMAIN channel
    BY <1>t, <1>3, FirstOfChannel DEF Sends
  <2>2. CASE ~link \/ ~fresh
    BY <1>0, <1>3, <2>2 DEF Sends, FreshDataAfterBirth
  <2>3. CASE r.type \notin {"NDATA", "DDATA"} /\ link
    <3>1. published' = << >> \/ published' = <<r>>
      BY <1>3, <2>3 DEF Sends, HeardAs
    <3> QED
      BY <1>0, <2>3, <3>1 DEF FreshDataAfterBirth, DataAfterBirth, DataPublished
  <2>4. CASE r.type \in {"NDATA", "DDATA"} /\ link /\ fresh
    <3>1. published' = <<r>> /\ known' = known
      BY <1>3, <2>4 DEF Sends, HeardAs, MessageType
    <3>2. KnownAfter(r.device, 1 - 1)
      BY <2>1, <2>4 DEF KnownInv
    <3>3. r.device \in known
      BY <3>2 DEF KnownAfter
    <3> QED
      BY <3>1, <3>3 DEF FreshDataAfterBirth, DataAfterBirth, DataPublished
  <2> QED
    BY <2>2, <2>3, <2>4
<1>4. CASE Reconnects \/ Breaks
  BY <1>0, <1>w, <1>4 DEF Reconnects, Breaks
<1>5. CASE CrashMoves
  BY <1>0, <1>5 DEF CrashMoves
<1>6. CASE Stays
  <2>1. published' = << >> \/ UNCHANGED <<published, fresh, known>>
    BY <1>6 DEF Stays
  <2>2. UNCHANGED <<published, fresh, known>> => FreshDataAfterBirth'
    BY DEF FreshDataAfterBirth, DataAfterBirth, DataPublished
  <2> QED
    BY <1>0, <2>1, <2>2
<1> QED
  BY <1>t, <1>1, <1>2, <1>3, <1>4, <1>5, <1>6, PumpSteps

\* A node without a primary host: whatever the application calls and however the
\* channel and the link behave, on the connection that connect made the broker
\* publishes data only behind the birth of its scope (connect, publish_node_data,
\* publish_device_data, RumqttcTransport::connect).  A node that waits for its
\* primary host enqueues the data of its devices before any birth.
THEOREM FreshDataAfterBirthHolds ==
    ASSUME \A c \in Configs : ~c.gated
    PROVE  PumpSpec => []FreshDataAfterBirth
<1> DEFINE IInv == DeathInv /\ KnownInv /\ UngatedInv /\ ~config.gated /\ FreshDataAfterBirth
<1>1. PumpInit => IInv
  <2> SUFFICES ASSUME PumpInit PROVE IInv
    OBVIOUS
  <2>1. /\ fresh = FALSE /\ state = "Disconnected" /\ config \in Configs
    BY DEF PumpInit, Init
  <2> QED
    BY <2>1, DeathInit DEF KnownInv, UngatedInv, FreshDataAfterBirth
<1>2. IInv /\ [PumpNext]_pumpVars => IInv'
  <2> SUFFICES ASSUME IInv, [PumpNext]_pumpVars PROVE IInv'
    OBVIOUS
  <2>1. state # "WaitingForPrimaryHost"
    BY DEF UngatedInv
  <2>2. UngatedInv' /\ ~config'.gated
    BY UngatedStep
  <2> QED
    BY <2>1, <2>2, DeathInvStep, KnownInvStep, FreshDataStep
<1>3. IInv => FreshDataAfterBirth
  OBVIOUS
<1> QED
  BY <1>1, <1>2, <1>3, PTL DEF PumpSpec
-----------------------------------------------------------------------------
(* What the engine keeps of its own. *)

\* The engine runs unchanged over the channel (EdgeNode, RumqttcTransport).
THEOREM PumpRunsEdge == PumpSpec => JoinedSpec
<1>1. PumpInit => Init
  BY DEF PumpInit
<1>2. [PumpNext]_pumpVars => [Next \/ EngineWaits]_vars
  BY EngineStep DEF EngineIdle, EngineWaits
<1> QED
  BY <1>1, <1>2, PTL DEF PumpSpec, JoinedSpec

\* What the engine enqueues keeps its order: no data before the birth it depends
\* on, and under keys that lead back to it (publish_node_data,
\* publish_device_data, assign_aliases).
THEOREM PumpKeepsEdge ==
    ASSUME \A c \in Configs : c.use_aliases => NamesApart
    PROVE  PumpSpec => [](DataAnnounced /\ DataResolvable)
BY PumpRunsEdge, JoinedKeepsAnnounced, JoinedKeepsResolvable, PTL
=============================================================================
