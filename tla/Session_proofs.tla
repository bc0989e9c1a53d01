---------------------------- MODULE Session_proofs ----------------------------
(***************************************************************************)
(* Proofs about Session: a death that the host reports is one, a lost      *)
(* message never goes unnoticed, and as long as nothing went wrong the     *)
(* host asks for nothing and agrees with the edge; and what host and edge  *)
(* promise alone they keep when they are joined.                           *)
(***************************************************************************)
EXTENDS Session, EdgeNode_proofs, HostApplication_proofs, FiniteSetTheorems, SequenceTheorems
-----------------------------------------------------------------------------
(* Strengthenings that make the properties inductive. *)

Entry == WellFormed \cup [type : {"LOST"}, node_birth : BOOLEAN]

SessionTypeOK ==
    /\ TypeOK
    /\ HostTypeOK
    /\ up \in Seq(Entry)
    /\ late_wills \subseteq BdSeqs
    /\ parted \subseteq BdSeqs
    /\ {requests, connects, missed} \subseteq Nat
    /\ {birth_missed, trouble} \subseteq BOOLEAN

\* The bdSeqs that connects have taken, counted back from the store.
Taken == {b \in BdSeqs : \E k \in 1 .. connects : b + k \in {store, store + BdMod}}

DeathsInFlight == {up[i].bdSeq : i \in {j \in DOMAIN up : up[j].type = "NDEATH"}}

\* Deaths are of connections there have been.
TakenInv ==
    /\ connects <= MaxConnects
    /\ session.open => session.will \in Taken
    /\ late_wills \cup DeathsInFlight \subseteq Taken

\* The broker publishes no will of a connection that is up, and the NDEATH of one
\* that is on its way is the engine's own.
DeathInv ==
    session.open =>
        /\ session.will \notin late_wills
        /\ session.will \in DeathsInFlight => session.will \in parted

LossesInv == Losses < SeqMod

\* The number due after an entry of the queue: a lost NBIRTH had number 0.
DueAfter(entry, n) ==
    CASE entry.type = "NBIRTH" -> AfterBirth(entry.seq)
      [] entry.type = "LOST" -> IF entry.node_birth THEN AfterBirth(0) ELSE WrapInc(n, SeqMod)
      [] entry.type = "NDEATH" -> n
      [] OTHER -> WrapInc(n, SeqMod)

\* The messages published since the last birth bear the numbers that are due.
InOrder(entry, n) ==
    /\ entry.type \in {"NDATA", "DBIRTH", "DDATA", "DDEATH"} => entry.seq = n
    /\ entry.type = "NDEATH" => entry.seq = None

\* The node has published a birth, or tried to, on this connection.
EdgeCounts == session.open /\ IF birth = None THEN lifecycle_ok ELSE birth.at > 0

\* A birth sequence starts from 0.
StartsAtZero == birth # None /\ birth.at = 0 => seq = 0

\* From the number the host expects, past those it missed and along the queue, to
\* the number that the node uses next.
NumbersInv ==
    \E due \in [0 .. Len(up) -> Seqs] :
        /\ \A i \in DOMAIN up :
              InOrder(up[i], due[i - 1]) /\ due[i] = DueAfter(up[i], due[i - 1])
        /\ online /\ ~birth_missed =>
              due[0] \in {expected_seq + missed, expected_seq + missed - SeqMod}
        /\ EdgeCounts => due[Len(up)] = seq

\* Without a primary host, and as long as nothing went wrong, every connection
\* that is up is the application's, and its births are those of the node: outside
\* a birth sequence, and after its NBIRTH, no device is announced but those born.
OpenInv ==
    /\ state # "WaitingForPrimaryHost"
    /\ ~trouble /\ session.open =>
          /\ IF birth = None
             THEN lifecycle_ok /\ announced[None] # None
             ELSE lifecycle_ok \/ birth.by = "connect"
          /\ birth = None \/ birth.at > 0 =>
                \A d \in Devices : announced[d] # None => d \in born_devices
-----------------------------------------------------------------------------
\* The edge's part of a step is one of EdgeNode's, or it only waits.
LEMMA EdgeStep ==
    ASSUME [SessionNext]_sessionVars
    PROVE  [Next]_vars \/ EdgeIdle
BY DEF SessionNext, PublishSequenced, PublishDeath, EdgeConnects, EdgeGivesBirth, EdgeFails,
       PublishWill, HostReceives, HostMisses, HostRestarts, RequestReceived, RequestDropped,
       EdgeWindowEnds, HostWindowEnds, Next, Environment, sessionVars

\* The edge stays well typed, and its invariants are those of the engine alone.
LEMMA EdgeInvStep ==
    ASSUME ~ReconnectWhileOpen, TypeOK, SessionInv, AnnouncedInv, [SessionNext]_sessionVars
    PROVE  TypeOK' /\ SessionInv' /\ AnnouncedInv'
<1>1. CASE [Next]_vars
  BY <1>1, TypeOKStep, SessionInvStep, AnnouncedInvStep
<1>2. CASE EdgeIdle
  BY <1>2, WaitingKeeps DEF EdgeIdle, EngineWaits
<1> QED
  BY <1>1, <1>2, EdgeStep
-----------------------------------------------------------------------------
(* The queue. *)

LostEntry == [type : {"LOST"}, node_birth : BOOLEAN]

\* An entry is a message or a hole.
LEMMA EntryTypes ==
    /\ \A e \in Entry : e.type = "LOST" <=> e \notin WellFormed
    /\ \A e \in Entry : e.type = "LOST" => e.node_birth \in BOOLEAN
    /\ \A m \in WellFormed : m \in Entry /\ m.type \in MessageType
    /\ \A b \in BOOLEAN : Hole(b) \in Entry /\ Hole(b).type = "LOST" /\ Hole(b).node_birth = b
    /\ \A b \in BdSeqs : /\ NodeDeath(b) \in WellFormed /\ NodeDeath(b).type = "NDEATH"
                         /\ NodeDeath(b).bdSeq = b /\ NodeDeath(b).seq = None
<1>1. \A m \in WellFormed : m.type \in MessageType
  BY DEF WellFormed, Message
<1>2. \A e \in LostEntry : e.type = "LOST" /\ e.node_birth \in BOOLEAN
  BY DEF LostEntry
<1>3. "LOST" \notin MessageType
  BY DEF MessageType
<1>4. Entry = WellFormed \cup LostEntry
  BY DEF Entry, LostEntry
<1>5. \A b \in BOOLEAN : Hole(b) \in LostEntry /\ Hole(b).type = "LOST" /\ Hole(b).node_birth = b
  BY DEF Hole, LostEntry
<1>6. ASSUME NEW b \in BdSeqs
      PROVE  /\ NodeDeath(b) \in WellFormed /\ NodeDeath(b).type = "NDEATH"
             /\ NodeDeath(b).bdSeq = b /\ NodeDeath(b).seq = None
  BY DEF NodeDeath, WellFormed, Message, MessageType, Scopes
<1> QED
  BY <1>1, <1>2, <1>3, <1>4, <1>5, <1>6

\* An entry joins the queue at its end.
LEMMA Joined ==
    ASSUME up \in Seq(Entry), NEW e \in Entry, up' = Append(up, e)
    PROVE  /\ up' \in Seq(Entry) /\ up' # << >>
           /\ Len(up) \in Nat /\ Len(up') = Len(up) + 1
           /\ DOMAIN up = 1 .. Len(up) /\ DOMAIN up' = 1 .. Len(up) + 1
           /\ up'[Len(up) + 1] = e
           /\ \A i \in 1 .. Len(up) : up'[i] = up[i]
OBVIOUS

\* And leaves it at its front.
LEMMA Left ==
    ASSUME up \in Seq(Entry), up # << >>, up' = Tail(up)
    PROVE  /\ Head(up) = up[1] /\ up[1] \in Entry /\ 1 \in DOMAIN up
           /\ up' \in Seq(Entry)
           /\ Len(up) \in Nat /\ Len(up) >= 1 /\ Len(up') = Len(up) - 1
           /\ DOMAIN up = 1 .. Len(up) /\ DOMAIN up' = 1 .. Len(up) - 1
           /\ \A i \in 1 .. Len(up) - 1 : up'[i] = up[i + 1]
<1>1. /\ Tail(up) \in Seq(Entry) /\ Len(Tail(up)) = Len(up) - 1
      /\ \A i \in 1 .. Len(Tail(up)) : Tail(up)[i] = up[i + 1]
      /\ Head(up) \in Entry
  BY HeadTailProperties
<1>2. Len(up) \in Nat /\ DOMAIN up = 1 .. Len(up) /\ Head(up) = up[1]
  OBVIOUS
<1>3. Len(up) # 0
  BY EmptySeq
<1>4. DOMAIN Tail(up) = 1 .. Len(Tail(up))
  BY <1>1
<1> QED
  BY <1>1, <1>2, <1>3, <1>4

\* Births bring the datatype of every metric.
LEMMA AliasedTyped ==
    \A names, first : \A i \in DOMAIN Aliased(names, first) : Aliased(names, first)[i].typed
BY DEF Aliased

\* What the NBIRTH of a birth sequence hands to the broker.
LEMMA NodeBirthSent ==
    ASSUME TypeOK, PublishNodeBirth
    PROVE  /\ birth # None /\ birth.at = 0
           /\ UNCHANGED <<store, session, bd_seq>>
           /\ seq' = WrapInc(seq, SeqMod)
           /\ birth' # None => birth'.at = birth.at + 1
           /\ out' # << >> =>
                 /\ session.open
                 /\ \E m \in WellFormed : out' = <<m>> /\ m.type = "NBIRTH" /\ m.seq = seq
<1> DEFINE m == NodeBirth(seq, BirthBdSeq, Aliased(NodeMetrics, next_alias))
<1>1. m \in WellFormed /\ m.type = "NBIRTH" /\ m.seq = seq
  <2>1. Aliased(NodeMetrics, next_alias) \in Seq(Metric)
    BY AliasedType, EdgeNodeAssumption DEF TypeOK
  <2> QED
    BY <2>1, AliasedTyped
    DEF TypeOK, NodeBirth, BirthBdSeq, WellFormed, Message, MessageType, Scopes
<1>2. out' # << >> => session.open /\ out' = <<m>>
  BY DEF PublishNodeBirth, Send, Quiet
<1>3. birth # None /\ birth.at = 0 /\ birth \in BirthProgress
  BY DEF PublishNodeBirth, Idle, TypeOK
<1>4. birth' # None => birth'.at = birth.at + 1
  BY <1>3 DEF PublishNodeBirth, BirthPublished, BirthFailed, BirthsDone, BirthProgress
<1> HIDE DEF m
<1> QED
  BY <1>1, <1>2, <1>3, <1>4 DEF PublishNodeBirth

\* What a step that uses a sequence number hands to the broker, and where the
\* birth sequence goes on from there.
LEMMA SequencedSent ==
    ASSUME TypeOK, Publish
    PROVE  /\ UNCHANGED <<store, session, bd_seq>>
           /\ seq' = WrapInc(seq, SeqMod)
           /\ birth' # None => birth # None /\ birth'.at = birth.at + 1
           /\ out' # << >> =>
                 /\ session.open
                 /\ \E m \in WellFormed :
                       /\ out' = <<m>> /\ m.seq = seq
                       /\ IF birth # None /\ birth.at = 0
                          THEN m.type = "NBIRTH"
                          ELSE m.type \in {"NDATA", "DBIRTH", "DDATA", "DDEATH"}
<1> DEFINE Goal(ts) ==
      /\ UNCHANGED <<store, session, bd_seq>>
      /\ seq' = WrapInc(seq, SeqMod)
      /\ out' # << >> =>
            /\ session.open
            /\ \E m \in WellFormed : out' = <<m>> /\ m.seq = seq /\ m.type \in ts
    Readable(t, metrics) ==
      t \notin {"NDATA", "DDATA"} => \A i \in DOMAIN metrics : metrics[i].typed
<1>0. ASSUME NEW t \in {"NDATA", "DBIRTH", "DDATA", "DDEATH"}, NEW d \in Scopes,
             d = None <=> t = "NDATA", NEW metrics \in Seq(Metric), Readable(t, metrics)
      PROVE  /\ Sequenced(t, d, seq, metrics) \in WellFormed
             /\ Sequenced(t, d, seq, metrics).seq = seq
             /\ Sequenced(t, d, seq, metrics).type = t
  BY <1>0 DEF TypeOK, Sequenced, WellFormed, Message, MessageType
<1>a. ASSUME NEW t \in {"NDATA", "DBIRTH", "DDATA", "DDEATH"}, NEW d \in Scopes,
             d = None <=> t = "NDATA", NEW metrics \in Seq(Metric), Readable(t, metrics),
             Send(Sequenced(t, d, seq, metrics)) \/ Quiet
      PROVE  out' # << >> =>
                 /\ session.open
                 /\ \E m \in WellFormed : out' = <<m>> /\ m.seq = seq /\ m.type = t
  <2>1. PICK m : m = Sequenced(t, d, seq, metrics)
    OBVIOUS
  <2>2. m \in WellFormed /\ m.seq = seq /\ m.type = t
    BY <1>0, <1>a, <2>1
  <2>3. out' # << >> => session.open /\ out' = <<m>>
    BY <1>a, <2>1 DEF Send, Quiet
  <2> QED
    BY <2>2, <2>3
<1>1. None \notin Devices /\ None \in Scopes /\ Devices \subseteq Scopes
  BY SparkplugAssumption DEF Scopes
<1>2. CASE PublishNodeBirth
  BY <1>2, NodeBirthSent
<1>3. CASE PublishDeviceBirth
  <2>1. birth # None /\ birth \in BirthProgress /\ birth.at \in 1 .. Len(DeviceList)
    BY <1>3 DEF TypeOK, PublishDeviceBirth, Idle, BirthProgress
  <2>2. PICK d : d = DeviceList[birth.at]
    OBVIOUS
  <2>3. d \in Devices
    BY <2>1, <2>2, SparkplugAssumption DEF Devices
  <2>4. PICK metrics \in Seq(Metric) : metrics = Aliased(DeviceMetrics[d], next_alias)
    BY <2>3, AliasedType, EdgeNodeAssumption DEF TypeOK
  <2>10. Readable("DBIRTH", metrics)
    BY <2>4, AliasedTyped
  <2>5. PICK m : m = Sequenced("DBIRTH", d, seq, metrics)
    OBVIOUS
  <2>6. m \in WellFormed /\ m.seq = seq /\ m.type = "DBIRTH"
    BY <1>0, <1>1, <2>3, <2>5, <2>10
  <2>7. out' # << >> => session.open /\ out' = <<m>>
    BY <1>3, <2>2, <2>4, <2>5 DEF PublishDeviceBirth, Send, Quiet
  <2>8. birth' # None => birth'.at = birth.at + 1
    BY <1>3, <2>1 DEF PublishDeviceBirth, BirthPublished, BirthFailed, BirthsDone, BirthProgress
  <2>9. birth.at # 0 /\ UNCHANGED <<store, session, bd_seq>> /\ seq' = WrapInc(seq, SeqMod)
    BY <1>3, <2>1 DEF PublishDeviceBirth
  <2> QED
    BY <2>1, <2>6, <2>7, <2>8, <2>9
<1>4. CASE PublishNodeData
  <2>1. ASSUME NEW i \in DOMAIN NodeMetrics
        PROVE  <<DataMetric(NodeMetrics[i])>> \in Seq(Metric)
    BY DataMetricType, EdgeNodeAssumption
  <2>4. PICK i \in DOMAIN NodeMetrics :
            \/ Send(Sequenced("NDATA", None, seq, <<DataMetric(NodeMetrics[i])>>))
            \/ Quiet
    BY <1>4 DEF PublishNodeData
  <2>2. Goal({"NDATA"})
    BY <1>a, <1>1, <1>4, <2>1, <2>4 DEF PublishNodeData
  <2>3. birth = None /\ birth' = None
    BY <1>4 DEF PublishNodeData, Idle
  <2> QED
    BY <2>2, <2>3
<1>5. ASSUME NEW d \in Devices, PublishDeviceData(d)
      PROVE  Goal({"DDATA"}) /\ birth = None /\ birth' = None
  <2>1. ASSUME NEW i \in DOMAIN DeviceMetrics[d]
        PROVE  <<DataMetric(DeviceMetrics[d][i])>> \in Seq(Metric)
    BY DataMetricType, EdgeNodeAssumption
  <2>3. PICK i \in DOMAIN DeviceMetrics[d] :
            \/ Send(Sequenced("DDATA", d, seq, <<DataMetric(DeviceMetrics[d][i])>>))
            \/ Quiet
    BY <1>5 DEF PublishDeviceData
  <2>4. d # None /\ d \in Scopes
    BY <1>1
  <2>2. Goal({"DDATA"})
    BY <1>a, <2>4, <1>5, <2>1, <2>3 DEF PublishDeviceData
  <2> QED
    BY <1>5, <2>2 DEF PublishDeviceData, Idle
<1>6. ASSUME NEW d \in Devices, PublishDeviceDeath(d)
      PROVE  Goal({"DDEATH"}) /\ birth = None /\ birth' = None
  <2>1. << >> \in Seq(Metric)
    OBVIOUS
  <2>3. Send(Sequenced("DDEATH", d, seq, << >>)) \/ Quiet
    BY <1>6 DEF PublishDeviceDeath
  <2>4. d # None /\ d \in Scopes
    BY <1>1
  <2>5. Readable("DDEATH", << >>)
    OBVIOUS
  <2>2. Goal({"DDEATH"})
    BY <1>a, <2>5, <2>4, <1>6, <2>1, <2>3 DEF PublishDeviceDeath
  <2> QED
    BY <1>6, <2>2 DEF PublishDeviceDeath, Idle
<1>7. ASSUME NEW d \in Devices, PublishDeviceData(d) \/ PublishDeviceDeath(d)
      PROVE  Goal({"DDATA", "DDEATH"}) /\ birth = None /\ birth' = None
  BY <1>5, <1>6, <1>7
<1> QED
  BY <1>2, <1>3, <1>4, <1>7 DEF Publish
-----------------------------------------------------------------------------
(* The other calls of the edge. *)

\* An NDEATH is the one of this connection, and no data follows until the next.
LEMMA DeathSent ==
    ASSUME TypeOK, SessionInv, Disconnect
    PROVE  /\ UNCHANGED <<seq, bd_seq, birth, store>>
           /\ birth = None
           /\ session'.will = session.will
           /\ session'.open => session.open
           /\ ~EdgeCounts'
           /\ out' # << >> =>
                 session.open /\ session.will = bd_seq /\ out' = <<NodeDeath(bd_seq)>>
<1>1. UNCHANGED <<seq, bd_seq, birth, store>> /\ birth = None
  BY DEF Disconnect, Idle
<1>2. DisconnectOk \/ DisconnectFails
  BY DEF Disconnect
<1>3. session \in [open : BOOLEAN, will : BdSeqs \cup {None}]
  BY DEF TypeOK
<1>4. /\ session'.will = session.will
      /\ session'.open => session.open
      /\ ~EdgeCounts'
  BY <1>1, <1>2, <1>3 DEF DisconnectOk, DisconnectFails, EdgeCounts
<1>5. out' # << >> => session.open /\ out' = <<NodeDeath(bd_seq)>>
  BY <1>2 DEF DisconnectOk, DisconnectFails, SendDeath, Send, Quiet
<1> QED
  BY <1>1, <1>4, <1>5 DEF SessionInv

\* A connect finds no live connection, and registers the will of the number it
\* takes from the store.
LEMMA Connects ==
    ASSUME ~ReconnectWhileOpen, \A c \in Configs : ~c.gated, TypeOK, Connect
    PROVE  /\ ~session.open
           /\ ~EdgeCounts'
           /\ \/ store' = store /\ session' = session
              \/ /\ store' = NextDeath(store)
                 /\ session' \in {session, [open |-> TRUE, will |-> store]}
           /\ birth' # None => birth'.at = 0 /\ seq' = 0
           /\ out' = << >>
<1>1. birth = None /\ ~session.open /\ ~config.gated
  BY DEF Connect, ConnectStoreFails, ConnectRefused, ConnectSubscribeFails, ConnectAndWait,
         ConnectAndBirth, MayConnect, Idle, TypeOK
<1>2. CASE ConnectStoreFails
  BY <1>1, <1>2 DEF ConnectStoreFails, Quiet, EdgeCounts
<1>3. CASE ConnectRefused
  BY <1>1, <1>3 DEF ConnectRefused, TakeBdSeq, Quiet, EdgeCounts
<1>4. CASE ConnectSubscribeFails
  BY <1>1, <1>4 DEF ConnectSubscribeFails, TakeBdSeq, Open, EdgeCounts
<1>5. CASE ConnectAndBirth
  <2>1. birth' = [at |-> 0, by |-> "connect"] /\ seq' = 0
    BY <1>5 DEF ConnectAndBirth, StartBirths
  <2>2. birth' # None
    BY <2>1, BirthAssumption, SparkplugAssumption DEF BirthProgress, Caller
  <2>3. ~EdgeCounts'
    BY <2>1, <2>2 DEF EdgeCounts
  <2> QED
    BY <1>1, <1>5, <2>1, <2>3 DEF ConnectAndBirth, TakeBdSeq, Open
<1> QED
  BY <1>1, <1>2, <1>3, <1>4, <1>5 DEF Connect, ConnectAndWait

\* A birth sequence counts from 0, and until its NBIRTH nothing is sent.
LEMMA BirthsStart ==
    ASSUME CallPublishBirthSequence \/ HandleRebirth
    PROVE  /\ ~EdgeCounts'
           /\ seq' = 0
           /\ UNCHANGED <<store, session>>
<1>1. \E by \in Caller : StartBirths(by)
  BY DEF CallPublishBirthSequence, HandleRebirth, Caller
<1>2. PICK by \in Caller : birth' = [at |-> 0, by |-> by] /\ seq' = 0
  BY <1>1 DEF StartBirths
<1>3. birth' # None
  BY <1>2, BirthAssumption, SparkplugAssumption DEF BirthProgress
<1>4. UNCHANGED <<store, session>>
  BY DEF CallPublishBirthSequence, HandleRebirth
<1> QED
  BY <1>2, <1>3, <1>4 DEF EdgeCounts

\* The connection is gone, with the process or without it.
LEMMA ConnectionEnds ==
    ASSUME TypeOK, ConnectionLost \/ Crash
    PROVE  /\ ~session'.open
           /\ store' = store
           /\ UNCHANGED <<seq, birth>> \/ birth' = None
<1>1. ~session'.open
  BY DEF TypeOK, ConnectionLost, Crash, NoSession
<1> QED
  BY <1>1 DEF ConnectionLost, Crash, fields
-----------------------------------------------------------------------------
(* The host's part of a step. *)

HostPart ==
    \/ HostIdle
    \/ SlotFreed
    \/ Restart
    \/ up # << >> /\ Head(up).type # "LOST" /\ HandleIncoming(Head(up))
    \/ UNCHANGED hostVars

LEMMA HostStep ==
    ASSUME [SessionNext]_sessionVars
    PROVE  HostPart
BY DEF SessionNext, PublishSequenced, PublishDeath, EdgeConnects, EdgeGivesBirth, EdgeFails,
       PublishWill, HostReceives, HostMisses, HostRestarts, RequestReceived, RequestDropped,
       EdgeWindowEnds, HostWindowEnds, sessionVars, HostPart

\* The first entry of the queue is a message, or it is a hole.
LEMMA FirstEntry ==
    ASSUME up \in Seq(Entry), up # << >>
    PROVE  /\ Head(up) = up[1] /\ up[1] \in Entry
           /\ Head(up).type # "LOST" => Head(up) \in WellFormed
<1>1. Head(up) \in Entry
  BY HeadTailProperties
<1> QED
  BY <1>1, EntryTypes

LEMMA HostWaits ==
    ASSUME HInv, HostIdle
    PROVE  HInv'
<1>1. event' \in Event
  BY NothingType DEF HostIdle, EventKind
<1> QED
  BY <1>1 DEF HostIdle, HInv, HostTypeOK, RegistriesInv, RegistryInv, nodeState

LEMMA HostInvStep ==
    ASSUME HInv, up \in Seq(Entry), HostPart
    PROVE  HInv'
<1>1. CASE HostIdle
  BY <1>1, HostWaits
<1>2. CASE SlotFreed
  BY <1>2, SlotFreedInv
<1>3. CASE Restart
  BY <1>3, RestartInv
<1>4. CASE up # << >> /\ Head(up).type # "LOST" /\ HandleIncoming(Head(up))
  BY <1>4, FirstEntry, HandleInv
<1>5. CASE UNCHANGED hostVars
  BY <1>5 DEF hostVars, HInv, HostTypeOK, RegistriesInv, RegistryInv
<1> QED
  BY <1>1, <1>2, <1>3, <1>4, <1>5 DEF HostPart
-----------------------------------------------------------------------------
(* What the edge's calls put into the queue. *)

\* A number that is used up takes its place in the queue, with its message or
\* with a hole, and the next one is due after it.
LEMMA SequencedQueued ==
    ASSUME SessionTypeOK, StartsAtZero, PublishSequenced
    PROVE  \/ up' = up /\ ~session.open
           \/ /\ session.open
              /\ \E e \in Entry :
                    /\ up' = Append(up, e)
                    /\ e.type # "NDEATH"
                    /\ e.type = "LOST" => Losses < MaxLost
                    /\ \A n \in Seqs :
                          (EdgeCounts => n = seq) => InOrder(e, n) /\ DueAfter(e, n) = seq'
<1>1. /\ TypeOK /\ seq \in Seqs /\ SeqMod \in Nat \ {0, 1} /\ None \notin Seqs
      /\ birth # None => birth.at \in Nat
  <2>1. None \notin Nat /\ SeqMod \in Nat \ {0, 1}
    BY SparkplugAssumption
  <2>2. TypeOK /\ birth \in BirthProgress \cup {None} /\ seq \in Seqs
    BY DEF SessionTypeOK, TypeOK
  <2>3. Seqs \subseteq Nat
    BY <2>1 DEF Seqs
  <2>4. birth # None => birth.at \in Nat
    BY <2>2, SparkplugAssumption DEF BirthProgress
  <2> QED
    BY <2>1, <2>2, <2>3, <2>4
<1>2. /\ seq' = WrapInc(seq, SeqMod)
      /\ out' # << >> =>
            /\ session.open
            /\ \E m \in WellFormed :
                  /\ out' = <<m>> /\ m.seq = seq
                  /\ IF birth # None /\ birth.at = 0
                     THEN m.type = "NBIRTH"
                     ELSE m.type \in {"NDATA", "DBIRTH", "DDATA", "DDEATH"}
  BY <1>1, SequencedSent DEF PublishSequenced
<1>3. session.open => IF birth # None /\ birth.at = 0 THEN seq = 0 ELSE EdgeCounts
  BY <1>1 DEF PublishSequenced, Idle, EdgeCounts, StartsAtZero
<1>4. CASE out' # << >> /\ Enqueue(out'[1])
  <2>1. PICK m \in WellFormed :
            /\ out' = <<m>> /\ m.seq = seq
            /\ IF birth # None /\ birth.at = 0
               THEN m.type = "NBIRTH"
               ELSE m.type \in {"NDATA", "DBIRTH", "DDATA", "DDEATH"}
    BY <1>2, <1>4
  <2>2. up' = Append(up, m)
    BY <1>4, <2>1 DEF Enqueue
  <2>3. m \in Entry
    BY EntryTypes
  <2>4. m.type # "NDEATH" /\ m.type # "LOST"
    BY <2>1
  <2>5. ASSUME NEW n \in Seqs, EdgeCounts => n = seq
        PROVE  InOrder(m, n) /\ DueAfter(m, n) = seq'
    <3>1. CASE birth # None /\ birth.at = 0
      <4>1. m.type = "NBIRTH" /\ m.seq = seq
        BY <2>1, <3>1
      <4>2. AfterBirth(seq) = seq'
        BY <1>1, <1>2 DEF AfterBirth
      <4> QED
        BY <4>1, <4>2 DEF InOrder, DueAfter
    <3>2. CASE ~(birth # None /\ birth.at = 0)
      <4>1. m.type \in {"NDATA", "DBIRTH", "DDATA", "DDEATH"} /\ m.seq = seq
        BY <2>1, <3>2
      <4>2. n = seq
        BY <1>2, <1>3, <1>4, <2>5, <3>2
      <4> QED
        BY <1>2, <4>1, <4>2 DEF InOrder, DueAfter
    <3> QED
      BY <3>1, <3>2
  <2> QED
    BY <1>2, <1>4, <2>2, <2>3, <2>4, <2>5
<1>5. CASE session.open /\ Losses < MaxLost /\ Enqueue(Hole(birth # None /\ birth.at = 0))
  <2>1. PICK b \in BOOLEAN : b = (birth # None /\ birth.at = 0)
    OBVIOUS
  <2>2. PICK e : e = Hole(b)
    OBVIOUS
  <2>3. e \in Entry /\ e.type = "LOST" /\ e.node_birth = b
    BY <2>2, EntryTypes
  <2>4. up' = Append(up, e)
    BY <1>5, <2>1, <2>2 DEF Enqueue
  <2>5. ASSUME NEW n \in Seqs, EdgeCounts => n = seq
        PROVE  InOrder(e, n) /\ DueAfter(e, n) = seq'
    <3>1. CASE b
      <4>1. AfterBirth(0) = seq'
        BY <1>1, <1>2, <1>3, <1>5, <2>1, <3>1, ZeroType DEF AfterBirth
      <4> QED
        BY <2>3, <3>1, <4>1 DEF InOrder, DueAfter
    <3>2. CASE ~b
      <4>1. n = seq
        BY <1>3, <1>5, <2>1, <2>5, <3>2
      <4> QED
        BY <1>2, <2>3, <3>2, <4>1 DEF InOrder, DueAfter
    <3> QED
      BY <3>1, <3>2
  <2> QED
    BY <1>5, <2>3, <2>4, <2>5
<1>6. CASE ~session.open /\ UNCHANGED up
  BY <1>6
<1> QED
  BY <1>4, <1>5, <1>6 DEF PublishSequenced

\* A death joins the queue when it is the engine's own or a will.
LEMMA DeathQueued ==
    ASSUME SessionTypeOK, SessionInv, PublishDeath
    PROVE  \/ up' = up
           \/ /\ session.open /\ session.will = bd_seq /\ bd_seq \in parted'
              /\ up' = Append(up, NodeDeath(bd_seq))
<1>1. TypeOK /\ Disconnect
  BY DEF SessionTypeOK, PublishDeath
<1>2. CASE out' # << >> /\ Enqueue(out'[1])
  BY <1>1, <1>2, DeathSent DEF PublishDeath, Enqueue
<1>3. CASE UNCHANGED up
  BY <1>3
<1> QED
  BY <1>2, <1>3 DEF PublishDeath

\* The queue grows by an entry, or loses its first one.
LEMMA QueueStep ==
    ASSUME SessionTypeOK, SessionInv, StartsAtZero,
           [SessionNext]_sessionVars
    PROVE  \/ up' = up
           \/ \E e \in Entry : up' = Append(up, e)
           \/ up # << >> /\ up' = Tail(up)
<1>1. CASE PublishSequenced
  BY <1>1, SequencedQueued
<1>2. CASE PublishDeath
  <2>1. bd_seq \in BdSeqs
    BY DEF SessionTypeOK, TypeOK
  <2>2. NodeDeath(bd_seq) \in Entry
    BY <2>1, EntryTypes
  <2> QED
    BY <1>2, <2>2, DeathQueued
<1>3. CASE PublishWill
  <2>1. PICK b \in late_wills : up' = up \/ up' = Append(up, NodeDeath(b))
    BY <1>3 DEF PublishWill, Enqueue
  <2>2. b \in BdSeqs
    BY DEF SessionTypeOK
  <2>3. NodeDeath(b) \in Entry
    BY <2>2, EntryTypes
  <2> QED
    BY <2>1, <2>3
<1>4. CASE HostReceives \/ HostMisses
  BY <1>4 DEF HostReceives, HostMisses
<1>5. CASE EdgeConnects \/ EdgeGivesBirth \/ EdgeFails \/ HostRestarts \/ RequestReceived
           \/ RequestDropped \/ EdgeWindowEnds \/ HostWindowEnds \/ UNCHANGED sessionVars
  BY <1>5 DEF EdgeConnects, EdgeGivesBirth, EdgeFails, HostRestarts, RequestReceived,
              RequestDropped, EdgeWindowEnds, HostWindowEnds, sessionVars, network
<1> QED
  BY <1>1, <1>2, <1>3, <1>4, <1>5 DEF SessionNext
-----------------------------------------------------------------------------
(* Type correctness. *)

LEMMA SessionTypeStep ==
    ASSUME ~ReconnectWhileOpen,
           SessionTypeOK, RegistriesInv, SessionInv, AnnouncedInv,
           StartsAtZero,
           [SessionNext]_sessionVars
    PROVE  SessionTypeOK' /\ RegistriesInv' /\ SessionInv' /\ AnnouncedInv'
<1>1. TypeOK /\ HInv /\ up \in Seq(Entry) /\ late_wills \subseteq BdSeqs /\ parted \subseteq BdSeqs
  BY DEF SessionTypeOK, HInv
<1>2. TypeOK' /\ SessionInv' /\ AnnouncedInv'
  BY <1>1, EdgeInvStep
<1>3. HostTypeOK' /\ RegistriesInv'
  BY <1>1, HostStep, HostInvStep DEF HInv
<1>4. up' \in Seq(Entry)
  <2>1. ASSUME NEW e \in Entry, up' = Append(up, e)
        PROVE  up' \in Seq(Entry)
    BY <1>1, <2>1
  <2>2. CASE up # << >> /\ up' = Tail(up)
    BY <1>1, <2>2, Left
  <2> QED
    BY <1>1, <2>1, <2>2, QueueStep
<1>5. bd_seq \in BdSeqs /\ (session.open => session.will \in BdSeqs)
  BY <1>1 DEF TypeOK, SessionInv
<1>6. late_wills' \subseteq BdSeqs
  BY <1>1, <1>5
     DEF SessionNext, PublishSequenced, PublishDeath, EdgeConnects, EdgeGivesBirth, EdgeFails,
         PublishWill, HostReceives, HostMisses, HostRestarts, RequestReceived, RequestDropped,
         EdgeWindowEnds, HostWindowEnds, sessionVars, network
<1>7. parted' \subseteq BdSeqs
  BY <1>1, <1>5
     DEF SessionNext, PublishSequenced, PublishDeath, EdgeConnects, EdgeGivesBirth, EdgeFails,
         PublishWill, HostReceives, HostMisses, HostRestarts, RequestReceived, RequestDropped,
         EdgeWindowEnds, HostWindowEnds, sessionVars, observers
<1>8. {requests', connects', missed'} \subseteq Nat
  <2>1. requests' \in {requests, requests + 1, requests - 1} /\ (requests' = requests - 1 => requests > 0)
    <3>1. CASE HostReceives
      <4>1. requests' = requests \/ requests' = requests + 1
        BY <3>1, Zenon DEF HostReceives
      <4> QED
        BY <4>1 DEF SessionTypeOK
    <3>2. CASE RequestReceived \/ RequestDropped
      BY <3>2 DEF RequestReceived, RequestDropped
    <3>3. CASE ~(HostReceives \/ RequestReceived \/ RequestDropped)
      <4>1. requests' = requests
        BY <3>3
           DEF SessionNext, PublishSequenced, PublishDeath, EdgeConnects, EdgeGivesBirth,
               EdgeFails, PublishWill, HostMisses, HostRestarts, EdgeWindowEnds,
               HostWindowEnds, sessionVars, network
      <4> QED
        BY <4>1 DEF SessionTypeOK
    <3> QED
      BY <3>1, <3>2, <3>3
  <2>2. connects' \in {connects, connects + 1}
    BY DEF SessionNext, PublishSequenced, PublishDeath, EdgeConnects, EdgeGivesBirth, EdgeFails,
           PublishWill, HostReceives, HostMisses, HostRestarts, RequestReceived, RequestDropped,
           EdgeWindowEnds, HostWindowEnds, sessionVars
  <2>3. missed' \in {0, missed, missed + 1}
    BY DEF SessionNext, PublishSequenced, PublishDeath, EdgeConnects, EdgeGivesBirth, EdgeFails,
           PublishWill, HostReceives, HostMisses, HostRestarts, RequestReceived, RequestDropped,
           EdgeWindowEnds, HostWindowEnds, sessionVars, observers
  <2>4. requests \in Nat /\ connects \in Nat /\ missed \in Nat
    BY DEF SessionTypeOK
  <2> QED
    BY <2>1, <2>2, <2>3, <2>4
<1>9. {birth_missed', trouble'} \subseteq BOOLEAN
  <2>1. {birth_missed} \subseteq BOOLEAN /\ {trouble} \subseteq BOOLEAN
    BY DEF SessionTypeOK
  <2>2. {birth_missed'} \subseteq BOOLEAN
    BY <2>1
       DEF SessionNext, PublishSequenced, PublishDeath, EdgeConnects, EdgeGivesBirth, EdgeFails,
           PublishWill, HostReceives, HostMisses, HostRestarts, RequestReceived, RequestDropped,
           EdgeWindowEnds, HostWindowEnds, sessionVars, observers
  <2>3. {trouble'} \subseteq BOOLEAN
    BY <2>1
       DEF SessionNext, PublishSequenced, PublishDeath, EdgeConnects, EdgeGivesBirth, EdgeFails,
           PublishWill, HostReceives, HostMisses, HostRestarts, RequestReceived, RequestDropped,
           EdgeWindowEnds, HostWindowEnds, sessionVars, observers
  <2> QED
    BY <2>2, <2>3
<1> QED
  BY <1>2, <1>3, <1>4, <1>6, <1>7, <1>8, <1>9 DEF SessionTypeOK

LEMMA StartsAtZeroStep ==
    ASSUME ~ReconnectWhileOpen, \A c \in Configs : ~c.gated,
           SessionTypeOK, SessionInv, StartsAtZero, [SessionNext]_sessionVars
    PROVE  StartsAtZero'
<1>1. TypeOK /\ (birth # None => birth.at \in Nat)
  BY SparkplugAssumption DEF SessionTypeOK, TypeOK, BirthProgress
<1>2. CASE PublishSequenced
  BY <1>1, <1>2, SequencedSent DEF PublishSequenced, StartsAtZero
<1>3. CASE PublishDeath
  BY <1>1, <1>3, DeathSent DEF PublishDeath, StartsAtZero
<1>4. CASE EdgeConnects
  BY <1>1, <1>4, Connects DEF EdgeConnects, StartsAtZero
<1>5. CASE EdgeGivesBirth \/ RequestReceived
  BY <1>5, BirthsStart DEF EdgeGivesBirth, RequestReceived, StartsAtZero
<1>6. CASE EdgeFails
  BY <1>1, <1>6, ConnectionEnds DEF EdgeFails, StartsAtZero
<1>7. CASE PublishWill \/ HostReceives \/ HostMisses \/ HostRestarts \/ RequestDropped
           \/ EdgeWindowEnds \/ HostWindowEnds \/ UNCHANGED sessionVars
  BY <1>7 DEF PublishWill, HostReceives, HostMisses, HostRestarts, RequestDropped, EdgeWindowEnds,
              HostWindowEnds, EdgeIdle, DebounceElapses, fields, sessionVars, vars, StartsAtZero
<1> QED
  BY <1>2, <1>3, <1>4, <1>5, <1>6, <1>7 DEF SessionNext
-----------------------------------------------------------------------------
(* Deaths. *)

\* The deaths in the queue once an entry has joined it, or left it.
LEMMA DeathsJoined ==
    ASSUME up \in Seq(Entry), NEW e \in Entry, up' = Append(up, e)
    PROVE  DeathsInFlight' \subseteq
               DeathsInFlight \cup (IF e.type = "NDEATH" THEN {e.bdSeq} ELSE {})
<1> SUFFICES ASSUME NEW i \in DOMAIN up', up'[i].type = "NDEATH"
             PROVE  up'[i].bdSeq \in
                        DeathsInFlight \cup (IF e.type = "NDEATH" THEN {e.bdSeq} ELSE {})
  BY DEF DeathsInFlight
<1>1. /\ i \in 1 .. Len(up) + 1 /\ Len(up) \in Nat /\ DOMAIN up = 1 .. Len(up)
      /\ up'[Len(up) + 1] = e
      /\ \A j \in 1 .. Len(up) : up'[j] = up[j]
  BY Joined
<1>2. CASE i = Len(up) + 1
  BY <1>1, <1>2
<1>3. CASE i \in 1 .. Len(up)
  <2>1. i \in DOMAIN up /\ up'[i] = up[i]
    BY <1>1, <1>3
  <2> QED
    BY <2>1 DEF DeathsInFlight
<1>4. i = Len(up) + 1 \/ i \in 1 .. Len(up)
  BY <1>1
<1> QED
  BY <1>2, <1>3, <1>4

LEMMA DeathsLeft ==
    ASSUME up \in Seq(Entry), up # << >>, up' = Tail(up)
    PROVE  DeathsInFlight' \subseteq DeathsInFlight
<1> SUFFICES ASSUME NEW i \in DOMAIN up', up'[i].type = "NDEATH"
             PROVE  up'[i].bdSeq \in DeathsInFlight
  BY DEF DeathsInFlight
<1>1. /\ i \in 1 .. Len(up) - 1 /\ Len(up) \in Nat /\ DOMAIN up = 1 .. Len(up)
      /\ up'[i] = up[i + 1]
  BY Left
<1>2. i + 1 \in DOMAIN up
  BY <1>1
<1> QED
  BY <1>1, <1>2 DEF DeathsInFlight

\* A connect takes a number that no death can bear, for the store can not have
\* come round to it.
LEMMA TakesFresh ==
    ASSUME store \in BdSeqs, connects \in Nat, connects < MaxConnects,
           store' = NextDeath(store), connects' = connects + 1
    PROVE  /\ store \notin Taken
           /\ store \in Taken'
           /\ Taken \subseteq Taken'
<1>1. BdMod \in Nat \ {0, 1} /\ connects < BdMod - 1 /\ BdSeqs = 0 .. BdMod - 1
  BY SparkplugAssumption, SessionAssumption DEF BdSeqs
<1>2. store \notin Taken
  BY <1>1 DEF Taken
<1>3. IF store = BdMod - 1 THEN store' = 0 ELSE store' = store + 1
  BY DEF NextDeath, WrapInc
<1>4. store \in Taken'
  <2>1. 1 \in 1 .. connects' /\ store + 1 \in {store', store' + BdMod}
    BY <1>1, <1>3
  <2> QED
    BY <2>1 DEF Taken
<1>5. ASSUME NEW b \in BdSeqs, NEW k \in 1 .. connects, b + k \in {store, store + BdMod}
      PROVE  b \in Taken'
  <2>1. k + 1 \in 1 .. connects'
    OBVIOUS
  <2>2. b + (k + 1) \in {store', store' + BdMod}
    BY <1>1, <1>3, <1>5
  <2> QED
    BY <2>1, <2>2 DEF Taken
<1>6. Taken \subseteq Taken'
  BY <1>5 DEF Taken
<1> QED
  BY <1>2, <1>4, <1>6

DInv == TakenInv /\ DeathInv

\* An edge that keeps its number and its session, and a death that may join.
LEMMA DeathFrame ==
    ASSUME TakenInv, DeathInv, UNCHANGED <<store, connects>>,
           session'.will = session.will, session'.open => session.open,
           late_wills' \subseteq late_wills, parted \subseteq parted',
           DeathsInFlight' \subseteq DeathsInFlight
    PROVE  DInv'
<1>1. Taken' = Taken
  BY DEF Taken
<1> QED
  BY <1>1 DEF TakenInv, DeathInv, DInv

LEMMA DInvStep ==
    ASSUME ~ReconnectWhileOpen, \A c \in Configs : ~c.gated,
           SessionTypeOK, SessionInv, StartsAtZero, DInv, [SessionNext]_sessionVars
    PROVE  DInv'
<1>1. /\ TypeOK /\ up \in Seq(Entry) /\ late_wills \subseteq BdSeqs /\ connects \in Nat
      /\ TakenInv /\ DeathInv
  BY DEF SessionTypeOK, DInv
<1>2. /\ session \in [open : BOOLEAN, will : BdSeqs \cup {None}] /\ bd_seq \in BdSeqs
      /\ store \in BdSeqs
  BY <1>1 DEF TypeOK
<1>3. CASE PublishSequenced
  <2>1. UNCHANGED <<store, session, connects, late_wills, parted>>
    BY <1>1, <1>3, SequencedSent DEF PublishSequenced
  <2>2. up' = up \/ \E e \in Entry : up' = Append(up, e) /\ e.type # "NDEATH"
    BY <1>3, SequencedQueued
  <2>3. DeathsInFlight' \subseteq DeathsInFlight
    BY <1>1, <2>2, DeathsJoined DEF DeathsInFlight
  <2> QED
    BY <1>1, <2>1, <2>3, DeathFrame
<1>4. CASE PublishDeath
  <2>1. /\ UNCHANGED <<store, connects, late_wills>>
        /\ session'.will = session.will
        /\ session'.open => session.open
        /\ parted \subseteq parted'
    BY <1>1, <1>4, DeathSent DEF PublishDeath
  <2>2. CASE up' = up
    <3>1. DeathsInFlight' \subseteq DeathsInFlight
      BY <2>2 DEF DeathsInFlight
    <3>2. late_wills' \subseteq late_wills /\ UNCHANGED <<store, connects>>
      BY <2>1
    <3> QED
      BY <1>1, <2>1, <3>1, <3>2, DeathFrame, Zenon
  <2>3. CASE /\ session.open /\ session.will = bd_seq /\ bd_seq \in parted'
             /\ up' = Append(up, NodeDeath(bd_seq))
    <3>1. DeathsInFlight' \subseteq DeathsInFlight \cup {bd_seq}
      BY <1>1, <1>2, <2>3, EntryTypes, DeathsJoined
    <3>2. Taken' = Taken
      BY <2>1 DEF Taken
    <3>3. connects' <= MaxConnects /\ late_wills' \cup DeathsInFlight' \subseteq Taken'
      BY <1>1, <2>1, <2>3, <3>1, <3>2 DEF TakenInv
    <3>4. session'.open => session'.will \in Taken'
      BY <1>1, <2>1, <3>2 DEF TakenInv
    <3>5. session'.open => session'.will \notin late_wills' /\ session'.will \in parted'
      BY <1>1, <2>1, <2>3 DEF DeathInv
    <3> QED
      BY <3>3, <3>4, <3>5 DEF TakenInv, DeathInv, DInv
  <2> QED
    BY <1>4, <2>2, <2>3, DeathQueued DEF SessionTypeOK
<1>5. CASE EdgeConnects
  <2>1. /\ ~session.open /\ UNCHANGED <<up, late_wills, parted>> /\ connects < MaxConnects
        /\ connects' = IF store' = store THEN connects ELSE connects + 1
        /\ \/ store' = store /\ session' = session
           \/ /\ store' = NextDeath(store)
              /\ session' \in {session, [open |-> TRUE, will |-> store]}
    BY <1>1, <1>5, Connects DEF EdgeConnects, network
  <2>2. DeathsInFlight' = DeathsInFlight
    BY <2>1 DEF DeathsInFlight
  <2>3. CASE store' = store /\ session' = session
    BY <1>1, <2>1, <2>2, <2>3, DeathFrame
  <2>4. CASE /\ store' = NextDeath(store)
             /\ session' \in {session, [open |-> TRUE, will |-> store]}
    <3>1. connects' = connects + 1
      BY <1>2, <2>1, <2>4, NextDeathType
    <3>2. store \notin Taken /\ store \in Taken' /\ Taken \subseteq Taken'
      BY <1>1, <1>2, <2>1, <2>4, <3>1, TakesFresh
    <3>3. connects' <= MaxConnects
      BY <1>1, <2>1, <3>1, SessionAssumption
    <3> QED
      BY <1>1, <2>1, <2>2, <2>4, <3>2, <3>3 DEF TakenInv, DeathInv, DInv
  <2> QED
    BY <2>1, <2>3, <2>4
<1>6. CASE EdgeFails
  <2>1. /\ ~session'.open /\ UNCHANGED <<store, up, connects, parted>>
        /\ late_wills' \subseteq late_wills \cup (IF session.open THEN {session.will} ELSE {})
    BY <1>1, <1>6, ConnectionEnds DEF EdgeFails, observers
  <2>2. DeathsInFlight' = DeathsInFlight /\ Taken' = Taken
    BY <2>1 DEF DeathsInFlight, Taken
  <2> QED
    BY <1>1, <2>1, <2>2 DEF TakenInv, DeathInv, DInv
<1>7. CASE PublishWill
  <2>1. /\ UNCHANGED <<store, session, connects, parted>>
    BY <1>7 DEF PublishWill, EdgeIdle
  <2>2. PICK b \in late_wills :
            /\ late_wills' = late_wills \ {b}
            /\ up' = up \/ up' = Append(up, NodeDeath(b))
    BY <1>7 DEF PublishWill, Enqueue
  <2>3. DeathsInFlight' \subseteq DeathsInFlight \cup {b}
    <3>1. CASE up' = up
      BY <3>1 DEF DeathsInFlight
    <3>2. CASE up' = Append(up, NodeDeath(b))
      BY <1>1, <3>2, EntryTypes, DeathsJoined
    <3> QED
      BY <2>2, <3>1, <3>2
  <2>4. Taken' = Taken
    BY <2>1 DEF Taken
  <2> QED
    BY <1>1, <2>1, <2>2, <2>3, <2>4 DEF TakenInv, DeathInv, DInv
<1>8. CASE HostReceives \/ HostMisses
  <2>1. /\ UNCHANGED <<store, session, connects, late_wills, parted>>
        /\ up # << >> /\ up' = Tail(up)
    BY <1>8 DEF HostReceives, HostMisses, EdgeIdle
  <2>2. DeathsInFlight' \subseteq DeathsInFlight
    BY <1>1, <2>1, DeathsLeft
  <2> QED
    BY <1>1, <2>1, <2>2, DeathFrame
<1>9. CASE EdgeGivesBirth \/ HostRestarts \/ RequestReceived \/ RequestDropped
           \/ EdgeWindowEnds \/ HostWindowEnds \/ UNCHANGED sessionVars
  <2>1. UNCHANGED <<store, session, connects, late_wills, parted, up>>
    BY <1>9, BirthsStart
       DEF EdgeGivesBirth, HostRestarts, RequestReceived, RequestDropped, EdgeWindowEnds,
           HostWindowEnds, EdgeIdle, DebounceElapses, sessionVars, vars, network, observers
  <2>2. DeathsInFlight' = DeathsInFlight
    BY <2>1 DEF DeathsInFlight
  <2> QED
    BY <1>1, <2>1, <2>2, DeathFrame
<1> QED
  BY <1>3, <1>4, <1>5, <1>6, <1>7, <1>8, <1>9 DEF SessionNext
-----------------------------------------------------------------------------
(* Losses. *)

LostIn(q) == {i \in DOMAIN q : q[i].type = "LOST"}

LEMMA LostFinite ==
    ASSUME NEW q \in Seq(Entry)
    PROVE  IsFiniteSet(LostIn(q)) /\ Cardinality(LostIn(q)) \in Nat
<1>1. DOMAIN q = 1 .. Len(q) /\ Len(q) \in Nat
  OBVIOUS
<1>2. IsFiniteSet(1 .. Len(q))
  BY <1>1, FS_Interval
<1>3. LostIn(q) \in SUBSET (1 .. Len(q))
  BY <1>1 DEF LostIn
<1>4. IsFiniteSet(LostIn(q))
  BY <1>2, <1>3, FS_Subset
<1> QED
  BY <1>4, FS_CardinalityType

\* What joins the queue is one more to wait for if it is a hole.
LEMMA LossesJoined ==
    ASSUME up \in Seq(Entry), NEW e \in Entry, up' = Append(up, e), missed \in Nat,
           missed' = missed
    PROVE  Losses' = IF e.type = "LOST" THEN Losses + 1 ELSE Losses
<1>1. /\ Len(up) \in Nat /\ DOMAIN up = 1 .. Len(up) /\ DOMAIN up' = 1 .. Len(up) + 1
      /\ up'[Len(up) + 1] = e
      /\ \A i \in 1 .. Len(up) : up'[i] = up[i]
  BY Joined
<1>2. PICK n : n = Len(up) + 1
  OBVIOUS
<1>3. n \notin LostIn(up)
  BY <1>1, <1>2 DEF LostIn
<1>4. LostIn(up') = IF e.type = "LOST" THEN LostIn(up) \cup {n} ELSE LostIn(up)
  <2>1. 1 .. Len(up) + 1 = (1 .. Len(up)) \cup {n} /\ n \notin 1 .. Len(up)
    BY <1>1, <1>2
  <2>2. LostIn(up') = {i \in DOMAIN up' : up'[i].type = "LOST"}
    BY DEF LostIn
  <2> QED
    BY <1>1, <1>2, <2>1, <2>2 DEF LostIn
<1>5. /\ IsFiniteSet(LostIn(up)) /\ Cardinality(LostIn(up)) \in Nat
      /\ Cardinality(LostIn(up) \cup {n}) = Cardinality(LostIn(up)) + 1
  BY <1>3, LostFinite, FS_AddElement
<1>6. Losses = missed + Cardinality(LostIn(up)) /\ Losses' = missed + Cardinality(LostIn(up'))
  BY DEF Losses, LostIn
<1>7. PICK c \in Nat : c = Cardinality(LostIn(up))
  BY <1>5
<1>8. Cardinality(LostIn(up')) = IF e.type = "LOST" THEN c + 1 ELSE c
  BY <1>4, <1>5, <1>7
<1> QED
  BY <1>6, <1>7, <1>8

\* A hole that leaves it is one the host missed.
LEMMA LossesLeft ==
    ASSUME up \in Seq(Entry), up # << >>, up' = Tail(up), up[1].type = "LOST",
           missed \in Nat, missed' = missed + 1
    PROVE  Losses' <= Losses
<1>1. /\ 1 \in DOMAIN up /\ Len(up) \in Nat /\ DOMAIN up = 1 .. Len(up)
      /\ DOMAIN up' = 1 .. Len(up) - 1
      /\ \A i \in 1 .. Len(up) - 1 : up'[i] = up[i + 1]
      /\ up' \in Seq(Entry)
  BY Left
<1>2. PICK rest : rest = LostIn(up) \ {1}
  OBVIOUS
<1>3. IsFiniteSet(rest) /\ Cardinality(rest) = Cardinality(LostIn(up)) - 1
  <2>1. 1 \in LostIn(up)
    BY <1>1 DEF LostIn
  <2>2. IsFiniteSet(LostIn(up))
    BY LostFinite
  <2> QED
    BY <1>2, <2>1, <2>2, FS_RemoveElement
<1>4. PICK now : now = LostIn(up')
  OBVIOUS
<1>5. \A i \in now : i \in Nat /\ i + 1 \in rest
  <2>1. now = {i \in DOMAIN up' : up'[i].type = "LOST"}
    BY <1>4 DEF LostIn
  <2> QED
    BY <1>1, <1>2, <2>1 DEF LostIn
<1>6. [i \in now |-> i + 1] \in Injection(now, rest)
  BY <1>5 DEF Injection, IsInjective
<1>7. Cardinality(now) <= Cardinality(rest)
  BY <1>3, <1>6, FS_Injection
<1>8. IsFiniteSet(now) /\ Cardinality(now) \in Nat
  BY <1>3, <1>6, FS_Injection, FS_CardinalityType
<1>9. Losses = missed + Cardinality(LostIn(up)) /\ Losses' = missed + 1 + Cardinality(now)
  BY <1>4 DEF Losses, LostIn
<1>10. PICK c \in Nat : c = Cardinality(LostIn(up))
  BY LostFinite
<1>11. PICK k \in Nat : k = Cardinality(now)
  BY <1>8
<1>12. k <= c - 1
  BY <1>3, <1>7, <1>10, <1>11
<1>13. Losses = missed + c /\ Losses' = missed + 1 + k
  BY <1>9, <1>10, <1>11
<1>14. missed + 1 + k <= missed + c
  BY <1>12
<1> QED
  BY <1>13, <1>14

\* What the host has missed is never more than sequence numbers tell apart.
LEMMA LossesStep ==
    ASSUME SessionTypeOK, SessionInv, StartsAtZero, LossesInv, [SessionNext]_sessionVars
    PROVE  LossesInv'
<1>1. /\ up \in Seq(Entry) /\ missed \in Nat /\ MaxLost < SeqMod
      /\ MaxLost \in Nat /\ SeqMod \in Nat
  BY SessionAssumption, SparkplugAssumption DEF SessionTypeOK
<1>2. Losses \in Nat
  <2>1. PICK c \in Nat : c = Cardinality(LostIn(up))
    BY <1>1, LostFinite
  <2>2. Losses = missed + c
    BY <2>1 DEF Losses, LostIn
  <2> QED
    BY <1>1, <2>2
<1>3. CASE up' = up /\ missed' = missed
  BY <1>3 DEF LossesInv, Losses
<1>4. ASSUME NEW e \in Entry, up' = Append(up, e), missed' = missed,
             e.type = "LOST" => Losses < MaxLost
      PROVE  LossesInv'
  <2>1. Losses' = IF e.type = "LOST" THEN Losses + 1 ELSE Losses
    BY <1>1, <1>4, LossesJoined
  <2> QED
    BY <1>1, <1>2, <1>4, <2>1 DEF LossesInv
<1>5. CASE PublishSequenced
  <2>1. missed' = missed
    BY <1>5 DEF PublishSequenced
  <2>2. up' = up \/ \E e \in Entry : up' = Append(up, e) /\ (e.type = "LOST" => Losses < MaxLost)
    BY <1>5, SequencedQueued
  <2> QED
    BY <1>3, <1>4, <2>1, <2>2
<1>6. CASE PublishDeath \/ PublishWill
  <2>1. missed' = missed
    BY <1>6 DEF PublishDeath, PublishWill
  <2>2. up' = up \/ \E b \in BdSeqs : up' = Append(up, NodeDeath(b))
    BY <1>6, DeathQueued DEF PublishWill, Enqueue, SessionTypeOK, TypeOK
  <2> QED
    BY <1>3, <1>4, <2>1, <2>2, EntryTypes
<1>7. CASE HostReceives
  BY <1>7 DEF HostReceives, LossesInv
<1>8. CASE HostMisses
  <2>1. up # << >> /\ up' = Tail(up) /\ missed' = missed + 1 /\ Head(up).type = "LOST"
    BY <1>8 DEF HostMisses
  <2>2. up[1].type = "LOST"
    BY <1>1, <2>1, FirstEntry
  <2>3. Losses' <= Losses
    BY <1>1, <2>1, <2>2, LossesLeft
  <2>4. Losses' \in Nat
    <3>1. up' \in Seq(Entry) /\ missed' \in Nat
      BY <1>1, <2>1, Left
    <3>2. Cardinality(LostIn(up')) \in Nat
      BY <3>1, LostFinite
    <3> QED
      BY <3>1, <3>2 DEF Losses, LostIn
  <2> QED
    BY <1>1, <1>2, <2>3, <2>4 DEF LossesInv
<1>9. CASE EdgeConnects \/ EdgeGivesBirth \/ EdgeFails \/ HostRestarts \/ RequestReceived
           \/ RequestDropped \/ EdgeWindowEnds \/ HostWindowEnds \/ UNCHANGED sessionVars
  BY <1>3, <1>9
     DEF EdgeConnects, EdgeGivesBirth, EdgeFails, HostRestarts, RequestReceived, RequestDropped,
         EdgeWindowEnds, HostWindowEnds, sessionVars, network, observers
<1> QED
  BY <1>5, <1>6, <1>7, <1>8, <1>9 DEF SessionNext
-----------------------------------------------------------------------------
(* Sequence numbers. *)

\* The number due before and after each entry of a queue.
Along(q, due) ==
    \A i \in DOMAIN q : InOrder(q[i], due[i - 1]) /\ due[i] = DueAfter(q[i], due[i - 1])

LEMMA NumbersJoined ==
    ASSUME up \in Seq(Entry), NEW e \in Entry, up' = Append(up, e),
           NEW due \in [0 .. Len(up) -> Seqs], Along(up, due),
           InOrder(e, due[Len(up)]), NEW n \in Seqs, n = DueAfter(e, due[Len(up)])
    PROVE  \E next \in [0 .. Len(up') -> Seqs] :
               Along(up', next) /\ next[0] = due[0] /\ next[Len(up')] = n
<1>1. /\ Len(up) \in Nat /\ Len(up') = Len(up) + 1
      /\ DOMAIN up = 1 .. Len(up) /\ DOMAIN up' = 1 .. Len(up) + 1
      /\ up'[Len(up) + 1] = e
      /\ \A i \in 1 .. Len(up) : up'[i] = up[i]
  BY Joined
<1>2. PICK L \in Nat : L = Len(up)
  BY <1>1, Zenon
<1>3. PICK next : next = [i \in 0 .. L + 1 |-> IF i = L + 1 THEN n ELSE due[i]]
  OBVIOUS
<1>4. /\ next \in [0 .. L + 1 -> Seqs] /\ next[L + 1] = n
      /\ \A i \in 0 .. L : next[i] = due[i]
  BY <1>2, <1>3
<1>5. ASSUME NEW i \in 1 .. L + 1
      PROVE  InOrder(up'[i], next[i - 1]) /\ next[i] = DueAfter(up'[i], next[i - 1])
  <2>1. CASE i = L + 1
    <3>1. next[i - 1] = due[L] /\ next[i] = n /\ up'[i] = e
      BY <1>1, <1>2, <1>4, <2>1
    <3> QED
      BY <1>2, <3>1
  <2>2. CASE i \in 1 .. L
    <3>1. next[i - 1] = due[i - 1] /\ next[i] = due[i] /\ up'[i] = up[i] /\ i \in DOMAIN up
      BY <1>1, <1>2, <1>4, <2>2
    <3> QED
      BY <3>1 DEF Along
  <2>3. i = L + 1 \/ i \in 1 .. L
    OBVIOUS
  <2> QED
    BY <2>1, <2>2, <2>3
<1>6. Along(up', next)
  BY <1>1, <1>2, <1>5 DEF Along
<1>7. next[0] = due[0]
  BY <1>2, <1>4
<1> QED
  BY <1>1, <1>2, <1>4, <1>6, <1>7

LEMMA NumbersLeft ==
    ASSUME up \in Seq(Entry), up # << >>, up' = Tail(up),
           NEW due \in [0 .. Len(up) -> Seqs], Along(up, due)
    PROVE  /\ InOrder(up[1], due[0]) /\ due[1] = DueAfter(up[1], due[0])
           /\ due[0] \in Seqs /\ due[1] \in Seqs
           /\ \E next \in [0 .. Len(up') -> Seqs] :
                 Along(up', next) /\ next[0] = due[1] /\ next[Len(up')] = due[Len(up)]
<1>1. /\ 1 \in DOMAIN up /\ Len(up) \in Nat /\ Len(up) >= 1 /\ Len(up') = Len(up) - 1
      /\ DOMAIN up = 1 .. Len(up) /\ DOMAIN up' = 1 .. Len(up) - 1
      /\ \A i \in 1 .. Len(up) - 1 : up'[i] = up[i + 1]
  BY Left
<1>2. PICK L \in Nat : L = Len(up)
  BY <1>1, Zenon
<1>3. PICK next : next = [i \in 0 .. L - 1 |-> due[i + 1]]
  OBVIOUS
<1>4. next \in [0 .. L - 1 -> Seqs] /\ next[L - 1] = due[L] /\ next[0] = due[1]
  BY <1>1, <1>2, <1>3
<1>5. ASSUME NEW i \in 1 .. L - 1
      PROVE  InOrder(up'[i], next[i - 1]) /\ next[i] = DueAfter(up'[i], next[i - 1])
  <2>1. next[i - 1] = due[i] /\ next[i] = due[i + 1] /\ up'[i] = up[i + 1] /\ i + 1 \in DOMAIN up
    BY <1>1, <1>2, <1>3
  <2>2. (i + 1) - 1 = i
    OBVIOUS
  <2>3. InOrder(up[i + 1], due[i]) /\ due[i + 1] = DueAfter(up[i + 1], due[i])
    BY <2>1, <2>2 DEF Along
  <2> QED
    BY <2>1, <2>3
<1>6. Along(up', next)
  BY <1>1, <1>2, <1>5 DEF Along
<1>7. InOrder(up[1], due[0]) /\ due[1] = DueAfter(up[1], due[0])
  <2>1. 1 - 1 = 0
    OBVIOUS
  <2> QED
    BY <1>1, <2>1 DEF Along
<1>8. due[0] \in Seqs /\ due[1] \in Seqs
  BY <1>1
<1> QED
  BY <1>1, <1>2, <1>4, <1>6, <1>7, <1>8

\* What the host expects next agrees with the number due, past what it missed.
Expects(n) ==
    online /\ ~birth_missed => n \in {expected_seq + missed, expected_seq + missed - SeqMod}

LEMMA NumbersFrame ==
    ASSUME NumbersInv, up' = up, \A n : Expects(n) => Expects(n)',
           EdgeCounts' => EdgeCounts /\ seq' = seq
    PROVE  NumbersInv'
<1>1. PICK due \in [0 .. Len(up) -> Seqs] :
          Along(up, due) /\ Expects(due[0]) /\ (EdgeCounts => due[Len(up)] = seq)
  BY DEF NumbersInv, Along, Expects
<1>2. Along(up', due) /\ Expects(due[0])' /\ (EdgeCounts' => due[Len(up')] = seq')
  BY <1>1
<1> QED
  BY <1>2 DEF NumbersInv, Along, Expects

\* The host counts a message with the number it expects, if it misses nothing,
\* leaves one it drops to be missed, or ends the session.
LEMMA HostCounts ==
    ASSUME NEW m \in WellFormed, m.type \in {"NDATA", "DBIRTH", "DDATA", "DDEATH"},
           HandleIncoming(m)
    PROVE  \/ ~online'
           \/ online /\ InSequence(m) /\ Advance /\ online' = online
           \/ UNCHANGED <<online, expected_seq>>
<1>1. CASE m.type = "NDATA" /\ OnNodeData(m)
  BY <1>1 DEF OnNodeData, Invalidate
<1>2. CASE m.type = "DBIRTH" /\ OnDeviceBirth(m)
  BY <1>2 DEF OnDeviceBirth, Invalidate
<1>3. CASE m.type = "DDATA" /\ OnDeviceData(m)
  BY <1>3 DEF OnDeviceData, Invalidate, nodeState
<1>4. CASE m.type = "DDEATH" /\ OnDeviceDeath(m)
  BY <1>4 DEF OnDeviceDeath, Invalidate
<1> QED
  BY <1>1, <1>2, <1>3, <1>4 DEF HandleIncoming

\* A host that has missed fewer messages than there are numbers, and finds the
\* one it expects, has missed none.
LEMMA NothingMissed ==
    ASSUME NEW e \in Seqs, NEW k \in Nat, k < SeqMod, e \in {e + k, e + k - SeqMod}
    PROVE  k = 0
BY SparkplugAssumption DEF Seqs

\* Missing one more moves the number that is due by one.
LEMMA OneMoreMissed ==
    ASSUME NEW e \in Seqs, NEW k \in Nat, k < SeqMod,
           NEW n \in Seqs, n \in {e + k, e + k - SeqMod}
    PROVE  WrapInc(n, SeqMod) \in {e + (k + 1), e + (k + 1) - SeqMod}
<1>1. SeqMod \in Nat \ {0, 1} /\ e < SeqMod /\ n < SeqMod /\ n \in Nat /\ e \in Nat
  BY SparkplugAssumption DEF Seqs
<1> QED
  BY <1>1 DEF WrapInc

LEMMA MissedFew ==
    ASSUME SessionTypeOK, LossesInv
    PROVE  missed \in Nat /\ missed < SeqMod
<1>1. up \in Seq(Entry) /\ missed \in Nat /\ SeqMod \in Nat
  BY SparkplugAssumption DEF SessionTypeOK
<1>2. PICK c \in Nat : c = Cardinality(LostIn(up))
  BY <1>1, LostFinite
<1>3. missed + c < SeqMod
  BY <1>2 DEF LossesInv, Losses, LostIn
<1> QED
  BY <1>1, <1>3

\* The host takes a message from the queue.
LEMMA ReceivedExpects ==
    ASSUME HInv, missed \in Nat, missed < SeqMod, up \in Seq(Entry), HostReceives,
           NEW n \in Seqs, InOrder(up[1], n), Expects(n), NEW k, k = DueAfter(up[1], n)
    PROVE  Expects(k)'
<1>1. PICK m \in WellFormed : m = up[1] /\ HandleIncoming(m) /\ Head(up) = m
  BY FirstEntry DEF HostReceives
<1>2. /\ expected_seq \in Seqs /\ None \notin Seqs /\ SeqMod \in Nat \ {0, 1}
      /\ m.seq \in Seqs \cup {None} /\ m.type \in MessageType
  BY HostConstants, InputType DEF HInv, HostTypeOK, Seqs
<1>3. CASE m.type = "NBIRTH"
  <2>1. missed' = 0 /\ birth_missed' = FALSE
    BY <1>1, <1>3 DEF HostReceives
  <2>2. expected_seq' = AfterBirth(m.seq) /\ AfterBirth(m.seq) \in Seqs
    BY <1>1, <1>2, <1>3, WrapType DEF HandleIncoming, OnNodeBirth
  <2>3. DueAfter(m, n) = AfterBirth(m.seq)
    BY <1>3 DEF DueAfter
  <2>4. k = AfterBirth(m.seq) /\ k = k + 0
    BY <1>1, <1>2, <2>2, <2>3 DEF Seqs
  <2> QED
    BY <2>1, <2>2, <2>4 DEF Expects
<1>4. CASE m.type = "NDEATH"
  <2>1. DueAfter(m, n) = n /\ m.seq = None
    BY <1>1, <1>4 DEF DueAfter, InOrder
  <2>2. ~online' \/ UNCHANGED <<online, expected_seq>>
    BY <1>1, <1>4 DEF HandleIncoming, OnNodeDeath, nodeState
  <2>3. missed' = missed /\ birth_missed' = birth_missed
    BY <1>1, <1>4, <2>1 DEF HostReceives, Uncounted
  <2> QED
    BY <1>1, <2>1, <2>2, <2>3 DEF Expects
<1>5. CASE m.type \in {"NDATA", "DBIRTH", "DDATA", "DDEATH"}
  <2>1. DueAfter(m, n) = WrapInc(n, SeqMod) /\ m.seq = n /\ n # None
    BY <1>1, <1>2, <1>5 DEF DueAfter, InOrder
  <2>2. birth_missed' = birth_missed
    BY <1>1, <1>5 DEF HostReceives
  <2>3. missed' = IF Uncounted(m) THEN missed + 1 ELSE missed
    BY <1>1, <1>5 DEF HostReceives
  <2>4. CASE ~online'
    BY <2>4 DEF Expects
  <2>5. CASE online /\ InSequence(m) /\ Advance /\ online' = online
    <3>1. expected_seq = n /\ expected_seq' = WrapInc(n, SeqMod)
      BY <2>1, <2>5 DEF InSequence, Advance
    <3>2. expected_seq' # expected_seq
      BY <1>2, <3>1, WrapIncMoves DEF Seqs
    <3>3. missed' = missed
      BY <2>3, <3>2 DEF Uncounted
    <3>4. ~birth_missed => missed = 0
      BY <2>5, <3>1, NothingMissed DEF Expects
    <3>5. k = WrapInc(n, SeqMod)
      BY <1>1, <2>1
    <3>6. k \in Seqs /\ k + 0 = k
      BY <1>2, <3>5, SeqIncType DEF Seqs
    <3> QED
      BY <1>1, <2>1, <2>2, <3>1, <3>3, <3>4, <3>5, <3>6 DEF Expects
  <2>6. CASE online' /\ UNCHANGED <<online, expected_seq>>
    <3>1. Uncounted(m)
      BY <2>1, <2>6 DEF Uncounted
    <3>2. missed' = missed + 1
      BY <2>3, <3>1
    <3>3. ASSUME ~birth_missed
          PROVE  WrapInc(n, SeqMod)
                     \in {expected_seq + (missed + 1), expected_seq + (missed + 1) - SeqMod}
      BY <1>2, <2>6, <3>3, OneMoreMissed DEF Expects
    <3> QED
      BY <1>1, <2>1, <2>2, <2>6, <3>2, <3>3 DEF Expects
  <2> QED
    BY <1>1, <1>5, <2>4, <2>5, <2>6, HostCounts
<1> QED
  BY <1>2, <1>3, <1>4, <1>5 DEF MessageType

\* Or it misses what would have been there.
LEMMA MissedExpects ==
    ASSUME HInv, missed \in Nat, missed < SeqMod, up \in Seq(Entry), HostMisses,
           NEW n \in Seqs, Expects(n), NEW k, k = DueAfter(up[1], n)
    PROVE  Expects(k)'
<1>1. up[1] \in Entry /\ up[1].type = "LOST" /\ up[1].node_birth \in BOOLEAN
  BY FirstEntry, EntryTypes DEF HostMisses
<1>2. /\ missed' = missed + 1 /\ UNCHANGED <<online, expected_seq>>
      /\ birth_missed' = (birth_missed \/ up[1].node_birth)
  BY FirstEntry DEF HostMisses, HostIdle, nodeState
<1>3. expected_seq \in Seqs
  BY DEF HInv, HostTypeOK
<1>4. CASE up[1].node_birth
  BY <1>2, <1>4 DEF Expects
<1>5. CASE ~up[1].node_birth
  <2>1. DueAfter(up[1], n) = WrapInc(n, SeqMod)
    BY <1>1, <1>5 DEF DueAfter
  <2>2. ASSUME online, ~birth_missed
        PROVE  WrapInc(n, SeqMod)
                   \in {expected_seq + (missed + 1), expected_seq + (missed + 1) - SeqMod}
    BY <1>3, <2>2, OneMoreMissed DEF Expects
  <2>4. online' /\ ~birth_missed' => k \in {expected_seq' + missed', expected_seq' + missed' - SeqMod}
    BY <1>2, <2>1, <2>2
  <2> QED
    BY <2>4 DEF Expects
<1> QED
  BY <1>4, <1>5

LEMMA NumbersStep ==
    ASSUME ~ReconnectWhileOpen, \A c \in Configs : ~c.gated,
           SessionTypeOK, RegistriesInv, SessionInv, AnnouncedInv, StartsAtZero, LossesInv,
           NumbersInv, [SessionNext]_sessionVars
    PROVE  NumbersInv'
<1>1. /\ TypeOK /\ HInv /\ up \in Seq(Entry) /\ late_wills \subseteq BdSeqs
      /\ missed \in Nat /\ missed < SeqMod
  BY MissedFew DEF SessionTypeOK, HInv
<1>2. PICK due \in [0 .. Len(up) -> Seqs] :
          Along(up, due) /\ Expects(due[0]) /\ (EdgeCounts => due[Len(up)] = seq)
  BY DEF NumbersInv, Along, Expects
<1>3. ASSUME HostIdle, missed' = missed, birth_missed' = birth_missed, NEW n, Expects(n)
      PROVE  Expects(n)'
  BY <1>3 DEF HostIdle, nodeState, Expects
<1>4. ASSUME NEW e \in Entry, up' = Append(up, e), HostIdle, missed' = missed,
             birth_missed' = birth_missed,
             NEW n \in Seqs, InOrder(e, due[Len(up)]), n = DueAfter(e, due[Len(up)]),
             EdgeCounts' => n = seq'
      PROVE  NumbersInv'
  <2>1. PICK next \in [0 .. Len(up') -> Seqs] :
            Along(up', next) /\ next[0] = due[0] /\ next[Len(up')] = n
    BY <1>1, <1>2, <1>4, NumbersJoined
  <2>2. Expects(next[0])'
    BY <1>2, <1>3, <1>4, <2>1
  <2> QED
    BY <1>4, <2>1, <2>2 DEF NumbersInv, Along, Expects
<1>5. due[Len(up)] \in Seqs
  <2>1. Len(up) \in Nat
    BY <1>1
  <2> QED
    BY <2>1
<1>6. ASSUME NEW b \in BdSeqs, up' = Append(up, NodeDeath(b)), HostIdle, missed' = missed,
             birth_missed' = birth_missed, EdgeCounts' => EdgeCounts /\ seq' = seq
      PROVE  NumbersInv'
  <2>1. PICK e \in Entry : e = NodeDeath(b) /\ e.type = "NDEATH" /\ e.seq = None
    BY EntryTypes
  <2>2. InOrder(e, due[Len(up)]) /\ due[Len(up)] = DueAfter(e, due[Len(up)])
    BY <2>1 DEF InOrder, DueAfter
  <2> QED
    BY <1>2, <1>4, <1>5, <1>6, <2>1, <2>2
<1>7. CASE PublishSequenced
  <2>1. /\ UNCHANGED <<missed, birth_missed, session>> /\ HostIdle /\ seq' \in Seqs
    BY <1>1, <1>7, SequencedSent, SeqIncType DEF PublishSequenced, TypeOK
  <2>2. CASE up' = up /\ ~session.open
    <3>1. ~EdgeCounts'
      BY <2>1, <2>2 DEF EdgeCounts
    <3> QED
      BY <1>3, <2>1, <2>2, <3>1, NumbersFrame
  <2>3. ASSUME NEW e \in Entry, up' = Append(up, e),
               \A n \in Seqs :
                   (EdgeCounts => n = seq) => InOrder(e, n) /\ DueAfter(e, n) = seq'
        PROVE  NumbersInv'
    <3>1. InOrder(e, due[Len(up)]) /\ DueAfter(e, due[Len(up)]) = seq'
      BY <1>2, <1>5, <2>3
    <3> QED
      BY <1>4, <2>1, <2>3, <3>1
  <2> QED
    BY <1>7, <2>2, <2>3, SequencedQueued
<1>8. CASE PublishDeath
  <2>1. UNCHANGED <<missed, birth_missed>> /\ HostIdle /\ ~EdgeCounts' /\ bd_seq \in BdSeqs
    BY <1>1, <1>8, DeathSent DEF PublishDeath, TypeOK
  <2> QED
    BY <1>3, <1>6, <1>8, <2>1, DeathQueued, NumbersFrame
<1>9. CASE PublishWill
  <2>1. UNCHANGED <<missed, birth_missed, seq>> /\ HostIdle /\ (EdgeCounts' => EdgeCounts)
    BY <1>9 DEF PublishWill, EdgeIdle, EdgeCounts, fields
  <2>2. up' = up \/ \E b \in BdSeqs : up' = Append(up, NodeDeath(b))
    BY <1>1, <1>9 DEF PublishWill, Enqueue
  <2> QED
    BY <1>3, <1>6, <2>1, <2>2, NumbersFrame
<1>10. CASE EdgeConnects \/ EdgeGivesBirth \/ EdgeFails \/ RequestReceived
  <2>1. UNCHANGED <<missed, birth_missed, up>> /\ HostIdle
    BY <1>10 DEF EdgeConnects, EdgeGivesBirth, EdgeFails, RequestReceived, network, observers
  <2>2. ~EdgeCounts'
    <3>1. CASE EdgeConnects
      BY <1>1, <3>1, Connects DEF EdgeConnects
    <3>2. CASE EdgeGivesBirth \/ RequestReceived
      BY <3>2, BirthsStart DEF EdgeGivesBirth, RequestReceived
    <3>3. CASE EdgeFails
      BY <1>1, <3>3, ConnectionEnds DEF EdgeFails, EdgeCounts
    <3> QED
      BY <1>10, <3>1, <3>2, <3>3
  <2> QED
    BY <1>3, <2>1, <2>2, NumbersFrame
<1>11. CASE HostReceives \/ HostMisses
  <2>1. up # << >> /\ up' = Tail(up) /\ UNCHANGED seq /\ (EdgeCounts' => EdgeCounts)
    BY <1>11 DEF HostReceives, HostMisses, EdgeIdle, EdgeCounts, fields
  <2>2. /\ InOrder(up[1], due[0]) /\ due[1] = DueAfter(up[1], due[0]) /\ due[0] \in Seqs
        /\ \E next \in [0 .. Len(up') -> Seqs] :
              Along(up', next) /\ next[0] = due[1] /\ next[Len(up')] = due[Len(up)]
    BY <1>1, <1>2, <2>1, NumbersLeft
  <2>3. Expects(due[1])'
    BY <1>1, <1>2, <1>11, <2>2, ReceivedExpects, MissedExpects
  <2> QED
    BY <1>2, <2>1, <2>2, <2>3 DEF NumbersInv, Along, Expects
<1>12. CASE HostRestarts
  <2>1. UNCHANGED <<up, seq>> /\ ~online' /\ (EdgeCounts' => EdgeCounts)
    BY <1>12 DEF HostRestarts, Restart, EdgeIdle, EdgeCounts, fields, network
  <2> QED
    BY <2>1, NumbersFrame DEF Expects
<1>13. CASE RequestDropped \/ EdgeWindowEnds \/ HostWindowEnds \/ UNCHANGED sessionVars
  <2>1. UNCHANGED <<up, seq, online, expected_seq, missed, birth_missed>> /\ (EdgeCounts' => EdgeCounts)
    BY <1>13 DEF RequestDropped, EdgeWindowEnds, HostWindowEnds, SlotFreed, HostIdle, EdgeIdle,
                 DebounceElapses, EdgeCounts, fields, nodeState, network, observers,
                 sessionVars, vars, hostVars
  <2> QED
    BY <2>1, NumbersFrame DEF Expects
<1> QED
  BY <1>7, <1>8, <1>9, <1>10, <1>11, <1>12, <1>13 DEF SessionNext
-----------------------------------------------------------------------------
(* The invariant, and what follows from it. *)

SInv ==
    /\ SessionTypeOK /\ RegistriesInv /\ SessionInv /\ AnnouncedInv
    /\ StartsAtZero /\ DInv /\ LossesInv /\ NumbersInv

LEMMA SInvInit == SessionInit => SInv
<1> SUFFICES ASSUME SessionInit
             PROVE  SInv
  OBVIOUS
<1>1. TypeOK /\ SessionInv /\ AnnouncedInv /\ StartsAtZero /\ ~session.open /\ ~online
  BY InitTypeOK DEF SessionInit, Init, NoSession, SessionInv, AnnouncedInv, StartsAtZero, HostInit
<1>2. HostTypeOK /\ RegistriesInv
  BY HostInitInv DEF SessionInit, HInv
<1>3. up = << >> /\ up \in Seq(Entry) /\ DOMAIN up = {} /\ Len(up) = 0 /\ missed = 0
  BY DEF SessionInit
<1>4. SessionTypeOK
  <2>1. {birth_missed, trouble} \subseteq BOOLEAN
    BY DEF SessionInit
  <2>2. {requests, connects, missed} \subseteq Nat /\ late_wills \cup parted \subseteq BdSeqs
    BY DEF SessionInit
  <2> QED
    BY <1>1, <1>2, <1>3, <2>1, <2>2 DEF SessionTypeOK
<1>5. DInv
  <2>1. DeathsInFlight = {} /\ late_wills = {} /\ connects = 0
    BY <1>3 DEF SessionInit, DeathsInFlight
  <2> QED
    BY <1>1, <2>1, SessionAssumption DEF DInv, TakenInv, DeathInv
<1>6. LossesInv
  <2>1. {i \in DOMAIN up : up[i].type = "LOST"} = {}
    BY <1>3
  <2> QED
    BY <1>3, <2>1, FS_EmptySet, SparkplugAssumption DEF LossesInv, Losses
<1>7. NumbersInv
  <2>1. [i \in 0 .. Len(up) |-> 0] \in [0 .. Len(up) -> Seqs]
    BY ZeroType
  <2> QED
    BY <1>1, <1>3, <2>1 DEF NumbersInv, EdgeCounts
<1> QED
  BY <1>1, <1>2, <1>4, <1>5, <1>6, <1>7 DEF SInv

LEMMA SInvStep ==
    ASSUME ~ReconnectWhileOpen, \A c \in Configs : ~c.gated, SInv, [SessionNext]_sessionVars
    PROVE  SInv'
<1>1. /\ SessionTypeOK /\ RegistriesInv /\ SessionInv /\ AnnouncedInv /\ StartsAtZero
      /\ DInv /\ LossesInv /\ NumbersInv
  BY DEF SInv
<1>2. SessionTypeOK' /\ RegistriesInv' /\ SessionInv' /\ AnnouncedInv'
  BY <1>1, SessionTypeStep
<1>3. StartsAtZero' /\ DInv' /\ LossesInv' /\ NumbersInv'
  BY <1>1, StartsAtZeroStep, DInvStep, LossesStep, NumbersStep
<1> QED
  BY <1>2, <1>3 DEF SInv

LEMMA SInvariant ==
    ASSUME ~ReconnectWhileOpen, \A c \in Configs : ~c.gated
    PROVE  SessionSpec => []SInv
BY SInvInit, SInvStep, PTL DEF SessionSpec

\* Both engines, the queue between them and the counters of the session stay
\* well typed: what the edge hands to the broker is what the host is given.
THEOREM SessionTypeCorrect ==
    ASSUME ~ReconnectWhileOpen, \A c \in Configs : ~c.gated
    PROVE  SessionSpec => []SessionTypeOK
<1>1. SInv => SessionTypeOK
  BY DEF SInv
<1> QED
  BY <1>1, SInvariant, PTL

\* What the host's part of a step tells the application.
LEMMA HostTells ==
    ASSUME [SessionNext]_sessionVars, event'.kind \notin {"Ignored", "Error", "RebirthRequested"}
    PROVE  HostReceives \/ UNCHANGED sessionVars
<1>1. \A kind : Nothing(kind).kind = kind
  BY DEF Nothing
<1>2. ~HostIdle /\ ~Restart /\ ~SlotFreed
  BY <1>1 DEF HostIdle, Restart, SlotFreed
<1> QED
  BY <1>2 DEF SessionNext, PublishSequenced, PublishDeath, EdgeConnects, EdgeGivesBirth, EdgeFails,
              PublishWill, HostMisses, HostRestarts, RequestReceived, RequestDropped,
              EdgeWindowEnds, HostWindowEnds

\* Only a message the host counts is shown to the application.
LEMMA ShownCounts ==
    ASSUME NEW m \in WellFormed, HandleIncoming(m),
           event'.kind \in {"NodeData", "DeviceBirth", "DeviceData", "DeviceDeath"}
    PROVE  /\ m.type \in {"NDATA", "DBIRTH", "DDATA", "DDEATH"}
           /\ online /\ InSequence(m) /\ Advance
<1>1. \A kind : Nothing(kind).kind = kind
  BY DEF Nothing
<1>2. ~RequestRebirth
  BY <1>1 DEF RequestRebirth
<1>3. ~OnNodeBirth(m)
  <2>1. [Nothing("NodeBirth") EXCEPT !.bdSeq = m.bdSeq, !.metrics = m.metrics].kind = "NodeBirth"
    BY DEF Nothing
  <2> QED
    BY <1>2, <2>1 DEF OnNodeBirth, Report
<1>4. ~OnNodeDeath(m)
  <2>1. [Nothing("NodeDeath") EXCEPT !.bdSeq = m.bdSeq, !.devices = OnlineDevices].kind
            = "NodeDeath"
    BY DEF Nothing
  <2> QED
    BY <1>1, <2>1 DEF OnNodeDeath, Report
<1> QED
  BY <1>2, <1>3, <1>4
     DEF HandleIncoming, Invalidate, OnNodeData, OnDeviceBirth, OnDeviceData, OnDeviceDeath

LEMMA DeathShown ==
    ASSUME NEW m \in WellFormed, HandleIncoming(m), event'.kind = "NodeDeath"
    PROVE  m.type = "NDEATH" /\ node_bd_seq = m.bdSeq /\ node_bd_seq' = node_bd_seq
<1>1. \A kind : Nothing(kind).kind = kind
  BY DEF Nothing
<1>2. ~RequestRebirth
  BY <1>1 DEF RequestRebirth
<1>4. ~OnNodeBirth(m)
  <2>1. [Nothing("NodeBirth") EXCEPT !.bdSeq = m.bdSeq, !.metrics = m.metrics].kind = "NodeBirth"
    BY DEF Nothing
  <2> QED
    BY <1>2, <2>1 DEF OnNodeBirth, Report
<1>6. ~OnNodeData(m)
  <2>1. [Nothing("NodeData") EXCEPT !.metrics = Resolved(node_aliases, m.metrics)].kind = "NodeData"
    BY DEF Nothing
  <2> QED
    BY <1>2, <2>1 DEF OnNodeData, Report, Invalidate
<1>7. ~OnDeviceBirth(m)
  <2>1. [Nothing("DeviceBirth") EXCEPT !.device = m.device, !.metrics = m.metrics].kind
            = "DeviceBirth"
    BY DEF Nothing
  <2> QED
    BY <1>2, <2>1 DEF OnDeviceBirth, Report, Invalidate
<1>8. ~OnDeviceData(m)
  <2>1. [Nothing("DeviceData") EXCEPT !.device = m.device,
            !.metrics = Resolved(devices[m.device].aliases, m.metrics)].kind = "DeviceData"
    BY DEF Nothing
  <2> QED
    BY <1>2, <2>1 DEF OnDeviceData, Report, Invalidate
<1>9. ~OnDeviceDeath(m)
  <2>1. [Nothing("DeviceDeath") EXCEPT !.device = m.device].kind = "DeviceDeath"
    BY DEF Nothing
  <2> QED
    BY <1>2, <2>1 DEF OnDeviceDeath, Report, Invalidate
<1>5. m.type = "NDEATH" /\ OnNodeDeath(m)
  BY <1>4, <1>6, <1>7, <1>8, <1>9 DEF HandleIncoming
<1> QED
  BY <1>1, <1>5 DEF OnNodeDeath, Report, MatchesBirth

\* The host declares a node dead only when the connection of the birth it holds
\* is over or the engine has said goodbye on it, for every bound of the session:
\* crashes, reconnects, failed connects and wills that come late never make it
\* end the session of the connection that replaced theirs (on_node_death,
\* EdgeNode::connect).
THEOREM DeathIsTrueHolds ==
    ASSUME ~ReconnectWhileOpen, \A c \in Configs : ~c.gated
    PROVE  SessionSpec => []DeathIsTrue
<1>1. SessionInit => DeathIsTrue
  BY DEF SessionInit, HostInit, Nothing, DeathIsTrue
<1>2. SInv /\ DeathIsTrue /\ [SessionNext]_sessionVars => DeathIsTrue'
  <2> SUFFICES ASSUME SInv, DeathIsTrue, [SessionNext]_sessionVars, event'.kind = "NodeDeath"
               PROVE  node_bd_seq' \in parted' \/ ~(session'.open /\ session'.will = node_bd_seq')
    BY DEF DeathIsTrue
  <2>1. CASE UNCHANGED sessionVars
    BY <2>1 DEF DeathIsTrue, sessionVars, vars, hostVars, observers
  <2>2. CASE HostReceives
    <3>1. UNCHANGED <<session, parted>> /\ up \in Seq(Entry) /\ up # << >> /\ DeathInv
      BY <2>2 DEF HostReceives, EdgeIdle, SInv, SessionTypeOK, DInv
    <3>2. PICK m \in WellFormed : m = up[1] /\ HandleIncoming(m)
      BY <2>2, <3>1, FirstEntry DEF HostReceives
    <3>3. m.type = "NDEATH" /\ node_bd_seq = m.bdSeq /\ node_bd_seq' = node_bd_seq
      BY <3>2, DeathShown
    <3>4. 1 \in DOMAIN up
      BY <3>1, EmptySeq
    <3>5. node_bd_seq \in DeathsInFlight
      BY <3>2, <3>3, <3>4 DEF DeathsInFlight
    <3> QED
      BY <3>1, <3>3, <3>5 DEF DeathInv
  <2> QED
    BY <2>1, <2>2, HostTells
<1> QED
  BY <1>1, <1>2, SInvariant, PTL DEF SessionSpec

\* What the host shows of a node after its birth follows without a gap on what
\* it has shown before, whatever numbers wrap, publishes fail and births begin
\* anew, as long as fewer messages are missed than there are sequence numbers
\* (expected_seq against Seq, on_node_data and the others).
THEOREM GapDetectedHolds ==
    ASSUME ~ReconnectWhileOpen, \A c \in Configs : ~c.gated
    PROVE  SessionSpec => []GapDetected
<1>1. SessionInit => GapDetected
  BY DEF SessionInit, HostInit, Nothing, GapDetected
<1>2. SInv /\ GapDetected /\ [SessionNext]_sessionVars => GapDetected'
  <2> SUFFICES ASSUME SInv, GapDetected, [SessionNext]_sessionVars,
                      event'.kind \in {"NodeData", "DeviceBirth", "DeviceData", "DeviceDeath"}
               PROVE  missed' = 0 \/ birth_missed'
    BY DEF GapDetected
  <2>1. CASE UNCHANGED sessionVars
    BY <2>1 DEF GapDetected, sessionVars, hostVars, observers
  <2>2. CASE HostReceives
    <3>1. up \in Seq(Entry) /\ up # << >> /\ expected_seq \in Seqs
      BY <2>2 DEF HostReceives, SInv, SessionTypeOK, HostTypeOK
    <3>2. PICK m \in WellFormed : m = up[1] /\ HandleIncoming(m) /\ Head(up) = m
      BY <2>2, <3>1, FirstEntry DEF HostReceives
    <3>3. /\ m.type \in {"NDATA", "DBIRTH", "DDATA", "DDEATH"}
          /\ online /\ InSequence(m) /\ Advance
      BY <3>2, ShownCounts
    <3>4. missed \in Nat /\ missed < SeqMod
      BY MissedFew DEF SInv
    <3>5. PICK due \in [0 .. Len(up) -> Seqs] : Along(up, due) /\ Expects(due[0])
      BY DEF SInv, NumbersInv, Along, Expects
    <3>6. InOrder(up[1], due[0])
      BY <2>2, <3>1, <3>5, NumbersLeft DEF HostReceives
    <3>7. due[0] = expected_seq
      BY <3>2, <3>3, <3>6 DEF InOrder, InSequence
    <3>8. missed = 0 \/ birth_missed
      BY <3>1, <3>3, <3>4, <3>5, <3>7, NothingMissed DEF Expects
    <3>9. missed' = missed /\ birth_missed' = birth_missed
      <4>1. expected_seq' # expected_seq
        BY <3>1, <3>3, WrapIncMoves, SparkplugAssumption DEF Advance, Seqs
      <4> QED
        BY <2>2, <3>2, <3>3, <4>1 DEF HostReceives, Uncounted
    <3> QED
      BY <3>8, <3>9
  <2> QED
    BY <2>1, <2>2, HostTells
<1> QED
  BY <1>1, <1>2, SInvariant, PTL DEF SessionSpec
-----------------------------------------------------------------------------
(* Reasons for a rebirth: there are none while nothing is lost.            *)
(*                                                                         *)
(* Along the queue each message finds the host as the one before it left   *)
(* it, and the last of them leaves it with what the edge has published.    *)

\* The host's state for the node, as far as the messages to come depend on it.
HeldRegistries == [s \in Scopes |-> IF s = None THEN node_aliases ELSE devices[s].aliases]

Held ==
    [online |-> online, bd |-> node_bd_seq, next |-> expected_seq, alive |-> OnlineDevices,
     known |-> HeldRegistries]

\* The host h takes message m for granted: no rebirth is due.
Accepts(h, m) ==
    CASE m.type = "NBIRTH" -> ~DuplicateAlias(m.metrics)
      [] m.type = "NDEATH" -> m.bdSeq # None
      [] m.type = "NDATA" ->
            h.online /\ m.seq = h.next /\ Decodes(h.known[None], m.metrics)
      [] m.type = "DBIRTH" -> h.online /\ m.seq = h.next /\ ~DuplicateAlias(m.metrics)
      [] m.type = "DDATA" ->
            h.online /\ m.seq = h.next /\ m.device \in h.alive /\ Decodes(h.known[m.device], m.metrics)
      [] m.type = "DDEATH" -> h.online /\ m.seq = h.next
      [] OTHER -> FALSE

\* And goes on from there.
After(h, m) ==
    CASE m.type = "NBIRTH" ->
            [online |-> TRUE, bd |-> m.bdSeq, next |-> AfterBirth(m.seq), alive |-> {},
             known |-> [s \in Scopes |-> IF s = None THEN Bound(m.metrics) ELSE EmptyRegistry]]
      [] m.type = "NDEATH" ->
            IF h.online /\ h.bd = m.bdSeq
            THEN [online |-> FALSE, bd |-> h.bd, next |-> h.next, alive |-> {}, known |-> h.known]
            ELSE h
      [] m.type = "DBIRTH" ->
            [online |-> h.online, bd |-> h.bd, next |-> WrapInc(h.next, SeqMod),
             alive |-> h.alive \cup {m.device},
             known |-> [s \in Scopes |-> IF s = m.device THEN Bound(m.metrics) ELSE h.known[s]]]
      [] OTHER ->
            [online |-> h.online, bd |-> h.bd, next |-> WrapInc(h.next, SeqMod),
             alive |-> IF m.type = "DDEATH" THEN h.alive \ {m.device} ELSE h.alive,
             known |-> h.known]

NodeBorn == session.open /\ announced[None] # None

\* Host h holds what the edge has published on this connection, and a node whose
\* connection is over only as long as its will is to come.
EdgeHolds(h) ==
    /\ NodeBorn =>
          /\ h.online /\ h.bd = session.will
          /\ h.alive = {d \in Devices : announced[d] # None}
          /\ \A s \in Scopes : announced[s] # None => h.known[s] = Bound(announced[s])
          /\ EdgeCounts => h.next = seq
    /\ h.online => NodeBorn \/ h.bd \in late_wills

\* From what the host holds, message by message, to what the edge holds.
Seen(q, trace) ==
    \A i \in DOMAIN q : Accepts(trace[i - 1], q[i]) /\ trace[i] = After(trace[i - 1], q[i])

ViewInv ==
    ~trouble =>
        \E trace : Seen(up, trace) /\ trace[0] = Held /\ EdgeHolds(trace[Len(up)])

\* The aliases that a birth counts are all its own.
LEMMA AliasedApart ==
    ASSUME NEW names \in Seq(Names), NEW first \in Nat
    PROVE  ~DuplicateAlias(Aliased(names, first))
<1>1. PICK metrics : metrics = Aliased(names, first)
  OBVIOUS
<1>2. /\ DOMAIN metrics = DOMAIN names /\ DOMAIN names \subseteq Nat
      /\ \A i \in DOMAIN names :
            /\ metrics[i].name = names[i] /\ names[i] # None
            /\ metrics[i].alias = IF config.use_aliases THEN first + i - 1 ELSE None
  BY <1>1, HostConstants DEF Aliased
<1>3. ASSUME NEW j \in DOMAIN metrics, IsDuplicate(metrics, metrics[j])
      PROVE  FALSE
  <2>1. PICK a : a = metrics[j].alias
    OBVIOUS
  <2>2. a # None /\ Owner(metrics, a) # metrics[j].name
    BY <1>3, <2>1 DEF IsDuplicate
  <2>3. config.use_aliases /\ a = first + j - 1
    BY <1>2, <2>1, <2>2
  <2>4. j \in Nat /\ \A i \in DOMAIN metrics : i \in Nat /\ metrics[i].alias = first + i - 1
    BY <1>2, <2>3
  <2>5. \A i \in DOMAIN metrics : metrics[i].alias = a => i = j
    <3>1. ASSUME NEW i \in DOMAIN metrics, metrics[i].alias = a
          PROVE  i = j
      <4>1. i \in Nat /\ j \in Nat /\ first + i - 1 = first + j - 1
        BY <2>3, <2>4, <3>1
      <4> QED
        BY <4>1
    <3> QED
      BY <3>1
  <2>6. Claims(metrics, a, j)
    BY <1>2, <2>1, <2>4, <2>5 DEF Claims
  <2>7. \A i : i \in DOMAIN metrics /\ Claims(metrics, a, i) => i = j
    BY <2>5 DEF Claims
  <2>8. (CHOOSE i \in DOMAIN metrics : Claims(metrics, a, i)) = j
    BY <2>6, <2>7
  <2> QED
    BY <2>2, <2>6, <2>8 DEF Owner
<1> QED
  BY <1>1, <1>3 DEF DuplicateAlias

\* What leads back to a metric of a birth is known to who has heard the birth.
LEMMA ResolvedKnown ==
    ASSUME TypeOK, Nat \subseteq Aliases, NEW n \in Names, NEW metrics \in Seq(Metric),
           Resolves(DataMetric(n), metrics), ~DuplicateAlias(metrics)
    PROVE  Decodes(Bound(metrics), <<DataMetric(n)>>)
<1>1. PICK k : k = DataMetric(n)
  OBVIOUS
<1>2. /\ n # None /\ aliases[n] \in Nat \cup {None}
      /\ k.value = n
      /\ \/ k.name = n /\ k.alias = None
         \/ k.name = None /\ k.alias \in Nat
  BY <1>1, HostConstants DEF DataMetric, TypeOK
<1>3. PICK j \in DOMAIN metrics :
          metrics[j].name = n /\ (k.name = n \/ k.alias = metrics[j].alias)
  BY <1>1, <1>2 DEF Resolves
<1>4. ~IsDuplicate(metrics, metrics[j])
  BY <1>3 DEF DuplicateAlias
<1>5. CASE k.name = n
  <2>1. n \in Bound(metrics).names
    BY <1>3, <1>4 DEF Bound
  <2> QED
    BY <1>1, <1>2, <1>5, <2>1 DEF HasType, NameOf, Known, Decodes
<1>6. CASE k.name = None /\ k.alias \in Nat
  <2>1. metrics[j].alias = k.alias /\ k.alias # None
    BY <1>2, <1>3, <1>6, HostConstants
  <2>2. Owner(metrics, k.alias) = n
    BY <1>2, <1>3, <1>4, <2>1 DEF IsDuplicate
  <2>3. k.alias \in Aliases /\ Bound(metrics).name_of[k.alias] = n
    BY <1>6, <2>2 DEF Bound
  <2> QED
    BY <1>1, <1>2, <1>6, <2>3 DEF HasType, NameOf, Known, Decodes
<1> QED
  BY <1>2, <1>5, <1>6

\* An entry joins the queue behind what the host will then hold ...
LEMMA SeenJoined ==
    ASSUME up \in Seq(Entry), NEW e \in Entry, up' = Append(up, e),
           NEW trace, Seen(up, trace), NEW h, h = trace[Len(up)], Accepts(h, e)
    PROVE  \E next : Seen(up', next) /\ next[0] = trace[0] /\ next[Len(up')] = After(h, e)
<1>1. /\ Len(up) \in Nat /\ Len(up') = Len(up) + 1
      /\ DOMAIN up = 1 .. Len(up) /\ DOMAIN up' = 1 .. Len(up) + 1
      /\ up'[Len(up) + 1] = e
      /\ \A i \in 1 .. Len(up) : up'[i] = up[i]
  BY Joined
<1>2. PICK L \in Nat : L = Len(up)
  BY <1>1, Zenon
<1>3. PICK next : next = [i \in 0 .. L + 1 |-> IF i = L + 1 THEN After(h, e) ELSE trace[i]]
  OBVIOUS
<1>4. next[L + 1] = After(h, e) /\ \A i \in 0 .. L : next[i] = trace[i]
  BY <1>2, <1>3
<1>5. ASSUME NEW i \in 1 .. L + 1
      PROVE  Accepts(next[i - 1], up'[i]) /\ next[i] = After(next[i - 1], up'[i])
  <2>1. CASE i = L + 1
    <3>1. next[i - 1] = h /\ next[i] = After(h, e) /\ up'[i] = e
      BY <1>1, <1>2, <1>4, <2>1
    <3> QED
      BY <3>1
  <2>2. CASE i \in 1 .. L
    <3>1. next[i - 1] = trace[i - 1] /\ next[i] = trace[i] /\ up'[i] = up[i] /\ i \in DOMAIN up
      BY <1>1, <1>2, <1>4, <2>2
    <3> QED
      BY <3>1 DEF Seen
  <2>3. i = L + 1 \/ i \in 1 .. L
    OBVIOUS
  <2> QED
    BY <2>1, <2>2, <2>3
<1>6. Seen(up', next)
  BY <1>1, <1>2, <1>5 DEF Seen
<1>7. next[0] = trace[0]
  BY <1>2, <1>4
<1> QED
  BY <1>1, <1>2, <1>4, <1>6, <1>7

\* ... and leaves it once the host has heard it.
LEMMA SeenLeft ==
    ASSUME up \in Seq(Entry), up # << >>, up' = Tail(up), NEW trace, Seen(up, trace)
    PROVE  /\ Accepts(trace[0], up[1]) /\ trace[1] = After(trace[0], up[1])
           /\ \E next :
                 Seen(up', next) /\ next[0] = trace[1] /\ next[Len(up')] = trace[Len(up)]
<1>1. /\ 1 \in DOMAIN up /\ Len(up) \in Nat /\ Len(up) >= 1 /\ Len(up') = Len(up) - 1
      /\ DOMAIN up = 1 .. Len(up) /\ DOMAIN up' = 1 .. Len(up) - 1
      /\ \A i \in 1 .. Len(up) - 1 : up'[i] = up[i + 1]
  BY Left
<1>2. PICK L \in Nat : L = Len(up)
  BY <1>1, Zenon
<1>3. PICK next : next = [i \in 0 .. L - 1 |-> trace[i + 1]]
  OBVIOUS
<1>4. next[L - 1] = trace[L] /\ next[0] = trace[1]
  BY <1>1, <1>2, <1>3
<1>5. ASSUME NEW i \in 1 .. L - 1
      PROVE  Accepts(next[i - 1], up'[i]) /\ next[i] = After(next[i - 1], up'[i])
  <2>1. /\ next[i - 1] = trace[i] /\ next[i] = trace[i + 1]
        /\ up'[i] = up[i + 1] /\ i + 1 \in DOMAIN up /\ (i + 1) - 1 = i
    BY <1>1, <1>2, <1>3
  <2>2. Accepts(trace[i], up[i + 1]) /\ trace[i + 1] = After(trace[i], up[i + 1])
    BY <2>1 DEF Seen
  <2> QED
    BY <2>1, <2>2
<1>6. Seen(up', next)
  BY <1>1, <1>2, <1>5 DEF Seen
<1>7. Accepts(trace[0], up[1]) /\ trace[1] = After(trace[0], up[1])
  <2>1. 1 - 1 = 0
    OBVIOUS
  <2> QED
    BY <1>1, <2>1 DEF Seen
<1> QED
  BY <1>1, <1>2, <1>4, <1>6, <1>7

\* What the host holds, one field at a time.
LEMMA HeldIs ==
    ASSUME NEW h, Held' = h
    PROVE  /\ h.online = online' /\ h.bd = node_bd_seq' /\ h.next = expected_seq'
           /\ h.alive = OnlineDevices'
BY DEF Held

\* No answer of the host to a message it reports is a rebirth request.
LEMMA Reported ==
    ASSUME NEW e, Report(e), e.kind # "Error"
    PROVE  ncmd' = FALSE /\ event'.kind # "Error"
BY DEF Report

LEMMA HeldFields ==
    /\ Held.online = online /\ Held.bd = node_bd_seq /\ Held.next = expected_seq
    /\ Held.alive = OnlineDevices
    /\ Held.known = HeldRegistries
BY DEF Held

\* The registry of each scope, once the devices' are known.
LEMMA HeldRegistriesNext ==
    ASSUME NEW k, k = [s \in Scopes |-> k[s]], k[None] = node_aliases',
           \A d \in Devices : k[d] = devices'[d].aliases
    PROVE  HeldRegistries' = k
<1>1. None \in Scopes /\ None \notin Devices /\ Devices \subseteq Scopes
  BY HostConstants DEF Scopes
<1>2. \A s \in Scopes : s # None => s \in Devices
  BY DEF Scopes
<1>3. \A s \in Scopes : k[s] = IF s = None THEN node_aliases' ELSE devices'[s].aliases
  BY <1>1, <1>2
<1>4. HeldRegistries' = [s \in Scopes |-> IF s = None THEN node_aliases' ELSE devices'[s].aliases]
  BY DEF HeldRegistries
<1> QED
  BY <1>3, <1>4

LEMMA HeldRegistriesAre ==
    /\ HeldRegistries = [s \in Scopes |-> HeldRegistries[s]]
    /\ HeldRegistries[None] = node_aliases
    /\ \A d \in Devices : HeldRegistries[d] = devices[d].aliases
BY HostConstants DEF HeldRegistries, Scopes

\* A message that the host takes for granted brings no rebirth, and leaves it as
\* it should.
LEMMA HostTakes ==
    ASSUME HInv, NEW m \in WellFormed, HandleIncoming(m), Accepts(Held, m),
           NEW h, h = After(Held, m)
    PROVE  Held' = h /\ ncmd' = FALSE /\ event'.kind # "Error"
<1>1. /\ m.type \in MessageType /\ m.device \in Scopes
      /\ m.type \in {"DBIRTH", "DDATA", "DDEATH"} => m.device \in Devices
      /\ None \notin Devices /\ None \in Scopes /\ Devices \subseteq Scopes
  BY InputType, HostConstants DEF Scopes
<1>2. /\ devices \in [Devices -> [online : BOOLEAN, aliases : Registry]]
      /\ OnlineDevices = {d \in Devices : devices[d].online} /\ online \in BOOLEAN
  BY DEF HInv, HostTypeOK, OnlineDevices
<1>3. CASE m.type = "NBIRTH"
  <2>1. ~DuplicateAlias(m.metrics) /\ OnNodeBirth(m)
    BY <1>3 DEF Accepts, HandleIncoming
  <2>2. /\ online' = TRUE /\ node_bd_seq' = m.bdSeq /\ expected_seq' = AfterBirth(m.seq)
        /\ node_aliases' = Bound(m.metrics) /\ devices' = NoDevices
        /\ Report([Nothing("NodeBirth") EXCEPT !.bdSeq = m.bdSeq, !.metrics = m.metrics])
    BY <2>1 DEF OnNodeBirth
  <2>3. [Nothing("NodeBirth") EXCEPT !.bdSeq = m.bdSeq, !.metrics = m.metrics].kind = "NodeBirth"
    BY DEF Nothing
  <2>4. PICK k, b, n :
            /\ k = [s \in Scopes |-> IF s = None THEN Bound(m.metrics) ELSE EmptyRegistry]
            /\ b = m.bdSeq /\ n = AfterBirth(m.seq)
    OBVIOUS
  <2>5. /\ k = [s \in Scopes |-> k[s]] /\ k[None] = node_aliases'
        /\ \A d \in Devices : k[d] = devices'[d].aliases
    BY <1>1, <2>2, <2>4 DEF NoDevices
  <2>6. HeldRegistries' = k
    BY <2>5, HeldRegistriesNext
  <2>7. OnlineDevices' = {}
    BY <2>2 DEF NoDevices, OnlineDevices
  <2>8. h = [online |-> TRUE, bd |-> b, next |-> n, alive |-> {}, known |-> k]
    BY <1>3, <2>4 DEF After
  <2>9. Held' = [online |-> TRUE, bd |-> b, next |-> n, alive |-> {}, known |-> k]
    BY <2>2, <2>4, <2>6, <2>7 DEF Held
  <2>10. ncmd' = FALSE /\ event'.kind # "Error"
    BY <2>2, <2>3, Reported
  <2> QED
    BY <2>8, <2>9, <2>10
<1>4. CASE m.type = "NDEATH"
  <2>1. m.bdSeq # None /\ OnNodeDeath(m)
    BY <1>4 DEF Accepts, HandleIncoming
  <2>2. Nothing("Ignored").kind = "Ignored"
        /\ [Nothing("NodeDeath") EXCEPT !.bdSeq = m.bdSeq, !.devices = OnlineDevices].kind
               = "NodeDeath"
    BY DEF Nothing
  <2>3. ncmd' = FALSE /\ event'.kind # "Error"
    BY <2>1, <2>2, Reported DEF OnNodeDeath
  <2>4. CASE online /\ MatchesBirth(m)
    <3>1. /\ online' = FALSE /\ node_bd_seq' = node_bd_seq /\ expected_seq' = expected_seq
          /\ node_aliases' = node_aliases
          /\ devices' = [d \in Devices |-> [devices[d] EXCEPT !.online = FALSE]]
      BY <2>1, <2>4 DEF OnNodeDeath
    <3>2. \A d \in Devices : devices'[d].online = FALSE /\ devices'[d].aliases = devices[d].aliases
      BY <1>2, <3>1
    <3>3. PICK k, b, n : k = HeldRegistries /\ b = node_bd_seq /\ n = expected_seq
      OBVIOUS
    <3>4. HeldRegistries' = k
      <4>1. /\ k = [s \in Scopes |-> k[s]] /\ k[None] = node_aliases'
            /\ \A d \in Devices : k[d] = devices'[d].aliases
        BY <3>1, <3>2, <3>3, HeldRegistriesAre
      <4> QED
        BY <4>1, HeldRegistriesNext
    <3>5. OnlineDevices' = {}
      BY <3>2 DEF OnlineDevices
    <3>6. Held' = [online |-> FALSE, bd |-> b, next |-> n, alive |-> {}, known |-> k]
      BY <3>1, <3>3, <3>4, <3>5 DEF Held
    <3>7. h = [online |-> FALSE, bd |-> b, next |-> n, alive |-> {}, known |-> k]
      BY <1>4, <2>4, <3>3, HeldFields DEF After, MatchesBirth
    <3> QED
      BY <2>3, <3>6, <3>7
  <2>5. CASE ~(online /\ MatchesBirth(m))
    <3>1. UNCHANGED nodeState
      BY <2>1, <2>5 DEF OnNodeDeath
    <3>2. Held' = Held
      BY <3>1 DEF nodeState, Held, OnlineDevices, HeldRegistries
    <3>3. ~(Held.online /\ Held.bd = m.bdSeq)
      BY <2>1, <2>5, HeldFields DEF MatchesBirth
    <3>4. h = Held
      BY <1>4, <3>3 DEF After
    <3> QED
      BY <2>3, <3>2, <3>4
  <2> QED
    BY <2>4, <2>5
<1>5. CASE m.type = "DBIRTH"
  <2>1. online /\ InSequence(m) /\ ~DuplicateAlias(m.metrics) /\ OnDeviceBirth(m)
    BY <1>5, HeldFields DEF Accepts, HandleIncoming, InSequence
  <2>2. /\ UNCHANGED <<online, node_bd_seq, node_aliases>> /\ Advance
        /\ devices' = [devices EXCEPT ![m.device] =
                          [online |-> TRUE, aliases |-> Bound(m.metrics)]]
        /\ Report([Nothing("DeviceBirth") EXCEPT !.device = m.device, !.metrics = m.metrics])
    BY <2>1 DEF OnDeviceBirth
  <2>3. [Nothing("DeviceBirth") EXCEPT !.device = m.device, !.metrics = m.metrics].kind
            = "DeviceBirth"
    BY DEF Nothing
  <2>4. ncmd' = FALSE /\ event'.kind # "Error"
    BY <2>2, <2>3, Reported
  <2>5. m.device \in Devices
    BY <1>1, <1>5
  <2>6. /\ devices'[m.device].online = TRUE /\ devices'[m.device].aliases = Bound(m.metrics)
        /\ \A d \in Devices : d # m.device => devices'[d] = devices[d]
    BY <1>2, <2>2, <2>5
  <2>7. PICK k, o, b, n, ds :
            /\ k = [s \in Scopes |-> IF s = m.device THEN Bound(m.metrics) ELSE Held.known[s]]
            /\ o = online /\ b = node_bd_seq /\ n = WrapInc(expected_seq, SeqMod)
            /\ ds = OnlineDevices \cup {m.device}
    OBVIOUS
  <2>8. HeldRegistries' = k
    <3>1. \A s \in Scopes :
              k[s] = IF s = m.device THEN Bound(m.metrics) ELSE HeldRegistries[s]
      BY <2>7, HeldFields
    <3>2. k[None] = node_aliases' /\ \A d \in Devices : k[d] = devices'[d].aliases
      BY <1>1, <2>2, <2>5, <2>6, <3>1, HeldRegistriesAre
    <3>3. k = [s \in Scopes |-> k[s]]
      BY <2>7
    <3> QED
      BY <3>2, <3>3, HeldRegistriesNext
  <2>9. OnlineDevices' = ds
    BY <1>2, <2>5, <2>6, <2>7 DEF OnlineDevices
  <2>10. Held' = [online |-> o, bd |-> b, next |-> n, alive |-> ds, known |-> k]
    BY <2>2, <2>7, <2>8, <2>9 DEF Held, Advance
  <2>11. h = [online |-> o, bd |-> b, next |-> n, alive |-> ds, known |-> k]
    BY <1>5, <2>7, HeldFields DEF After
  <2> QED
    BY <2>4, <2>10, <2>11
<1>6. CASE m.type \in {"NDATA", "DDATA", "DDEATH"}
  <2>1. /\ online' = online /\ node_bd_seq' = node_bd_seq /\ node_aliases' = node_aliases
        /\ Advance
        /\ ncmd' = FALSE /\ event'.kind # "Error"
        /\ IF m.type = "DDEATH" THEN devices' = [devices EXCEPT ![m.device].online = FALSE]
                                ELSE devices' = devices
    <3>1. CASE m.type = "NDATA"
      <4>1. online /\ InSequence(m) /\ Decodes(node_aliases, m.metrics) /\ OnNodeData(m)
        BY <3>1, HeldFields, HeldRegistriesAre DEF Accepts, HandleIncoming, InSequence
      <4>2. [Nothing("NodeData") EXCEPT !.metrics = Resolved(node_aliases, m.metrics)].kind
                = "NodeData"
        BY DEF Nothing
      <4> QED
        BY <3>1, <4>1, <4>2, Reported DEF OnNodeData
    <3>2. CASE m.type = "DDATA"
      <4>1. m.device \in Devices
        BY <1>1, <3>2
      <4>2. /\ online /\ InSequence(m) /\ OnDeviceData(m)
            /\ Decodes(devices[m.device].aliases, m.metrics) /\ devices[m.device].online
        BY <1>2, <3>2, <4>1, HeldFields, HeldRegistriesAre DEF Accepts, HandleIncoming, InSequence
      <4>3. [Nothing("DeviceData") EXCEPT !.device = m.device,
                !.metrics = Resolved(devices[m.device].aliases, m.metrics)].kind = "DeviceData"
        BY DEF Nothing
      <4> QED
        BY <3>2, <4>2, <4>3, Reported DEF OnDeviceData
    <3>3. CASE m.type = "DDEATH"
      <4>1. online /\ InSequence(m) /\ OnDeviceDeath(m)
        BY <3>3, HeldFields DEF Accepts, HandleIncoming, InSequence
      <4>2. [Nothing("DeviceDeath") EXCEPT !.device = m.device].kind = "DeviceDeath"
        BY DEF Nothing
      <4>3. /\ UNCHANGED <<online, node_bd_seq, node_aliases>> /\ Advance
            /\ devices' = [devices EXCEPT ![m.device].online = FALSE]
            /\ Report([Nothing("DeviceDeath") EXCEPT !.device = m.device])
        BY <4>1 DEF OnDeviceDeath
      <4> QED
        BY <3>3, <4>2, <4>3, Reported
    <3> QED
      BY <1>6, <3>1, <3>2, <3>3
  <2>2. PICK ds : ds = IF m.type = "DDEATH" THEN OnlineDevices \ {m.device} ELSE OnlineDevices
    OBVIOUS
  <2>3. OnlineDevices' = ds /\ \A d \in Devices : devices'[d].aliases = devices[d].aliases
    <3>1. CASE m.type = "DDEATH"
      <4>1. m.device \in Devices
        BY <1>1, <3>1
      <4>2. /\ devices'[m.device].online = FALSE
            /\ devices'[m.device].aliases = devices[m.device].aliases
            /\ \A d \in Devices : d # m.device => devices'[d] = devices[d]
        BY <1>2, <2>1, <3>1, <4>1
      <4> QED
        BY <1>2, <2>2, <3>1, <4>2 DEF OnlineDevices
    <3>2. CASE m.type # "DDEATH"
      BY <1>2, <2>1, <2>2, <3>2 DEF OnlineDevices
    <3> QED
      BY <3>1, <3>2
  <2>4. PICK k, o, b, n : /\ k = HeldRegistries /\ o = online /\ b = node_bd_seq
                          /\ n = WrapInc(expected_seq, SeqMod)
    OBVIOUS
  <2>5. HeldRegistries' = k
    <3>1. /\ k = [s \in Scopes |-> k[s]] /\ k[None] = node_aliases'
          /\ \A d \in Devices : k[d] = devices'[d].aliases
      BY <2>1, <2>3, <2>4, HeldRegistriesAre
    <3> QED
      BY <3>1, HeldRegistriesNext
  <2>6. Held' = [online |-> o, bd |-> b, next |-> n, alive |-> ds, known |-> k]
    BY <2>1, <2>3, <2>4, <2>5 DEF Held, Advance
  <2>7. h = [online |-> o, bd |-> b, next |-> n, alive |-> ds, known |-> k]
    BY <1>6, <2>2, <2>4, HeldFields DEF After
  <2> QED
    BY <2>1, <2>6, <2>7
<1> QED
  BY <1>1, <1>3, <1>4, <1>5, <1>6 DEF MessageType

\* A step that adds nothing to the queue, and leaves the last entry what it is.
LEMMA ViewKept ==
    ASSUME NEW trace, Seen(up, trace), trace[0] = Held, UNCHANGED <<nodeState, up>>,
           NEW h, h = trace[Len(up)], EdgeHolds(h)'
    PROVE  ViewInv'
<1>1. Held' = Held
  BY DEF nodeState, Held, OnlineDevices, HeldRegistries
<1>2. Seen(up, trace)' /\ trace[0] = Held' /\ trace[Len(up)]' = h
  BY <1>1 DEF Seen
<1> QED
  BY <1>2 DEF ViewInv

\* A step that adds an entry.
LEMMA ViewJoined ==
    ASSUME up \in Seq(Entry), NEW e \in Entry, up' = Append(up, e), UNCHANGED nodeState,
           NEW trace, Seen(up, trace), trace[0] = Held,
           NEW h, h = trace[Len(up)], Accepts(h, e), NEW g, g = After(h, e), EdgeHolds(g)'
    PROVE  ViewInv'
<1>1. Held' = Held
  BY DEF nodeState, Held, OnlineDevices, HeldRegistries
<1>2. PICK next : Seen(up', next) /\ next[0] = trace[0] /\ next[Len(up')] = g
  BY SeenJoined
<1>3. Seen(up, next)' /\ next[0] = Held' /\ next[Len(up)]' = g
  BY <1>1, <1>2 DEF Seen
<1> QED
  BY <1>3 DEF ViewInv

\* The message a publish handed to the broker.
LEMMA SentIs ==
    ASSUME NEW m, NEW n, Send(n), out' = <<m>>
    PROVE  session.open /\ m = n /\ announced' = Announce(n)
BY DEF Send

\* An NBIRTH tells the host all the edge counts on.
LEMMA NodeBirthTold ==
    ASSUME TypeOK, SessionInv, StartsAtZero, PublishNodeBirth,
           NEW m \in WellFormed, out' = <<m>>, NEW h, NEW g, g = After(h, m)
    PROVE  Accepts(h, m) /\ EdgeHolds(g)'
<1>1. PICK metrics : metrics = Aliased(NodeMetrics, next_alias)
  OBVIOUS
<1>2. PICK n : n = NodeBirth(seq, bd_seq, metrics)
  OBVIOUS
<1>3. Send(n) /\ birth # None /\ birth.at = 0 /\ seq' = WrapInc(seq, SeqMod) /\ session' = session
  BY <1>1, <1>2 DEF PublishNodeBirth, Quiet, BirthBdSeq, Idle
<1>4. session.open /\ m = n /\ announced' = Announce(n)
  BY <1>3, SentIs
<1>5. /\ m.type = "NBIRTH" /\ m.seq = seq /\ m.bdSeq = bd_seq /\ m.metrics = metrics
  BY <1>2, <1>4 DEF NodeBirth
<1>6. metrics \in Seq(Metric) /\ metrics # None /\ ~DuplicateAlias(metrics)
  BY <1>1, AliasedApart, AliasedType, EdgeNodeAssumption, SparkplugAssumption DEF TypeOK
<1>7. /\ None \notin Devices /\ None \in Scopes /\ Devices \subseteq Scopes
      /\ announced' = [NothingAnnounced EXCEPT ![None] = metrics]
  BY <1>4, <1>5, HostConstants DEF Scopes, Announce
<1>8. announced'[None] = metrics /\ \A s \in Scopes : s # None => announced'[s] = None
  BY <1>7 DEF NothingAnnounced
<1>9. session.will = bd_seq /\ seq = 0 /\ AfterBirth(seq) = seq'
  <2>1. session.will = bd_seq /\ seq = 0
    BY <1>3, <1>4 DEF SessionInv, StartsAtZero
  <2>2. seq # None
    BY HostConstants DEF TypeOK, Seqs
  <2> QED
    BY <1>3, <2>1, <2>2 DEF AfterBirth
<1>10. g = [online |-> TRUE, bd |-> m.bdSeq, next |-> AfterBirth(m.seq), alive |-> {},
            known |-> [s \in Scopes |-> IF s = None THEN Bound(m.metrics) ELSE EmptyRegistry]]
  BY <1>5 DEF After
<1>11. /\ g.online = TRUE /\ g.bd = session'.will /\ g.next = seq' /\ g.alive = {}
       /\ g.known[None] = Bound(metrics)
  BY <1>3, <1>5, <1>7, <1>9, <1>10
<1>12. {d \in Devices : announced'[d] # None} = {}
  BY <1>7, <1>8
<1>13. \A s \in Scopes : announced'[s] # None => g.known[s] = Bound(announced'[s])
  BY <1>8, <1>11
<1>14. NodeBorn'
  BY <1>3, <1>4, <1>6, <1>8 DEF NodeBorn
<1>15. EdgeHolds(g)'
  BY <1>11, <1>12, <1>13, <1>14 DEF EdgeHolds
<1> QED
  BY <1>5, <1>6, <1>15 DEF Accepts

\* A host that holds what the edge has published counts with it.
LEMMA CountsWith ==
    ASSUME NEW h, EdgeHolds(h), NodeBorn
    PROVE  /\ h.online /\ h.bd = session.will
           /\ h.alive = {d \in Devices : announced[d] # None}
           /\ \A s \in Scopes : announced[s] # None => h.known[s] = Bound(announced[s])
           /\ EdgeCounts => h.next = seq
BY DEF EdgeHolds

\* A DBIRTH adds its device.
LEMMA DeviceBirthTold ==
    ASSUME TypeOK, AnnouncedInv, PublishDeviceBirth,
           NEW m \in WellFormed, out' = <<m>>, NEW h, EdgeHolds(h), NEW g, g = After(h, m)
    PROVE  Accepts(h, m) /\ EdgeHolds(g)'
<1>1. birth # None /\ birth.at > 0 /\ seq' = WrapInc(seq, SeqMod) /\ session' = session
  BY DEF PublishDeviceBirth, Idle
<1>2. PICK d \in Devices : d = DeviceList[birth.at]
  <2>1. birth.at \in 1 .. Len(DeviceList)
    BY <1>1, BirthAssumption DEF TypeOK, BirthProgress
  <2> QED
    BY <2>1, SparkplugAssumption
<1>3. PICK metrics : metrics = Aliased(DeviceMetrics[d], next_alias)
  OBVIOUS
<1>4. PICK n : n = Sequenced("DBIRTH", d, seq, metrics)
  OBVIOUS
<1>5. Send(n)
  BY <1>2, <1>3, <1>4 DEF PublishDeviceBirth, Quiet
<1>6. session.open /\ m = n /\ announced' = Announce(n)
  BY <1>5, SentIs
<1>7. m.type = "DBIRTH" /\ m.device = d /\ m.seq = seq /\ m.metrics = metrics
  BY <1>4, <1>6 DEF Sequenced
<1>8. metrics \in Seq(Metric) /\ metrics # None /\ ~DuplicateAlias(metrics)
  BY <1>3, AliasedApart, AliasedType, EdgeNodeAssumption, SparkplugAssumption DEF TypeOK
<1>9. /\ None \notin Devices /\ Devices \subseteq Scopes /\ d \in Scopes
      /\ announced' = [announced EXCEPT ![d] = metrics]
  BY <1>6, <1>7, HostConstants DEF Scopes, Announce
<1>10. announced'[d] = metrics /\ \A s : s # d => announced'[s] = announced[s]
  BY <1>9 DEF TypeOK
<1>11. NodeBorn /\ EdgeCounts
  BY <1>1, <1>6 DEF AnnouncedInv, NodeBorn, EdgeCounts
<1>12. g = [online |-> h.online, bd |-> h.bd, next |-> WrapInc(h.next, SeqMod),
            alive |-> h.alive \cup {m.device},
            known |-> [s \in Scopes |-> IF s = m.device THEN Bound(m.metrics) ELSE h.known[s]]]
  BY <1>7 DEF After
<1>13. /\ g.online /\ g.bd = session'.will /\ g.next = seq' /\ g.alive = h.alive \cup {d}
       /\ \A s \in Scopes : g.known[s] = IF s = d THEN Bound(metrics) ELSE h.known[s]
  BY <1>1, <1>7, <1>11, <1>12, CountsWith
<1>14. g.alive = {e \in Devices : announced'[e] # None}
  BY <1>8, <1>10, <1>11, <1>13, CountsWith
<1>15. \A s \in Scopes : announced'[s] # None => g.known[s] = Bound(announced'[s])
  BY <1>10, <1>11, <1>13, CountsWith
<1>16. NodeBorn'
  BY <1>1, <1>9, <1>10, <1>11 DEF NodeBorn
<1>17. EdgeHolds(g)'
  BY <1>13, <1>14, <1>15, <1>16 DEF EdgeHolds
<1> QED
  BY <1>7, <1>8, <1>11, CountsWith, <1>17 DEF Accepts

\* After data the host expects the next number, and all else is as it was.
LEMMA DataCounted ==
    ASSUME NEW m \in WellFormed, m.type \in {"NDATA", "DDATA"}, NEW h, EdgeHolds(h),
           NEW g, g = After(h, m), NodeBorn, EdgeCounts, seq' = WrapInc(seq, SeqMod),
           session' = session, announced' = announced
    PROVE  EdgeHolds(g)'
<1>1. g = [online |-> h.online, bd |-> h.bd, next |-> WrapInc(h.next, SeqMod),
           alive |-> h.alive, known |-> h.known]
  BY DEF After
<1>2. /\ g.online /\ g.bd = session'.will /\ g.next = seq' /\ g.alive = h.alive
      /\ g.known = h.known
  BY <1>1, CountsWith
<1>3. /\ g.alive = {d \in Devices : announced'[d] # None}
      /\ \A s \in Scopes : announced'[s] # None => g.known[s] = Bound(announced'[s])
      /\ NodeBorn'
  BY <1>2, CountsWith DEF NodeBorn
<1> QED
  BY <1>2, <1>3 DEF EdgeHolds

\* NDATA finds its metrics in the NBIRTH.
LEMMA NodeDataTold ==
    ASSUME TypeOK, AliasInv, OpenInv, ~trouble, lifecycle_ok, Nat \subseteq Aliases,
           PublishNodeData,
           NEW m \in WellFormed, out' = <<m>>, NEW h, EdgeHolds(h), NEW g, g = After(h, m)
    PROVE  Accepts(h, m) /\ EdgeHolds(g)'
<1>1. birth = None /\ seq' = WrapInc(seq, SeqMod) /\ session' = session
  BY DEF PublishNodeData, Idle
<1>2. PICK i \in DOMAIN NodeMetrics :
          Send(Sequenced("NDATA", None, seq, <<DataMetric(NodeMetrics[i])>>))
  BY DEF PublishNodeData, Quiet
<1>3. PICK k, n : k = DataMetric(NodeMetrics[i]) /\ n = Sequenced("NDATA", None, seq, <<k>>)
  OBVIOUS
<1>4. session.open /\ m = n /\ announced' = Announce(n)
  BY <1>2, <1>3, SentIs
<1>5. m.type = "NDATA" /\ m.seq = seq /\ m.metrics = <<k>>
  BY <1>2, <1>3, <1>4 DEF Sequenced
<1>6. announced' = announced
  BY <1>4, <1>5 DEF Announce
<1>7. NodeBorn /\ EdgeCounts
  BY <1>1, <1>4 DEF OpenInv, NodeBorn, EdgeCounts
<1>8. PICK metrics : metrics = Aliased(NodeMetrics, 0)
  OBVIOUS
<1>9. metrics \in Seq(Metric) /\ ~DuplicateAlias(metrics) /\ announced[None] = metrics
  BY <1>7, <1>8, AliasedApart, AliasedType, EdgeNodeAssumption DEF NodeBorn, AliasInv
<1>10. Resolves(k, metrics) /\ NodeMetrics[i] \in Names
  BY <1>2, <1>3, <1>8, NumberedResolves, EdgeNodeAssumption DEF AliasInv
<1>11. Decodes(Bound(metrics), <<k>>)
  BY <1>2, <1>3, <1>9, <1>10, ResolvedKnown
<1>12. h.online /\ h.next = seq /\ h.known[None] = Bound(metrics)
  BY <1>7, <1>9, CountsWith, AliasedType DEF Scopes, NodeBorn
<1>13. EdgeHolds(g)'
  BY <1>1, <1>5, <1>6, <1>7, DataCounted
<1> QED
  BY <1>5, <1>11, <1>12, <1>13 DEF Accepts

\* DDATA finds its metrics in the DBIRTH.
LEMMA DeviceDataTold ==
    ASSUME TypeOK, AnnouncedInv, AliasInv, OpenInv, ~trouble, lifecycle_ok, Nat \subseteq Aliases,
           NEW d \in Devices, PublishDeviceData(d),
           NEW m \in WellFormed, out' = <<m>>, NEW h, EdgeHolds(h), NEW g, g = After(h, m)
    PROVE  Accepts(h, m) /\ EdgeHolds(g)'
<1>1. /\ birth = None /\ seq' = WrapInc(seq, SeqMod) /\ session' = session
      /\ d \in born_devices
  BY DEF PublishDeviceData, Idle
<1>2. PICK i \in DOMAIN DeviceMetrics[d] :
          Send(Sequenced("DDATA", d, seq, <<DataMetric(DeviceMetrics[d][i])>>))
  BY DEF PublishDeviceData, Quiet
<1>3. PICK k, n : k = DataMetric(DeviceMetrics[d][i]) /\ n = Sequenced("DDATA", d, seq, <<k>>)
  OBVIOUS
<1>4. session.open /\ m = n /\ announced' = Announce(n)
  BY <1>2, <1>3, SentIs
<1>5. m.type = "DDATA" /\ m.device = d /\ m.seq = seq /\ m.metrics = <<k>>
  BY <1>2, <1>3, <1>4 DEF Sequenced
<1>6. announced' = announced
  BY <1>4, <1>5 DEF Announce
<1>7. NodeBorn /\ EdgeCounts /\ announced[d] # None
  BY <1>1, <1>4 DEF OpenInv, NodeBorn, EdgeCounts, AnnouncedInv, DevicesAnnounced
<1>8. BornAsNumbered(d)
  BY <1>1, <1>4 DEF AliasInv
<1>9. PICK first \in Nat :
          announced[d] = Aliased(DeviceMetrics[d], first) /\ Numbered(DeviceMetrics[d], first)
  BY <1>7, <1>8 DEF BornAsNumbered, TypeOK
<1>10. PICK metrics : metrics = Aliased(DeviceMetrics[d], first)
  OBVIOUS
<1>11. /\ DeviceMetrics[d] \in Seq(Names)
       /\ metrics \in Seq(Metric) /\ ~DuplicateAlias(metrics)
  BY <1>9, <1>10, AliasedApart, AliasedType, EdgeNodeAssumption
<1>12. Resolves(k, metrics) /\ DeviceMetrics[d][i] \in Names
  BY <1>2, <1>3, <1>9, <1>10, <1>11, NumberedResolves
<1>13. Decodes(Bound(metrics), <<k>>)
  BY <1>2, <1>3, <1>11, <1>12, ResolvedKnown
<1>14. h.online /\ h.next = seq /\ h.known[d] = Bound(metrics) /\ d \in h.alive
  BY <1>7, <1>9, <1>10, CountsWith DEF Scopes
<1>15. EdgeHolds(g)'
  BY <1>1, <1>5, <1>6, <1>7, DataCounted
<1> QED
  BY <1>5, <1>13, <1>14, <1>15 DEF Accepts

\* A DDEATH takes its device away.
LEMMA DeviceDeathTold ==
    ASSUME TypeOK, OpenInv, ~trouble, lifecycle_ok,
           NEW d \in Devices, PublishDeviceDeath(d),
           NEW m \in WellFormed, out' = <<m>>, NEW h, EdgeHolds(h), NEW g, g = After(h, m)
    PROVE  Accepts(h, m) /\ EdgeHolds(g)'
<1>1. birth = None /\ seq' = WrapInc(seq, SeqMod) /\ session' = session
  BY DEF PublishDeviceDeath, Idle
<1>2. PICK n : n = Sequenced("DDEATH", d, seq, << >>)
  OBVIOUS
<1>3. Send(n)
  BY <1>2 DEF PublishDeviceDeath, Quiet
<1>4. session.open /\ m = n /\ announced' = Announce(n)
  BY <1>3, SentIs
<1>5. m.type = "DDEATH" /\ m.device = d /\ m.seq = seq
  BY <1>2, <1>4 DEF Sequenced
<1>6. /\ None \notin Devices /\ Devices \subseteq Scopes /\ d # None
      /\ announced' = [announced EXCEPT ![d] = None]
  BY <1>4, <1>5, HostConstants DEF Scopes, Announce
<1>7. announced'[d] = None /\ \A s : s # d => announced'[s] = announced[s]
  BY <1>6 DEF TypeOK
<1>8. NodeBorn /\ EdgeCounts
  BY <1>1, <1>4 DEF OpenInv, NodeBorn, EdgeCounts
<1>9. g = [online |-> h.online, bd |-> h.bd, next |-> WrapInc(h.next, SeqMod),
           alive |-> h.alive \ {m.device}, known |-> h.known]
  BY <1>5 DEF After
<1>10. /\ g.online /\ g.bd = session'.will /\ g.next = seq' /\ g.alive = h.alive \ {d}
       /\ g.known = h.known
  BY <1>1, <1>5, <1>8, <1>9, CountsWith
<1>11. /\ g.alive = {e \in Devices : announced'[e] # None}
       /\ \A s \in Scopes : announced'[s] # None => g.known[s] = Bound(announced'[s])
       /\ NodeBorn'
  BY <1>1, <1>6, <1>7, <1>8, <1>10, CountsWith DEF NodeBorn
<1>12. EdgeHolds(g)'
  BY <1>10, <1>11 DEF EdgeHolds
<1> QED
  BY <1>5, <1>8, CountsWith, <1>12 DEF Accepts

\* Once something went wrong, it has.
LEMMA TroubleStays ==
    ASSUME [SessionNext]_sessionVars, ~trouble'
    PROVE  ~trouble
BY DEF SessionNext, PublishSequenced, PublishDeath, EdgeConnects, EdgeGivesBirth, EdgeFails,
       PublishWill, HostReceives, HostMisses, HostRestarts, RequestReceived, RequestDropped,
       EdgeWindowEnds, HostWindowEnds, sessionVars, observers

\* Steps that leave the connection and its births alone.
LEMMA OpenFrame ==
    ASSUME OpenInv, ~trouble' => ~trouble, state' \in {state, "Disconnected"},
           session'.open =>
               /\ session.open /\ announced' = announced
               /\ UNCHANGED <<birth, born_devices, lifecycle_ok>>
    PROVE  OpenInv'
BY DEF OpenInv

\* A birth sequence on a connection that is up starts from a calm one.
LEMMA OpenStarts ==
    ASSUME OpenInv, ~trouble' => ~trouble, CallPublishBirthSequence \/ HandleRebirth
    PROVE  OpenInv'
<1>1. PICK by \in Caller : StartBirths(by)
  BY DEF CallPublishBirthSequence, HandleRebirth, Caller
<1>2. /\ birth = None /\ birth' = [at |-> 0, by |-> by]
      /\ UNCHANGED <<state, session, lifecycle_ok, announced>>
  BY <1>1 DEF CallPublishBirthSequence, HandleRebirth, StartBirths, Idle, Quiet
<1>3. birth' # None /\ birth'.at = 0
  <2>1. birth' \in BirthProgress
    BY <1>1, <1>2, SparkplugAssumption DEF BirthProgress
  <2> QED
    BY <1>2, <2>1, BirthAssumption
<1> QED
  BY <1>2, <1>3 DEF OpenInv

\* A birth published moves on with the same caller, or ends its sequence.
LEMMA BirthGoesOn ==
    ASSUME TypeOK, birth # None, BirthPublished
    PROVE  \/ birth' = None /\ lifecycle_ok' = (lifecycle_ok \/ birth.by = "connect")
           \/ birth' # None /\ birth'.by = birth.by /\ lifecycle_ok' = lifecycle_ok
<1>1. CASE birth.at < Len(DeviceList)
  <2>1. birth \in BirthProgress
    BY DEF TypeOK
  <2>2. birth' = [birth EXCEPT !.at = birth.at + 1] /\ lifecycle_ok' = lifecycle_ok
    BY <1>1 DEF BirthPublished
  <2>3. birth' \in BirthProgress /\ birth'.by = birth.by
    BY <1>1, <2>1, <2>2, SparkplugAssumption DEF BirthProgress
  <2> QED
    BY <2>2, <2>3, BirthAssumption
<1>2. CASE ~(birth.at < Len(DeviceList))
  BY <1>2 DEF BirthPublished, BirthsDone
<1> QED
  BY <1>1, <1>2

\* Publishing keeps the births and the devices together.
LEMMA OpenPublishes ==
    ASSUME TypeOK, AnnouncedInv, OpenInv, Publish, ~trouble' => ~trouble,
           session.open /\ ~trouble' => out' # << >>
    PROVE  OpenInv'
<1>1. CASE PublishNodeBirth
  <2>1. birth # None /\ birth.at = 0 /\ session' = session
    BY <1>1 DEF PublishNodeBirth, Idle
  <2>2. ASSUME session.open, ~trouble'
        PROVE  /\ announced'[None] # None /\ \A d \in Devices : announced'[d] = None
               /\ BirthPublished
    <3>1. PICK metrics : metrics = Aliased(NodeMetrics, next_alias)
      OBVIOUS
    <3>2. PICK n : n = NodeBirth(seq, bd_seq, metrics)
      OBVIOUS
    <3>3. out' # << >>
      BY <2>2
    <3>4. Send(n) /\ BirthPublished
      BY <1>1, <3>1, <3>2, <3>3 DEF PublishNodeBirth, Quiet, BirthBdSeq
    <3>5. announced' = [NothingAnnounced EXCEPT ![None] = metrics]
      BY <2>2, <3>2, <3>4 DEF Send, Announce, NodeBirth
    <3>6. metrics # None
      BY <3>1, AliasedType, EdgeNodeAssumption, SparkplugAssumption DEF TypeOK
    <3>7. None \notin Devices /\ None \in Scopes /\ Devices \subseteq Scopes
      BY HostConstants DEF Scopes
    <3> QED
      BY <3>4, <3>5, <3>6, <3>7 DEF NothingAnnounced
  <2>3. state' \in {state, "Online"}
    BY <1>1 DEF PublishNodeBirth, BirthPublished, BirthFailed, BirthsDone
  <2>4. ASSUME session.open, ~trouble'
        PROVE  IF birth' = None THEN lifecycle_ok' ELSE lifecycle_ok' \/ birth'.by = "connect"
    <3>1. lifecycle_ok \/ birth.by = "connect"
      BY <2>1, <2>4 DEF OpenInv
    <3>2. BirthPublished
      BY <2>2, <2>4
    <3> QED
      BY <2>1, <3>1, <3>2, BirthGoesOn, Zenon
  <2> QED
    BY <2>1, <2>2, <2>3, <2>4 DEF OpenInv
<1>2. CASE PublishDeviceBirth
  <2>1. birth # None /\ birth.at > 0 /\ session' = session
    BY <1>2 DEF PublishDeviceBirth, Idle
  <2>2. PICK d \in Devices : d = DeviceList[birth.at]
    <3>1. birth.at \in 1 .. Len(DeviceList)
      BY <2>1, BirthAssumption DEF TypeOK, BirthProgress
    <3> QED
      BY <3>1, SparkplugAssumption
  <2>3. ASSUME session.open, ~trouble'
        PROVE  /\ BirthPublished /\ born_devices' = born_devices \cup {d}
               /\ \A s : s # d => announced'[s] = announced[s]
    <3>1. PICK n : n = Sequenced("DBIRTH", d, seq, Aliased(DeviceMetrics[d], next_alias))
      OBVIOUS
    <3>2. out' # << >>
      BY <2>3
    <3>3. Send(n) /\ BirthPublished /\ born_devices' = born_devices \cup {d}
      BY <1>2, <2>2, <3>1, <3>2 DEF PublishDeviceBirth, Quiet
    <3>4. announced' = [announced EXCEPT ![d] = n.metrics]
      BY <2>3, <3>1, <3>3 DEF Send, Announce, Sequenced
    <3> QED
      BY <3>3, <3>4 DEF TypeOK
  <2>4. state' \in {state, "Online"}
    BY <1>2 DEF PublishDeviceBirth, BirthPublished, BirthFailed, BirthsDone
  <2>5. ASSUME session.open, ~trouble'
        PROVE  IF birth' = None THEN lifecycle_ok' ELSE lifecycle_ok' \/ birth'.by = "connect"
    <3>1. lifecycle_ok \/ birth.by = "connect"
      BY <2>1, <2>5 DEF OpenInv
    <3>2. BirthPublished
      BY <2>3, <2>5
    <3> QED
      BY <2>1, <3>1, <3>2, BirthGoesOn, Zenon
  <2>6. None \notin Devices
    BY HostConstants
  <2>7. session.open => announced[None] # None
    BY <2>1 DEF AnnouncedInv
  <2> QED
    BY <2>1, <2>2, <2>3, <2>4, <2>5, <2>6, <2>7 DEF OpenInv
<1>3. CASE PublishNodeData \/ \E d \in Devices : PublishDeviceData(d)
  <2>1. UNCHANGED <<state, birth, session, lifecycle_ok, born_devices>>
    BY <1>3 DEF PublishNodeData, PublishDeviceData
  <2>2. announced' = announced
    <3>1. CASE PublishNodeData
      BY <3>1 DEF PublishNodeData, Send, Quiet, Sequenced, Announce
    <3>2. CASE \E d \in Devices : PublishDeviceData(d)
      BY <3>2 DEF PublishDeviceData, Send, Quiet, Sequenced, Announce
    <3> QED
      BY <1>3, <3>1, <3>2
  <2> QED
    BY <2>1, <2>2, OpenFrame
<1>4. ASSUME NEW d \in Devices, PublishDeviceDeath(d)
      PROVE  OpenInv'
  <2>1. UNCHANGED <<state, birth, session, lifecycle_ok>> /\ birth = None
    BY <1>4 DEF PublishDeviceDeath, Idle
  <2>2. CASE session.open /\ ~trouble'
    <3>1. PICK n : n = Sequenced("DDEATH", d, seq, << >>)
      OBVIOUS
    <3>2. Send(n) /\ born_devices' = born_devices \ {d}
      BY <1>4, <2>2, <3>1 DEF PublishDeviceDeath, Quiet
    <3>3. announced' = [announced EXCEPT ![d] = None]
      BY <2>2, <3>1, <3>2 DEF Send, Announce, Sequenced
    <3>4. d # None /\ None \in Scopes /\ d \in Scopes
      BY HostConstants DEF Scopes
    <3>5. announced'[d] = None /\ \A s : s # d => announced'[s] = announced[s]
      BY <3>3, <3>4 DEF TypeOK
    <3> QED
      BY <2>1, <2>2, <3>2, <3>4, <3>5 DEF OpenInv
  <2>3. CASE ~(session.open /\ ~trouble')
    BY <2>1, <2>3 DEF OpenInv
  <2> QED
    BY <2>2, <2>3
<1> QED
  BY <1>1, <1>2, <1>3, <1>4 DEF Publish

\* Connecting without a primary host: what did not go wrong is giving birth.
LEMMA OpenConnects ==
    ASSUME \A c \in Configs : ~c.gated, TypeOK, OpenInv, EdgeConnects
    PROVE  OpenInv'
<1>1. ~config.gated
  BY DEF TypeOK
<1>2. state' = state
  BY <1>1 DEF EdgeConnects, Connect, ConnectStoreFails, ConnectRefused, ConnectSubscribeFails,
              ConnectAndWait, ConnectAndBirth
<1>3. birth = None
  BY DEF EdgeConnects, Connect, ConnectStoreFails, ConnectRefused, ConnectSubscribeFails,
         ConnectAndWait, ConnectAndBirth, MayConnect, Idle
<1>4. ~trouble' => ConnectAndBirth
  BY <1>3 DEF EdgeConnects, Connect, ConnectStoreFails, ConnectRefused, ConnectSubscribeFails,
              ConnectAndWait
<1>5. ConnectAndBirth => birth' # None /\ birth'.at = 0 /\ birth'.by = "connect"
  <2>1. [at |-> 0, by |-> "connect"] \in BirthProgress
    BY SparkplugAssumption DEF BirthProgress, Caller
  <2> QED
    BY <2>1, BirthAssumption DEF ConnectAndBirth, StartBirths
<1> QED
  BY <1>2, <1>4, <1>5 DEF OpenInv

LEMMA OpenStep ==
    ASSUME \A c \in Configs : ~c.gated,
           TypeOK, AnnouncedInv, OpenInv, [SessionNext]_sessionVars
    PROVE  OpenInv'
<1>1. ~trouble' => ~trouble
  BY TroubleStays
<1>2. CASE PublishSequenced
  <2>1. Publish /\ (session.open /\ ~trouble' => out' # << >>)
    BY <1>2 DEF PublishSequenced
  <2> QED
    BY <1>1, <2>1, OpenPublishes
<1>3. CASE PublishDeath
  <2>1. Disconnect /\ UNCHANGED <<birth, born_devices>>
    BY <1>3 DEF PublishDeath, Disconnect
  <2>2. state' \in {state, "Disconnected"}
    BY <2>1 DEF Disconnect, DisconnectOk, DisconnectFails
  <2>3. session'.open => trouble'
    <3>1. CASE DisconnectOk
      <4>1. session'.open = FALSE
        BY <3>1 DEF DisconnectOk, TypeOK
      <4> QED
        BY <4>1
    <3>2. CASE DisconnectFails
      BY <1>3, <3>2 DEF PublishDeath, DisconnectFails
    <3> QED
      BY <2>1, <3>1, <3>2 DEF Disconnect
  <2> QED
    BY <2>2, <2>3 DEF OpenInv
<1>4. CASE EdgeConnects
  BY <1>4, OpenConnects
<1>5. CASE EdgeGivesBirth \/ RequestReceived
  BY <1>1, <1>5, OpenStarts DEF EdgeGivesBirth, RequestReceived
<1>6. CASE EdgeFails
  <2>1. ~session'.open /\ state' \in {state, "Disconnected"}
    BY <1>6, ConnectionEnds DEF EdgeFails, ConnectionLost, Crash, fields
  <2> QED
    BY <2>1 DEF OpenInv
<1>7. CASE \/ PublishWill \/ HostReceives \/ HostMisses \/ HostRestarts \/ RequestDropped
           \/ EdgeWindowEnds \/ HostWindowEnds \/ UNCHANGED sessionVars
  <2>1. EdgeIdle \/ DebounceElapses \/ UNCHANGED vars
    BY <1>7 DEF PublishWill, HostReceives, HostMisses, HostRestarts, RequestDropped,
                EdgeWindowEnds, HostWindowEnds, sessionVars
  <2>2. UNCHANGED <<state, birth, session, announced, lifecycle_ok, born_devices>>
    BY <2>1 DEF EdgeIdle, DebounceElapses, Quiet, fields, vars
  <2> QED
    BY <1>1, <2>2, OpenFrame
<1> QED
  BY <1>2, <1>3, <1>4, <1>5, <1>6, <1>7 DEF SessionNext

\* What the last entry leaves stays true while the births on the connection do,
\* and its will takes over once it is gone.
LEMMA HoldsFrame ==
    ASSUME NEW h, EdgeHolds(h), late_wills \subseteq late_wills',
           NodeBorn' => /\ NodeBorn /\ session' = session /\ announced' = announced
                        /\ EdgeCounts' => EdgeCounts /\ seq' = seq,
           NodeBorn /\ ~NodeBorn' => session.will \in late_wills'
    PROVE  EdgeHolds(h)'
<1>1. CASE NodeBorn'
  BY <1>1, CountsWith DEF EdgeHolds
<1>2. CASE ~NodeBorn'
  <2>1. h.online => h.bd \in late_wills'
    BY <1>2, CountsWith DEF EdgeHolds
  <2> QED
    BY <1>2, <2>1 DEF EdgeHolds
<1> QED
  BY <1>1, <1>2

\* An NDEATH, be it a will: the host lets go of what has ended, and of nothing else.
LEMMA DeathTold ==
    ASSUME NEW b \in BdSeqs, NEW m, m = NodeDeath(b), NEW h, EdgeHolds(h), NEW g, g = After(h, m),
           late_wills \subseteq late_wills' \cup {b},
           NodeBorn' => /\ NodeBorn /\ session' = session /\ announced' = announced
                        /\ EdgeCounts' => EdgeCounts /\ seq' = seq
                        /\ session.will # b,
           NodeBorn /\ ~NodeBorn' => session.will = b
    PROVE  Accepts(h, m) /\ EdgeHolds(g)'
<1>1. m.type = "NDEATH" /\ m.bdSeq = b /\ b # None
  BY EntryTypes, HostConstants DEF BdSeqs
<1>2. CASE h.online /\ h.bd = b
  <2>1. g = [online |-> FALSE, bd |-> h.bd, next |-> h.next, alive |-> {}, known |-> h.known]
    BY <1>1, <1>2 DEF After
  <2>2. ~NodeBorn'
    BY <1>2, CountsWith
  <2> QED
    BY <1>1, <2>1, <2>2 DEF Accepts, EdgeHolds
<1>3. CASE ~(h.online /\ h.bd = b)
  <2>1. g = h
    BY <1>1, <1>3 DEF After
  <2>2. CASE NodeBorn'
    BY <2>1, <2>2, CountsWith, <1>1 DEF Accepts, EdgeHolds
  <2>3. CASE ~NodeBorn'
    <3>1. h.online => h.bd \in late_wills'
      BY <1>3, <2>3, CountsWith DEF EdgeHolds
    <3> QED
      BY <1>1, <2>1, <2>3, <3>1 DEF Accepts, EdgeHolds
  <2> QED
    BY <2>2, <2>3
<1> QED
  BY <1>2, <1>3

\* Nothing the edge publishes on a connection that is up takes the host unawares.
LEMMA PublishTold ==
    ASSUME TypeOK, SessionInv, AnnouncedInv, StartsAtZero, AliasInv, OpenInv, ~trouble,
           Nat \subseteq Aliases, Publish, Idle => lifecycle_ok,
           NEW m \in WellFormed, out' = <<m>>, NEW h, EdgeHolds(h), NEW g, g = After(h, m)
    PROVE  Accepts(h, m) /\ EdgeHolds(g)'
<1>1. CASE PublishNodeBirth
  BY <1>1, NodeBirthTold
<1>2. CASE PublishDeviceBirth
  BY <1>2, DeviceBirthTold
<1>3. CASE PublishNodeData
  <2>1. lifecycle_ok
    BY <1>3 DEF PublishNodeData
  <2> QED
    BY <1>3, <2>1, NodeDataTold
<1>4. ASSUME NEW d \in Devices, PublishDeviceData(d)
      PROVE  Accepts(h, m) /\ EdgeHolds(g)'
  <2>1. lifecycle_ok
    BY <1>4 DEF PublishDeviceData
  <2> QED
    BY <1>4, <2>1, DeviceDataTold
<1>5. ASSUME NEW d \in Devices, PublishDeviceDeath(d)
      PROVE  Accepts(h, m) /\ EdgeHolds(g)'
  <2>1. lifecycle_ok
    BY <1>5 DEF PublishDeviceDeath
  <2> QED
    BY <1>5, <2>1, DeviceDeathTold
<1> QED
  BY <1>1, <1>2, <1>3, <1>4, <1>5 DEF Publish

\* While nothing goes wrong the host hears of everything, and asks for nothing.
LEMMA ViewInvStep ==
    ASSUME ~ReconnectWhileOpen, \A c \in Configs : ~c.gated, Nat \subseteq Aliases,
           SInv, AliasInv, OpenInv, ViewInv, SessionNext, ~trouble'
    PROVE  ViewInv' /\ ~ncmd'
<1>1. /\ TypeOK /\ SessionInv /\ AnnouncedInv /\ StartsAtZero /\ HInv /\ up \in Seq(Entry)
      /\ DeathInv /\ late_wills \subseteq BdSeqs
  BY DEF SInv, SessionTypeOK, HInv, DInv
<1>2. ~trouble
  BY TroubleStays
<1>3. PICK trace : Seen(up, trace) /\ trace[0] = Held /\ EdgeHolds(trace[Len(up)])
  BY <1>2 DEF ViewInv
<1>4. PICK h : h = trace[Len(up)] /\ EdgeHolds(h)
  BY <1>3
<1>5. CASE PublishSequenced
  <2>1. /\ Publish /\ (Idle => lifecycle_ok) /\ UNCHANGED <<nodeState, late_wills>> /\ ~ncmd'
        /\ \/ out' # << >> /\ up' = Append(up, out'[1])
           \/ ~session.open /\ up' = up
    BY <1>2, <1>5 DEF PublishSequenced, HostIdle, Enqueue
  <2>2. session' = session
    BY <1>1, <2>1, SequencedSent
  <2>3. CASE ~session.open /\ up' = up
    <3>1. ~NodeBorn /\ ~NodeBorn'
      BY <2>2, <2>3 DEF NodeBorn
    <3>2. EdgeHolds(h)'
      BY <1>4, <2>1, <3>1, HoldsFrame
    <3> QED
      BY <1>3, <1>4, <2>1, <2>3, <3>2, ViewKept
  <2>4. CASE out' # << >> /\ up' = Append(up, out'[1])
    <3>1. PICK m \in WellFormed : out' = <<m>>
      BY <1>1, <2>1, <2>4, SequencedSent
    <3>2. PICK g : g = After(h, m)
      OBVIOUS
    <3>3. Accepts(h, m) /\ EdgeHolds(g)'
      BY <1>1, <1>2, <1>4, <2>1, <3>1, <3>2, PublishTold
    <3>4. m \in Entry /\ up' = Append(up, m)
      BY <2>4, <3>1, EntryTypes
    <3> QED
      BY <1>1, <1>3, <1>4, <2>1, <3>2, <3>3, <3>4, ViewJoined
  <2> QED
    BY <2>1, <2>3, <2>4
<1>6. CASE PublishDeath
  <2>1. /\ Disconnect /\ UNCHANGED <<nodeState, late_wills>> /\ ~ncmd' /\ lifecycle_ok'
        /\ out' # << >> /\ up' = Append(up, out'[1])
    BY <1>2, <1>6 DEF PublishDeath, HostIdle, Enqueue
  <2>2. session.open /\ session.will = bd_seq /\ out' = <<NodeDeath(bd_seq)>>
    BY <1>1, <2>1, DeathSent
  <2>3. PICK b, m : b = bd_seq /\ m = NodeDeath(b) /\ b \in BdSeqs
    BY <1>1 DEF TypeOK
  <2>4. ~session'.open
    BY <1>1, <2>1 DEF Disconnect, DisconnectOk, DisconnectFails, TypeOK
  <2>5. PICK g : g = After(h, m)
    OBVIOUS
  <2>6. ~NodeBorn' /\ late_wills \subseteq late_wills' \cup {b}
    BY <2>1, <2>4 DEF NodeBorn
  <2>7. Accepts(h, m) /\ EdgeHolds(g)'
    BY <1>4, <2>2, <2>3, <2>5, <2>6, DeathTold
  <2>8. m \in Entry /\ up' = Append(up, m)
    BY <2>1, <2>2, <2>3, EntryTypes
  <2> QED
    BY <1>1, <1>3, <1>4, <2>1, <2>5, <2>7, <2>8, ViewJoined
<1>7. CASE PublishWill
  <2>1. PICK b \in late_wills : late_wills' = late_wills \ {b} /\ up' = Append(up, NodeDeath(b))
    BY <1>7 DEF PublishWill, Enqueue
  <2>2. UNCHANGED nodeState /\ ~ncmd' /\ UNCHANGED <<session, announced, birth, lifecycle_ok, seq>>
    BY <1>7 DEF PublishWill, HostIdle, EdgeIdle, Quiet, fields
  <2>3. PICK m, g : m = NodeDeath(b) /\ g = After(h, m)
    OBVIOUS
  <2>4. /\ NodeBorn' <=> NodeBorn
        /\ EdgeCounts' <=> EdgeCounts
        /\ NodeBorn => session.will # b
    BY <1>1, <2>1, <2>2 DEF NodeBorn, EdgeCounts, DeathInv
  <2>5. b \in BdSeqs /\ late_wills \subseteq late_wills' \cup {b}
    BY <1>1, <2>1
  <2>6. Accepts(h, m) /\ EdgeHolds(g)'
    BY <1>4, <2>2, <2>3, <2>4, <2>5, DeathTold
  <2>7. m \in Entry /\ up' = Append(up, m)
    BY <2>1, <2>3, <2>5, EntryTypes
  <2> QED
    BY <1>1, <1>3, <1>4, <2>2, <2>3, <2>6, <2>7, ViewJoined
<1>8. CASE HostReceives
  <2>1. /\ EdgeIdle /\ up # << >> /\ Head(up).type # "LOST" /\ HandleIncoming(Head(up))
        /\ up' = Tail(up) /\ event'.kind # "Error" /\ late_wills' = late_wills
    BY <1>8 DEF HostReceives
  <2>2. PICK m \in WellFormed : m = up[1] /\ HandleIncoming(m)
    BY <1>1, <2>1, FirstEntry
  <2>3. Accepts(trace[0], m) /\ trace[1] = After(trace[0], m)
    BY <1>1, <1>3, <2>1, <2>2, SeenLeft
  <2>4. PICK next : Seen(up', next) /\ next[0] = trace[1] /\ next[Len(up')] = trace[Len(up)]
    BY <1>1, <1>3, <2>1, SeenLeft
  <2>5. PICK t : t = trace[1]
    OBVIOUS
  <2>6. Held' = t /\ ncmd' = FALSE
    BY <1>1, <1>3, <2>2, <2>3, <2>5, HostTakes
  <2>7. UNCHANGED <<session, announced, birth, lifecycle_ok, seq>>
    BY <2>1 DEF EdgeIdle, Quiet, fields
  <2>8. (NodeBorn' <=> NodeBorn) /\ (EdgeCounts' <=> EdgeCounts)
    BY <2>7 DEF NodeBorn, EdgeCounts
  <2>9. EdgeHolds(h)'
    BY <1>4, <2>1, <2>7, <2>8, HoldsFrame
  <2>10. Seen(up, next)' /\ next[0] = Held' /\ next[Len(up)]' = h
    BY <1>4, <2>4, <2>5, <2>6 DEF Seen
  <2> QED
    BY <2>6, <2>9, <2>10 DEF ViewInv
<1>9. CASE HostMisses
  <2>1. up # << >> /\ up[1].type = "LOST"
    BY <1>1, <1>9, FirstEntry DEF HostMisses
  <2>2. Accepts(trace[0], up[1])
    BY <1>1, <1>3, <2>1, FirstEntry DEF Seen
  <2> QED
    BY <2>1, <2>2 DEF Accepts
<1>10. CASE EdgeConnects
  <2>1. /\ Connect /\ birth' # None /\ UNCHANGED <<nodeState, up, late_wills>> /\ ~ncmd'
    BY <1>10 DEF EdgeConnects, HostIdle, network
  <2>2. ConnectAndBirth /\ ~session.open
    BY <1>1, <2>1, Connects DEF Connect, ConnectStoreFails, ConnectRefused, ConnectSubscribeFails,
                                ConnectAndWait, MayConnect, Idle
  <2>3. ~NodeBorn /\ announced'[None] = None
    BY <2>2 DEF NodeBorn, ConnectAndBirth, Open, NothingAnnounced, Scopes
  <2>4. ~NodeBorn'
    BY <2>3 DEF NodeBorn
  <2>5. EdgeHolds(h)'
    BY <1>4, <2>1, <2>3, <2>4, HoldsFrame
  <2> QED
    BY <1>3, <1>4, <2>1, <2>5, ViewKept
<1>11. CASE EdgeGivesBirth \/ RequestReceived
  <2>1. /\ UNCHANGED <<nodeState, up, late_wills>> /\ ~ncmd'
        /\ CallPublishBirthSequence \/ HandleRebirth
    BY <1>11 DEF EdgeGivesBirth, RequestReceived, HostIdle, network
  <2>2. UNCHANGED <<session, announced>> /\ ~EdgeCounts'
    BY <2>1, BirthsStart DEF CallPublishBirthSequence, HandleRebirth, Quiet
  <2>3. NodeBorn' <=> NodeBorn
    BY <2>2 DEF NodeBorn
  <2>4. EdgeHolds(h)'
    BY <1>4, <2>1, <2>2, <2>3, HoldsFrame
  <2> QED
    BY <1>3, <1>4, <2>1, <2>4, ViewKept
<1>12. CASE EdgeFails
  <2>1. /\ ConnectionLost \/ Crash
        /\ UNCHANGED <<nodeState, up>> /\ ~ncmd'
        /\ late_wills' = IF session.open THEN late_wills \cup {session.will} ELSE late_wills
    BY <1>12 DEF EdgeFails, HostIdle
  <2>2. ~session'.open
    BY <1>1, <2>1, ConnectionEnds
  <2>3. ~NodeBorn'
    BY <2>2 DEF NodeBorn
  <2>4. late_wills \subseteq late_wills' /\ (NodeBorn => session.will \in late_wills')
    BY <2>1 DEF NodeBorn
  <2>5. EdgeHolds(h)'
    BY <1>4, <2>3, <2>4, HoldsFrame
  <2> QED
    BY <1>3, <1>4, <2>1, <2>5, ViewKept
<1>13. CASE RequestDropped \/ EdgeWindowEnds \/ HostWindowEnds
  <2>1. UNCHANGED <<nodeState, up, late_wills>> /\ ~ncmd' /\ (EdgeIdle \/ DebounceElapses)
    BY <1>13 DEF RequestDropped, EdgeWindowEnds, HostWindowEnds, HostIdle, SlotFreed, network
  <2>2. UNCHANGED <<session, announced, birth, lifecycle_ok, seq>>
    BY <2>1 DEF EdgeIdle, DebounceElapses, Quiet, fields
  <2>3. (NodeBorn' <=> NodeBorn) /\ (EdgeCounts' <=> EdgeCounts)
    BY <2>2 DEF NodeBorn, EdgeCounts
  <2>4. EdgeHolds(h)'
    BY <1>4, <2>1, <2>2, <2>3, HoldsFrame
  <2> QED
    BY <1>3, <1>4, <2>1, <2>4, ViewKept
<1>14. ~HostRestarts
  BY DEF HostRestarts
<1> QED
  BY <1>5, <1>6, <1>7, <1>8, <1>9, <1>10, <1>11, <1>12, <1>13, <1>14 DEF SessionNext

\* What holds as long as the two ends have nothing to complain of.
CalmInv == AliasInv /\ OpenInv /\ ViewInv /\ RebirthHasReason

LEMMA CalmInit == SessionInit => CalmInv
<1> SUFFICES ASSUME SessionInit
             PROVE  CalmInv
  OBVIOUS
<1>1. Init /\ HostInit /\ up = << >> /\ late_wills = {} /\ ~trouble
  BY DEF SessionInit
<1>2. AliasInv
  BY <1>1, AliasInvInit
<1>3. OpenInv
  BY <1>1 DEF Init, OpenInv, NoSession
<1>4. ViewInv
  <2>1. PICK h : h = Held
    OBVIOUS
  <2>2. h.online = FALSE /\ ~NodeBorn
    BY <1>1, <2>1, HeldFields DEF HostInit, Init, NoSession, NodeBorn
  <2>3. EdgeHolds(h)
    BY <2>2 DEF EdgeHolds
  <2>4. PICK trace : trace = [i \in {0} |-> h]
    OBVIOUS
  <2>5. trace[0] = h /\ Len(up) = 0 /\ DOMAIN up = {}
    BY <1>1, <2>4
  <2>6. Seen(up, trace) /\ trace[0] = Held /\ EdgeHolds(trace[Len(up)])
    BY <2>1, <2>3, <2>5 DEF Seen
  <2> QED
    BY <2>6 DEF ViewInv
<1>5. RebirthHasReason
  BY <1>1 DEF HostInit, RebirthHasReason
<1> QED
  BY <1>2, <1>3, <1>4, <1>5 DEF CalmInv

\* What the host does not change either is the numbering of the edge's aliases.
LEMMA SessionAliasStep ==
    ASSUME TypeOK, AnnouncedInv, AliasInv, \A c \in Configs : c.use_aliases => NamesApart,
           [SessionNext]_sessionVars
    PROVE  AliasInv'
<1>1. CASE [Next]_vars
  BY <1>1, AliasInvStep
<1>2. CASE EdgeIdle
  BY <1>2, WaitingKeeps DEF EdgeIdle, EngineWaits
<1> QED
  BY <1>1, <1>2, EdgeStep

LEMMA CalmStep ==
    ASSUME ~ReconnectWhileOpen, \A c \in Configs : ~c.gated, Nat \subseteq Aliases,
           \A c \in Configs : c.use_aliases => NamesApart,
           SInv, CalmInv, [SessionNext]_sessionVars
    PROVE  CalmInv'
<1>1. TypeOK /\ AnnouncedInv /\ AliasInv /\ OpenInv /\ ViewInv /\ RebirthHasReason
  BY DEF SInv, SessionTypeOK, CalmInv
<1>2. AliasInv'
  BY <1>1, SessionAliasStep
<1>3. OpenInv'
  BY <1>1, OpenStep
<1>4. CASE trouble'
  BY <1>2, <1>3, <1>4 DEF CalmInv, ViewInv, RebirthHasReason
<1>5. CASE ~trouble' /\ SessionNext
  BY <1>1, <1>2, <1>3, <1>5, ViewInvStep DEF CalmInv, RebirthHasReason
<1>6. CASE UNCHANGED sessionVars
  <2>1. UNCHANGED <<nodeState, up, late_wills, session, announced, birth, lifecycle_ok, seq,
                    trouble, ncmd>>
    BY <1>6 DEF sessionVars, vars, hostVars, nodeState, network, observers
  <2>2. ViewInv'
    <3>1. CASE ~trouble
      <4>1. PICK trace : Seen(up, trace) /\ trace[0] = Held /\ EdgeHolds(trace[Len(up)])
        BY <1>1, <3>1 DEF ViewInv
      <4>2. PICK h : h = trace[Len(up)] /\ EdgeHolds(h)
        BY <4>1
      <4>3. (NodeBorn' <=> NodeBorn) /\ (EdgeCounts' <=> EdgeCounts)
        BY <2>1 DEF NodeBorn, EdgeCounts
      <4>4. EdgeHolds(h)'
        BY <2>1, <4>2, <4>3, HoldsFrame
      <4> QED
        BY <2>1, <4>1, <4>2, <4>4, ViewKept
    <3>2. CASE trouble
      BY <2>1, <3>2 DEF ViewInv
    <3> QED
      BY <3>1, <3>2
  <2> QED
    BY <1>1, <1>2, <1>3, <2>1, <2>2 DEF CalmInv, RebirthHasReason
<1> QED
  BY <1>4, <1>5, <1>6

LEMMA CalmInvariant ==
    ASSUME ~ReconnectWhileOpen, \A c \in Configs : ~c.gated, Nat \subseteq Aliases,
           \A c \in Configs : c.use_aliases => NamesApart
    PROVE  SessionSpec => [](SInv /\ CalmInv)
<1>1. SessionInit => SInv /\ CalmInv
  BY SInvInit, CalmInit
<1>2. SInv /\ CalmInv /\ [SessionNext]_sessionVars => (SInv /\ CalmInv)'
  BY SInvStep, CalmStep
<1> QED
  BY <1>1, <1>2, PTL DEF SessionSpec

\* As long as no message is lost, no call fails and the host does not restart, it
\* never asks for a rebirth, whatever the number of devices, connections, crashes
\* and late wills: every message finds it with the session, the devices, the
\* number and the names that the message needs (rebirth, publish_birth_sequence).
\* The names of the node and of its devices must differ, as run edge_shared_names
\* shows, and the host must be able to hold the aliases the edge hands out.
THEOREM RebirthHasReasonHolds ==
    ASSUME ~ReconnectWhileOpen, \A c \in Configs : ~c.gated, Nat \subseteq Aliases,
           \A c \in Configs : c.use_aliases => NamesApart
    PROVE  SessionSpec => []RebirthHasReason
<1>1. CalmInv => RebirthHasReason
  BY DEF CalmInv
<1> QED
  BY <1>1, CalmInvariant, PTL

\* When every message has arrived and nothing went wrong, the host's picture is
\* the edge's: the node, its connection, its devices and the number that is due
\* (on_node_birth and the others against EdgeNode's fields).
THEOREM AgreementHolds ==
    ASSUME ~ReconnectWhileOpen, \A c \in Configs : ~c.gated, Nat \subseteq Aliases,
           \A c \in Configs : c.use_aliases => NamesApart
    PROVE  SessionSpec => []Agreement
<1>1. SInv /\ CalmInv => Agreement
  <2>1. SUFFICES ASSUME SInv, CalmInv, ~trouble, up = << >>, late_wills = {}, Idle
                 PROVE  /\ online <=> session.open
                        /\ online => /\ node_bd_seq = session.will
                                     /\ expected_seq = seq
                                     /\ OnlineDevices = born_devices
    BY DEF Agreement
  <2>2. TypeOK /\ AnnouncedInv /\ OpenInv /\ ViewInv /\ online \in BOOLEAN /\ birth = None
    BY <2>1 DEF SInv, SessionTypeOK, HostTypeOK, CalmInv, Idle
  <2>3. PICK trace : Seen(up, trace) /\ trace[0] = Held /\ EdgeHolds(trace[Len(up)])
    BY <2>1, <2>2 DEF ViewInv
  <2>4. PICK h : h = Held /\ EdgeHolds(h)
    <3>1. Len(up) = 0
      BY <2>1
    <3> QED
      BY <2>3, <3>1
  <2>5. h.online = online /\ h.bd = node_bd_seq /\ h.next = expected_seq /\ h.alive = OnlineDevices
    BY <2>4, HeldFields
  <2>6. session.open => NodeBorn /\ EdgeCounts /\ lifecycle_ok
    BY <2>1, <2>2 DEF OpenInv, NodeBorn, EdgeCounts
  <2>7. online => NodeBorn
    BY <2>1, <2>4, <2>5 DEF EdgeHolds
  <2>8. NodeBorn => {d \in Devices : announced[d] # None} = born_devices
    BY <2>1, <2>2, <2>6 DEF OpenInv, AnnouncedInv, DevicesAnnounced, TypeOK, NodeBorn
  <2>9. NodeBorn => session.open
    BY DEF NodeBorn
  <2> QED
    BY <2>2, <2>4, <2>5, <2>6, <2>7, <2>8, <2>9, CountsWith
<1> QED
  BY <1>1, CalmInvariant, PTL
-----------------------------------------------------------------------------
(* What the application behind the host is shown. *)

\* Every DBIRTH on its way has an alias of its own for each metric.
SoundQueue == \A i \in DOMAIN up : up[i].type = "DBIRTH" => ~DuplicateAlias(up[i].metrics)

LEMMA DeviceBirthSound ==
    ASSUME TypeOK, Publish, NEW m, out' = <<m>>, m.type = "DBIRTH"
    PROVE  ~DuplicateAlias(m.metrics)
<1>1. CASE PublishDeviceBirth
  <2>1. PICK d \in Devices : d = DeviceList[birth.at]
    <3>1. birth.at \in 1 .. Len(DeviceList)
      BY <1>1, BirthAssumption DEF TypeOK, BirthProgress, PublishDeviceBirth, Idle
    <3> QED
      BY <3>1, SparkplugAssumption
  <2>2. PICK metrics : metrics = Aliased(DeviceMetrics[d], next_alias)
    OBVIOUS
  <2>3. PICK n : n = Sequenced("DBIRTH", d, seq, metrics)
    OBVIOUS
  <2>4. Send(n)
    BY <1>1, <2>1, <2>2, <2>3 DEF PublishDeviceBirth, Quiet
  <2>5. m.metrics = metrics
    BY <2>3, <2>4, SentIs DEF Sequenced
  <2> QED
    BY <2>2, <2>5, AliasedApart, EdgeNodeAssumption DEF TypeOK
<1>2. CASE PublishNodeBirth
  BY <1>2 DEF PublishNodeBirth, Send, Quiet, NodeBirth
<1>3. CASE PublishNodeData
  BY <1>3 DEF PublishNodeData, Send, Quiet, Sequenced
<1>4. ASSUME NEW d \in Devices, PublishDeviceData(d)
      PROVE  FALSE
  BY <1>4 DEF PublishDeviceData, Send, Quiet, Sequenced
<1>5. ASSUME NEW d \in Devices, PublishDeviceDeath(d)
      PROVE  FALSE
  BY <1>5 DEF PublishDeviceDeath, Send, Quiet, Sequenced
<1> QED
  BY <1>1, <1>2, <1>3, <1>4, <1>5 DEF Publish

LEMMA SoundJoined ==
    ASSUME up \in Seq(Entry), SoundQueue, NEW e \in Entry, up' = Append(up, e),
           e.type = "DBIRTH" => ~DuplicateAlias(e.metrics)
    PROVE  SoundQueue'
<1>1. SUFFICES ASSUME NEW i \in DOMAIN up', up'[i].type = "DBIRTH"
               PROVE  ~DuplicateAlias(up'[i].metrics)
  BY DEF SoundQueue
<1>2. /\ DOMAIN up = 1 .. Len(up) /\ i \in 1 .. Len(up) + 1 /\ Len(up) \in Nat
      /\ up'[Len(up) + 1] = e /\ \A j \in 1 .. Len(up) : up'[j] = up[j]
  BY <1>1, Joined
<1>3. CASE i = Len(up) + 1
  BY <1>1, <1>2, <1>3
<1>4. CASE i \in 1 .. Len(up)
  BY <1>1, <1>2, <1>4 DEF SoundQueue
<1> QED
  BY <1>2, <1>3, <1>4

LEMMA SoundQueueStep ==
    ASSUME SInv, SoundQueue, [SessionNext]_sessionVars
    PROVE  SoundQueue'
<1>1. SessionTypeOK /\ SessionInv /\ TypeOK /\ up \in Seq(Entry)
  BY DEF SInv, SessionTypeOK
<1>2. CASE up' = up
  BY <1>2 DEF SoundQueue
<1>3. CASE PublishSequenced
  <2>1. CASE out' # << >> /\ Enqueue(out'[1])
    <3>1. PICK m \in WellFormed : out' = <<m>>
      BY <1>1, <1>3, <2>1, SequencedSent DEF PublishSequenced
    <3>2. m \in Entry /\ up' = Append(up, m)
      BY <2>1, <3>1, EntryTypes DEF Enqueue
    <3>3. m.type = "DBIRTH" => ~DuplicateAlias(m.metrics)
      BY <1>1, <1>3, <3>1, DeviceBirthSound DEF PublishSequenced
    <3> QED
      BY <1>1, <3>2, <3>3, SoundJoined
  <2>2. ASSUME NEW b \in BOOLEAN, Enqueue(Hole(b))
        PROVE  SoundQueue'
    <3>1. PICK e : e = Hole(b)
      OBVIOUS
    <3>2. e \in Entry /\ e.type = "LOST" /\ up' = Append(up, e)
      BY <2>2, <3>1, EntryTypes DEF Enqueue
    <3> QED
      BY <1>1, <3>2, SoundJoined
  <2>3. (birth # None /\ birth.at = 0) \in BOOLEAN
    OBVIOUS
  <2> QED
    BY <1>2, <1>3, <2>1, <2>2, <2>3 DEF PublishSequenced
<1>4. CASE PublishDeath \/ PublishWill
  <2>1. up' = up \/ \E b \in BdSeqs : up' = Append(up, NodeDeath(b))
    <3>1. bd_seq \in BdSeqs /\ late_wills \subseteq BdSeqs
      BY <1>1 DEF SessionTypeOK, TypeOK
    <3>2. CASE PublishDeath
      BY <1>1, <3>1, <3>2, DeathQueued
    <3>3. CASE PublishWill
      BY <3>1, <3>3 DEF PublishWill, Enqueue
    <3> QED
      BY <1>4, <3>2, <3>3
  <2>2. ASSUME NEW b \in BdSeqs, up' = Append(up, NodeDeath(b))
        PROVE  SoundQueue'
    <3>1. PICK e : e = NodeDeath(b)
      OBVIOUS
    <3>2. e \in Entry /\ e.type = "NDEATH" /\ up' = Append(up, e)
      BY <2>2, <3>1, EntryTypes
    <3> QED
      BY <1>1, <3>2, SoundJoined
  <2> QED
    BY <1>2, <2>1, <2>2
<1>5. CASE HostReceives \/ HostMisses
  <2>1. up # << >> /\ up' = Tail(up)
    BY <1>5 DEF HostReceives, HostMisses
  <2>2. /\ DOMAIN up = 1 .. Len(up) /\ DOMAIN up' = 1 .. Len(up) - 1 /\ Len(up) \in Nat
        /\ \A i \in 1 .. Len(up) - 1 : up'[i] = up[i + 1]
    BY <1>1, <2>1, Left
  <2>3. \A i \in 1 .. Len(up) - 1 : i + 1 \in 1 .. Len(up)
    BY <2>2
  <2> QED
    BY <2>2, <2>3 DEF SoundQueue
<1>6. CASE EdgeConnects \/ EdgeGivesBirth \/ EdgeFails \/ HostRestarts \/ RequestReceived
           \/ RequestDropped \/ EdgeWindowEnds \/ HostWindowEnds \/ UNCHANGED sessionVars
  BY <1>2, <1>6 DEF EdgeConnects, EdgeGivesBirth, EdgeFails, HostRestarts, RequestReceived,
                    RequestDropped, EdgeWindowEnds, HostWindowEnds, sessionVars, network
<1> QED
  BY <1>3, <1>4, <1>5, <1>6 DEF SessionNext

\* What the host does in a step of the session, the consumer's view allows.
LEMMA SessionViewStep ==
    ASSUME SInv, SoundQueue, [SessionNext]_sessionVars
    PROVE  [View!ViewNext]_(View!viewVars)
<1>1. HInv /\ up \in Seq(Entry)
  BY DEF SInv, SessionTypeOK, HInv
<1>2. CASE HostIdle \/ SlotFreed
  <2>1. View!Silent /\ UNCHANGED nodeState
    BY <1>2 DEF HostIdle, SlotFreed, Nothing, View!Silent
  <2> QED
    BY <2>1, UnseenQuiet DEF View!ViewNext
<1>3. CASE Restart
  BY <1>3 DEF Restart, Nothing, View!ViewNext, View!Break, View!Silent, Alive
<1>4. CASE up # << >> /\ Head(up).type # "LOST" /\ HandleIncoming(Head(up))
  <2>1. PICK m : m = Head(up)
    OBVIOUS
  <2>2. m = up[1] /\ m \in WellFormed /\ HandleIncoming(m) /\ 1 \in DOMAIN up
    <3>1. m = up[1] /\ m \in WellFormed
      BY <1>1, <1>4, <2>1, FirstEntry
    <3>2. 1 \in DOMAIN up
      BY <1>1, <1>4, EmptySeq
    <3> QED
      BY <1>4, <2>1, <3>1, <3>2
  <2>3. m.type = "DBIRTH" => ~DuplicateAlias(m.metrics)
    BY <2>2 DEF SoundQueue
  <2> QED
    BY <1>1, <2>2, <2>3, HandleView
<1>5. CASE UNCHANGED hostVars
  BY <1>5 DEF hostVars, View!viewVars, Alive, NamesKnown, OnlineDevices
<1> QED
  BY <1>2, <1>3, <1>4, <1>5, HostStep DEF HostPart

\* Behind this edge the host keeps its promise to the application without any
\* condition on the messages: over lost messages, late wills, crashes and
\* reconnects, no data is shown of what is not alive or not listed in its birth.
\* That no DBIRTH uses an alias twice, HostImplementsView's hypothesis, is what
\* the edge's counter of aliases brings about (next_alias, assign_aliases).
THEOREM SessionImplementsView ==
    ASSUME ~ReconnectWhileOpen, \A c \in Configs : ~c.gated
    PROVE  SessionSpec => ViewImplemented
<1>1. SessionInit => View!ViewInit /\ SoundQueue
  <2>1. ASSUME SessionInit PROVE SoundQueue
    BY <2>1 DEF SessionInit, SoundQueue
  <2> QED
    BY <2>1, ViewStart DEF SessionInit
<1>2. SInv /\ SoundQueue /\ [SessionNext]_sessionVars =>
          SoundQueue' /\ [View!ViewNext]_(View!viewVars)
  BY SoundQueueStep, SessionViewStep
<1> QED
  BY <1>1, <1>2, SInvariant, PTL DEF SessionSpec, ViewImplemented, View!ViewSpec
-----------------------------------------------------------------------------
(* What the edge keeps of its own. *)

\* The session runs the edge engine unchanged, whatever the host asks for and
\* whenever (EdgeNode, HostApplication).
THEOREM SessionRunsEdge == SessionSpec => JoinedSpec
<1>1. SessionInit => Init
  BY DEF SessionInit
<1>2. [SessionNext]_sessionVars => [Next \/ EngineWaits]_vars
  BY EdgeStep DEF EdgeIdle, EngineWaits
<1> QED
  BY <1>1, <1>2, PTL DEF SessionSpec, JoinedSpec

\* So the edge keeps in the session what it keeps alone: births and deaths carry
\* the connection's bdSeq, the next one's differs from it, and data follows its
\* birth (connect, publish_birth_sequence, handle_incoming of a request).
THEOREM SessionKeepsEdge ==
    ASSUME ~ReconnectWhileOpen
    PROVE  SessionSpec => [](SessionBdSeq /\ RestartWillDiffers /\ DataAnnounced)
BY SessionRunsEdge, JoinedKeepsBdSeq, JoinedKeepsAnnounced, PTL

\* And the keys of its data lead back to the births it published, whenever a
\* rebirth comes between them (assign_aliases, to_data_metrics).
THEOREM SessionKeepsResolvable ==
    ASSUME \A c \in Configs : c.use_aliases => NamesApart
    PROVE  SessionSpec => []DataResolvable
BY SessionRunsEdge, JoinedKeepsResolvable, PTL
=============================================================================
