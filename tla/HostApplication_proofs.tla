----------------------- MODULE HostApplication_proofs -----------------------
(***************************************************************************)
(* Proofs about HostApplication: type correctness, and that the engine     *)
(* implements ConsumerView as long as no DBIRTH uses an alias twice.       *)
(***************************************************************************)
EXTENDS HostApplication, TLAPS
-----------------------------------------------------------------------------
(* A strengthening of HostTypeOK that the refinement needs. *)

\* Every name an alias stands for is a name the birth listed.
RegistryInv(registry) ==
    \A a \in Aliases :
        registry.name_of[a] # None => registry.name_of[a] \in registry.names

RegistriesInv ==
    /\ RegistryInv(node_aliases)
    /\ \A d \in Devices : RegistryInv(devices[d].aliases)
-----------------------------------------------------------------------------
\* Facts about the constants that most leaves need.
LEMMA HostConstants ==
    /\ None \notin Devices
    /\ None \notin Names
    /\ None \notin Nat
    /\ Aliases \subseteq Nat
    /\ SeqMod \in Nat \ {0, 1}
  BY SparkplugAssumption, HostAssumption

-----------------------------------------------------------------------------
(* The alias registry. *)

\* The owner of an alias is a name of the birth, or there is none.
LEMMA OwnerType ==
  ASSUME NEW metrics \in Seq(Metric), NEW a
  PROVE  /\ Owner(metrics, a) \in Names \cup {None}
         /\ Owner(metrics, a) # None =>
              \E i \in DOMAIN metrics :
                 metrics[i].alias = a /\ metrics[i].name = Owner(metrics, a)
<1>1. CASE \E i \in DOMAIN metrics : Claims(metrics, a, i)
  <2> DEFINE first == CHOOSE i \in DOMAIN metrics : Claims(metrics, a, i)
  <2>1. first \in DOMAIN metrics /\ Claims(metrics, a, first)
    BY <1>1
  <2>2. Owner(metrics, a) = metrics[first].name
    BY <1>1 DEF Owner
  <2>3. metrics[first] \in Metric
    BY <2>1
  <2>4. metrics[first].name \in Names \cup {None} /\ metrics[first].alias = a
    BY <2>1, <2>3 DEF Metric, Claims
  <2> QED
    BY <2>1, <2>2, <2>4
<1>2. CASE ~\E i \in DOMAIN metrics : Claims(metrics, a, i)
  BY <1>2 DEF Owner
<1> QED
  BY <1>1, <1>2

\* Binding the metrics of a birth gives a registry that lists what its aliases
\* stand for.
LEMMA BoundType ==
  ASSUME NEW metrics \in Seq(Metric)
  PROVE  Bound(metrics) \in Registry /\ RegistryInv(Bound(metrics))
<1>1. Bound(metrics).names \subseteq Names
  BY DEF Bound
<1>2. Bound(metrics).name_of \in [Aliases -> Names \cup {None}]
  BY OwnerType DEF Bound
<1>3. Bound(metrics) \in Registry
  BY <1>1, <1>2 DEF Bound, Registry
<1>4. ASSUME NEW a \in Aliases, Bound(metrics).name_of[a] # None
      PROVE  Bound(metrics).name_of[a] \in Bound(metrics).names
  <2>1. Bound(metrics).name_of[a] = Owner(metrics, a)
    BY DEF Bound
  <2>2. PICK i \in DOMAIN metrics :
               metrics[i].alias = a /\ metrics[i].name = Owner(metrics, a)
    BY <1>4, <2>1, OwnerType
  <2>3. ~IsDuplicate(metrics, metrics[i])
    BY <2>2 DEF IsDuplicate
  <2>4. Owner(metrics, a) \in Names
    BY <1>4, <2>1, OwnerType
  <2> QED
    BY <2>1, <2>2, <2>3, <2>4 DEF Bound
<1> QED
  BY <1>3, <1>4 DEF RegistryInv

\* A birth without a duplicate alias has all its names bound.
LEMMA BoundNames ==
  ASSUME NEW metrics \in Seq(Metric), ~DuplicateAlias(metrics)
  PROVE  Bound(metrics).names = {metrics[i].name : i \in DOMAIN metrics} \ {None}
<1>1. \A i \in DOMAIN metrics : ~IsDuplicate(metrics, metrics[i])
  BY DEF DuplicateAlias
<1>2. \A i \in DOMAIN metrics : metrics[i] \in Metric
  OBVIOUS
<1>3. \A i \in DOMAIN metrics : metrics[i].name \in Names \cup {None}
  BY <1>2 DEF Metric
<1> QED
  BY <1>1, <1>3, HostConstants DEF Bound

\* The names in a decoded data message are names of its registry, but for the
\* metrics that bring their own datatype.
LEMMA ResolvedType ==
  ASSUME NEW registry \in Registry, RegistryInv(registry),
         NEW metrics \in Seq(Metric), Decodes(registry, metrics)
  PROVE  /\ Resolved(registry, metrics) \in Seq(Metric)
         /\ View!Recovered(Resolved(registry, metrics)) \subseteq registry.names
<1> DEFINE r == Resolved(registry, metrics)
<1>1. ASSUME NEW i \in DOMAIN metrics
      PROVE  r[i] \in Metric /\ (r[i].typed \/ r[i].name \in registry.names)
  <2>1. metrics[i] \in Metric /\ HasType(registry, metrics[i])
    BY DEF Decodes
  <2>2. CASE metrics[i].name # None
    BY <2>1, <2>2 DEF Resolved, HasType, Known
  <2>3. CASE metrics[i].name = None
    <3> DEFINE n == NameOf(registry, metrics[i])
    <3>1. n \in Names \cup {None} /\ (n # None => n \in registry.names)
      BY DEF NameOf, RegistryInv, Registry
    <3>2. metrics[i].typed \/ n # None
      BY <2>1, <2>3 DEF HasType, Known
    <3>3. r[i] = [metrics[i] EXCEPT !.name = n]
      BY <2>3 DEF Resolved
    <3> HIDE DEF n, r
    <3>4. r[i] \in Metric /\ r[i].name = n /\ r[i].typed = metrics[i].typed
      BY <2>1, <3>1, <3>3 DEF Metric
    <3> QED
      BY <3>1, <3>2, <3>4
  <2> QED
    BY <2>2, <2>3
<1>2. PICK n \in Nat : DOMAIN metrics = 1 .. n
  OBVIOUS
<1>3. DOMAIN r = 1 .. n
  BY <1>2 DEF Resolved
<1>4. r \in [1 .. n -> Metric]
  <2>1. r = [i \in 1 .. n |-> r[i]]
    BY <1>2 DEF Resolved
  <2> QED
    BY <1>1, <1>2, <2>1
<1> QED
  BY <1>1, <1>2, <1>3, <1>4 DEF View!Recovered

LEMMA EmptyRegistryType == EmptyRegistry \in Registry /\ RegistryInv(EmptyRegistry)
  BY DEF EmptyRegistry, Registry, RegistryInv
-----------------------------------------------------------------------------
(* Type correctness. *)

LEMMA NothingType ==
  ASSUME NEW kind \in EventKind
  PROVE  Nothing(kind) \in Event
  BY DEF Nothing, Event, Scopes

\* What an event is once its device, bdSeq, devices or metrics are filled in.
LEMMA EventType ==
  ASSUME NEW kind \in EventKind, NEW d \in Scopes, NEW b \in BdSeqs \cup {None},
         NEW ds \in SUBSET Devices, NEW metrics \in Seq(Metric)
  PROVE  /\ [Nothing(kind) EXCEPT !.device = d] \in Event
         /\ [Nothing(kind) EXCEPT !.metrics = metrics] \in Event
         /\ [Nothing(kind) EXCEPT !.device = d, !.metrics = metrics] \in Event
         /\ [Nothing(kind) EXCEPT !.bdSeq = b, !.metrics = metrics] \in Event
         /\ [Nothing(kind) EXCEPT !.bdSeq = b, !.devices = ds] \in Event
<1>1. Nothing(kind) \in Event
  BY NothingType
<1>2. \A e \in Event : [e EXCEPT !.device = d] \in Event
  BY DEF Event
<1>3. \A e \in Event : [e EXCEPT !.metrics = metrics] \in Event
  BY DEF Event
<1>4. \A e \in Event : [e EXCEPT !.device = d, !.metrics = metrics] \in Event
  BY DEF Event
<1>5. \A e \in Event : [e EXCEPT !.bdSeq = b, !.metrics = metrics] \in Event
  BY DEF Event
<1>6. \A e \in Event : [e EXCEPT !.bdSeq = b, !.devices = ds] \in Event
  BY DEF Event
<1> QED
  BY <1>1, <1>2, <1>3, <1>4, <1>5, <1>6

LEMMA RequestType ==
  ASSUME slot_taken \in BOOLEAN, RequestRebirth
  PROVE  slot_taken' \in BOOLEAN /\ event' \in Event /\ ncmd' \in BOOLEAN
<1>1. \A k \in {"Ignored", "RebirthRequested", "Error"} : Nothing(k) \in Event
  BY NothingType DEF EventKind
<1> QED
  BY <1>1 DEF RequestRebirth

\* What a handler is given.
LEMMA InputType ==
  ASSUME NEW m \in WellFormed
  PROVE  /\ m.type \in MessageType
         /\ m.device \in Scopes
         /\ m.type \in {"DBIRTH", "DDATA", "DDEATH"} => m.device \in Devices
         /\ m.seq \in Seqs \cup {None}
         /\ m.bdSeq \in BdSeqs \cup {None}
         /\ m.metrics \in Seq(Metric)
<1>1. m \in Message
  BY DEF WellFormed
<1>2. m.type \in {"DBIRTH", "DDATA", "DDEATH"} => m.device # None
  BY DEF WellFormed
<1> QED
  BY <1>1, <1>2 DEF Message, Scopes

LEMMA WrapType ==
  ASSUME NEW n \in Seqs \cup {None}
  PROVE  AfterBirth(n) \in Seqs /\ (n # None => WrapInc(n, SeqMod) \in Seqs)
  BY HostConstants DEF AfterBirth, WrapInc, Seqs

\* What the invariant says, and what it says of the registries.
HInv == HostTypeOK /\ RegistriesInv

LEMMA NoDevicesType ==
  /\ NoDevices \in [Devices -> [online : BOOLEAN, aliases : Registry]]
  /\ \A d \in Devices : RegistryInv(NoDevices[d].aliases)
  BY EmptyRegistryType DEF NoDevices

LEMMA HostInitInv == HostInit => HInv
<1>1. Nothing("Ignored") \in Event
  BY NothingType DEF EventKind
<1>2. 0 \in Seqs
  BY HostConstants DEF Seqs
<1> QED
  BY <1>1, <1>2, NoDevicesType, EmptyRegistryType
  DEF HostInit, HInv, HostTypeOK, RegistriesInv

LEMMA RestartInv == Restart => HInv'
<1>1. Nothing("Ignored") \in Event
  BY NothingType DEF EventKind
<1>2. 0 \in Seqs
  BY HostConstants DEF Seqs
<1> QED
  BY <1>1, <1>2, NoDevicesType, EmptyRegistryType
  DEF Restart, HInv, HostTypeOK, RegistriesInv

LEMMA InvalidateInv == HInv /\ Invalidate => HInv'
<1> SUFFICES ASSUME HInv, Invalidate PROVE HInv'
  OBVIOUS
<1>1. slot_taken' \in BOOLEAN /\ event' \in Event /\ ncmd' \in BOOLEAN
  BY RequestType DEF Invalidate, HInv, HostTypeOK
<1> QED
  BY <1>1 DEF Invalidate, HInv, HostTypeOK, RegistriesInv

LEMMA NodeBirthInv ==
  ASSUME HInv, NEW m \in WellFormed, m.type = "NBIRTH", OnNodeBirth(m)
  PROVE  HInv'
<1>1. /\ Bound(m.metrics) \in Registry /\ RegistryInv(Bound(m.metrics))
      /\ AfterBirth(m.seq) \in Seqs
  BY BoundType, InputType, WrapType
<1>2. slot_taken' \in BOOLEAN /\ event' \in Event /\ ncmd' \in BOOLEAN
  <2>1. CASE DuplicateAlias(m.metrics)
    BY <2>1, RequestType DEF OnNodeBirth, HInv, HostTypeOK
  <2>2. CASE ~DuplicateAlias(m.metrics)
    BY <2>2, InputType
    DEF OnNodeBirth, Report, Nothing, Event, EventKind, Scopes, HInv, HostTypeOK
  <2> QED
    BY <2>1, <2>2
<1>3. online' \in BOOLEAN /\ corrupt' \subseteq Scopes
  BY DEF OnNodeBirth, Scopes, DuplicateAlias
<1> QED
  BY <1>1, <1>2, <1>3, InputType, NoDevicesType
  DEF OnNodeBirth, HInv, HostTypeOK, RegistriesInv

LEMMA NodeDataInv ==
  ASSUME HInv, NEW m \in WellFormed, OnNodeData(m)
  PROVE  HInv'
<1>1. CASE Invalidate
  BY <1>1, InvalidateInv
<1>2. CASE ~Invalidate
  <2>1. Resolved(node_aliases, m.metrics) \in Seq(Metric)
    BY <1>2, ResolvedType, InputType DEF OnNodeData, HInv, HostTypeOK, RegistriesInv
  <2>2. expected_seq' \in Seqs
    BY <1>2, WrapType, HostConstants DEF OnNodeData, Advance, HInv, HostTypeOK, Seqs
  <2>3. event' \in Event
    BY <1>2, <2>1 DEF OnNodeData, Report, Nothing, Event, EventKind, Scopes
  <2> QED
    BY <1>2, <2>2, <2>3 DEF OnNodeData, Report, HInv, HostTypeOK, RegistriesInv
<1> QED
  BY <1>1, <1>2

LEMMA NodeDeathInv ==
  ASSUME HInv, NEW m \in WellFormed, OnNodeDeath(m)
  PROVE  HInv'
<1> DEFINE dead == [d \in Devices |-> [devices[d] EXCEPT !.online = FALSE]]
<1>1. /\ dead \in [Devices -> [online : BOOLEAN, aliases : Registry]]
      /\ \A d \in Devices : RegistryInv(dead[d].aliases)
  BY DEF HInv, HostTypeOK, RegistriesInv
<1>2. event' \in Event
  <2>1. OnlineDevices \in SUBSET Devices /\ None \in Scopes
    BY DEF OnlineDevices, Scopes
  <2>2. /\ [Nothing("NodeDeath") EXCEPT !.bdSeq = m.bdSeq, !.devices = OnlineDevices] \in Event
        /\ Nothing("Ignored") \in Event
    BY <2>1, InputType, EventType, NothingType DEF EventKind
  <2> QED
    BY <2>2 DEF OnNodeDeath, Report
<1> QED
  BY <1>1, <1>2 DEF OnNodeDeath, Report, HInv, HostTypeOK, RegistriesInv, nodeState

LEMMA DeviceBirthInv ==
  ASSUME HInv, NEW m \in WellFormed, m.device \in Devices, OnDeviceBirth(m)
  PROVE  HInv'
<1>1. CASE Invalidate
  BY <1>1, InvalidateInv
<1>2. CASE ~Invalidate
  <2>1. Bound(m.metrics) \in Registry /\ RegistryInv(Bound(m.metrics))
    BY BoundType, InputType
  <2>2. expected_seq' \in Seqs
    BY <1>2, WrapType, HostConstants DEF OnDeviceBirth, Advance, HInv, HostTypeOK, Seqs
  <2>3. slot_taken' \in BOOLEAN /\ event' \in Event /\ ncmd' \in BOOLEAN
    <3>1. CASE DuplicateAlias(m.metrics)
      BY <1>2, <3>1, RequestType DEF OnDeviceBirth, HInv, HostTypeOK
    <3>2. CASE ~DuplicateAlias(m.metrics)
      <4>1. [Nothing("DeviceBirth") EXCEPT !.device = m.device, !.metrics = m.metrics]
              \in Event
        BY InputType, EventType DEF EventKind
      <4> QED
        BY <1>2, <3>2, <4>1 DEF OnDeviceBirth, Report, HInv, HostTypeOK
    <3> QED
      BY <3>1, <3>2
  <2>4. /\ devices' \in [Devices -> [online : BOOLEAN, aliases : Registry]]
        /\ \A d \in Devices : RegistryInv(devices'[d].aliases)
    <3>1. devices' = [devices EXCEPT ![m.device] =
                        [online |-> TRUE, aliases |-> Bound(m.metrics)]]
      BY <1>2 DEF OnDeviceBirth
    <3>2. devices' \in [Devices -> [online : BOOLEAN, aliases : Registry]]
      BY <2>1, <3>1 DEF HInv, HostTypeOK
    <3>3. ASSUME NEW d \in Devices PROVE RegistryInv(devices'[d].aliases)
      <4>1. CASE d = m.device
        BY <2>1, <3>1, <4>1 DEF HInv, HostTypeOK
      <4>2. CASE d # m.device
        BY <3>1, <4>2 DEF HInv, HostTypeOK, RegistriesInv
      <4> QED
        BY <4>1, <4>2
    <3> QED
      BY <3>2, <3>3
  <2>5. corrupt' \subseteq Scopes
    BY <1>2 DEF OnDeviceBirth, HInv, HostTypeOK, Scopes
  <2> QED
    BY <1>2, <2>2, <2>3, <2>4, <2>5 DEF OnDeviceBirth, HInv, HostTypeOK, RegistriesInv
<1> QED
  BY <1>1, <1>2

LEMMA DeviceDataInv ==
  ASSUME HInv, NEW m \in WellFormed, m.device \in Devices, OnDeviceData(m)
  PROVE  HInv'
<1> DEFINE device == devices[m.device]
<1>1. CASE Invalidate
  BY <1>1, InvalidateInv
<1>2. CASE ~Invalidate /\ online /\ device.online
  <2>1. Resolved(device.aliases, m.metrics) \in Seq(Metric)
    BY <1>2, ResolvedType, InputType DEF OnDeviceData, HInv, HostTypeOK, RegistriesInv
  <2>2. expected_seq' \in Seqs
    <3>1. expected_seq' = WrapInc(expected_seq, SeqMod)
      BY <1>2 DEF OnDeviceData, Advance
    <3>2. expected_seq \in Seqs /\ expected_seq # None
      BY HostConstants DEF HInv, HostTypeOK, Seqs
    <3> QED
      BY <3>1, <3>2, WrapType
  <2>3. event' \in Event
    BY <1>2, <2>1 DEF OnDeviceData, Report, Nothing, Event, EventKind, Scopes
  <2> QED
    BY <1>2, <2>2, <2>3 DEF OnDeviceData, Report, HInv, HostTypeOK, RegistriesInv
<1>3. CASE ~Invalidate /\ ~(online /\ device.online)
  <2>1. slot_taken' \in BOOLEAN /\ event' \in Event /\ ncmd' \in BOOLEAN
    BY <1>3, RequestType DEF OnDeviceData, HInv, HostTypeOK
  <2> QED
    BY <1>3, <2>1 DEF OnDeviceData, HInv, HostTypeOK, RegistriesInv, nodeState
<1> QED
  BY <1>1, <1>2, <1>3

LEMMA DeviceDeathInv ==
  ASSUME HInv, NEW m \in WellFormed, m.device \in Devices, OnDeviceDeath(m)
  PROVE  HInv'
<1>1. CASE Invalidate
  BY <1>1, InvalidateInv
<1>2. CASE ~Invalidate
  <2>1. expected_seq' \in Seqs
    BY <1>2, WrapType, HostConstants DEF OnDeviceDeath, Advance, HInv, HostTypeOK, Seqs
  <2>2. event' \in Event
    <3>1. [Nothing("DeviceDeath") EXCEPT !.device = m.device] \in Event
      BY InputType, EventType DEF EventKind
    <3> QED
      BY <1>2, <3>1 DEF OnDeviceDeath, Report
  <2>3. /\ devices' \in [Devices -> [online : BOOLEAN, aliases : Registry]]
        /\ \A d \in Devices : RegistryInv(devices'[d].aliases)
    BY <1>2 DEF OnDeviceDeath, HInv, HostTypeOK, RegistriesInv
  <2> QED
    BY <1>2, <2>1, <2>2, <2>3
    DEF OnDeviceDeath, Report, HInv, HostTypeOK, RegistriesInv
<1> QED
  BY <1>1, <1>2

LEMMA SlotFreedInv == HInv /\ SlotFreed => HInv'
<1>1. Nothing("Ignored") \in Event
  BY NothingType DEF EventKind
<1> QED
  BY <1>1 DEF SlotFreed, HInv, HostTypeOK, RegistriesInv, nodeState

\* Whatever a handler is given, it leaves the state and the event well typed.
LEMMA HandleInv ==
  ASSUME HInv, NEW m \in WellFormed, HandleIncoming(m)
  PROVE  HInv'
<1>1. CASE m.type = "NBIRTH" /\ OnNodeBirth(m)
  BY <1>1, NodeBirthInv
<1>2. CASE m.type = "NDATA" /\ OnNodeData(m)
  BY <1>2, NodeDataInv
<1>3. CASE m.type = "NDEATH" /\ OnNodeDeath(m)
  BY <1>3, NodeDeathInv
<1>4. CASE m.type = "DBIRTH" /\ OnDeviceBirth(m)
  BY <1>4, DeviceBirthInv, InputType
<1>5. CASE m.type = "DDATA" /\ OnDeviceData(m)
  BY <1>5, DeviceDataInv, InputType
<1>6. CASE m.type = "DDEATH" /\ OnDeviceDeath(m)
  BY <1>6, DeviceDeathInv, InputType
<1> QED
  BY <1>1, <1>2, <1>3, <1>4, <1>5, <1>6 DEF HandleIncoming

\* Every step of the host keeps its state well typed.
LEMMA HostNextInv == HInv /\ [HostNext]_hostVars => HInv'
<1> SUFFICES ASSUME HInv, [HostNext]_hostVars PROVE HInv'
  OBVIOUS
<1>1. ASSUME NEW m \in Inputs, HandleIncoming(m) PROVE HInv'
  BY <1>1, HandleInv, HostAssumption
<1>2. CASE SlotFreed
  BY <1>2, SlotFreedInv
<1>3. CASE Restart
  BY <1>3, RestartInv
<1>4. CASE UNCHANGED hostVars
  BY <1>4 DEF hostVars, HInv, HostTypeOK, RegistriesInv
<1> QED
  BY <1>1, <1>2, <1>3, <1>4 DEF HostNext

LEMMA HostInvariant == HostSpec => []HInv
  BY HostInitInv, HostNextInv, PTL DEF HostSpec

\* The host's state for a node is well typed whatever it receives: the sequence
\* number wraps, events name devices and metrics that exist, and no alias is
\* ever resolved outside the registry (struct NodeState, HostEvent).
THEOREM HostTypeCorrect == HostSpec => []HostTypeOK
  BY HostInvariant, PTL DEF HInv
-----------------------------------------------------------------------------
(* The refinement. *)

\* No DBIRTH uses an alias twice: without this the refinement does not hold, as
\* CorruptBirthBlocksData shows.
SoundDeviceBirths ==
    \A m \in Inputs : m.type = "DBIRTH" => ~DuplicateAlias(m.metrics)

\* The view is about the same node and devices.
LEMMA ViewScopes == View!Scopes = Scopes
  BY DEF View!Scopes, View!Devices, Scopes, Devices

LEMMA RequestSilent == RequestRebirth => View!Silent
  BY DEF RequestRebirth, Nothing, View!Silent

LEMMA InvalidateBreaks == Invalidate => View!Break
  BY RequestSilent DEF Invalidate, View!Break, Alive

\* A step that shows nothing and leaves the node's state alone.
LEMMA UnseenQuiet ==
  ASSUME UNCHANGED nodeState, View!Silent
  PROVE  View!KeepQuiet
  BY DEF nodeState, View!KeepQuiet, Alive, NamesKnown, OnlineDevices

LEMMA NodeBirthView ==
  ASSUME NEW m \in WellFormed, m.type = "NBIRTH", OnNodeBirth(m)
  PROVE  View!Break \/ View!ShowNodeBirth
<1>1. OnlineDevices' = {}
  BY DEF OnNodeBirth, OnlineDevices, NoDevices
<1>2. CASE DuplicateAlias(m.metrics)
  BY <1>2, RequestSilent DEF OnNodeBirth, View!Break, Alive
<1>3. CASE ~DuplicateAlias(m.metrics)
  <2>1. event' = [Nothing("NodeBirth") EXCEPT !.bdSeq = m.bdSeq, !.metrics = m.metrics]
    BY <1>3 DEF OnNodeBirth, Report
  <2>2. /\ event'.kind = "NodeBirth" /\ event'.bdSeq = m.bdSeq
        /\ event'.metrics = m.metrics
    BY <2>1 DEF Nothing
  <2>3. node_aliases'.names = View!Listed(m.metrics) \ {None}
    BY <1>3, BoundNames, InputType DEF OnNodeBirth, View!Listed
  <2>4. \A d \in Devices : devices'[d].aliases.names = {}
    BY DEF OnNodeBirth, NoDevices, EmptyRegistry
  <2>5. NamesKnown' = [s \in Scopes |-> IF s = None THEN View!Listed(m.metrics) \ {None}
                                        ELSE {}]
    BY <2>3, <2>4 DEF NamesKnown, Scopes
  <2> QED
    BY <1>1, <1>3, <2>2, <2>5, ViewScopes DEF OnNodeBirth, View!ShowNodeBirth, Alive
<1> QED
  BY <1>2, <1>3

LEMMA NodeDataView ==
  ASSUME HInv, NEW m \in WellFormed, OnNodeData(m)
  PROVE  View!Break \/ View!ShowNodeData
<1>1. CASE Invalidate
  BY <1>1, InvalidateBreaks
<1>2. CASE ~Invalidate
  <2> DEFINE metrics == Resolved(node_aliases, m.metrics)
  <2>1. event' = [Nothing("NodeData") EXCEPT !.metrics = metrics]
    BY <1>2 DEF OnNodeData, Report
  <2>2. event'.kind = "NodeData" /\ event'.metrics = metrics
    BY <2>1 DEF Nothing
  <2>3. View!Recovered(metrics) \subseteq node_aliases.names
    BY <1>2, ResolvedType, InputType DEF OnNodeData, HInv, HostTypeOK, RegistriesInv
  <2>4. NamesKnown[None] = node_aliases.names
    BY DEF NamesKnown, Scopes
  <2>5. UNCHANGED <<Alive, NamesKnown>>
    BY <1>2 DEF OnNodeData, Alive, NamesKnown, OnlineDevices
  <2> QED
    BY <1>2, <2>2, <2>3, <2>4, <2>5 DEF OnNodeData, View!ShowNodeData
<1> QED
  BY <1>1, <1>2

LEMMA NodeDeathView ==
  ASSUME HInv, NEW m \in WellFormed, OnNodeDeath(m)
  PROVE  View!ShowNodeDeath \/ View!KeepQuiet
<1>1. CASE ~(online /\ MatchesBirth(m))
  <2>1. View!Silent /\ UNCHANGED nodeState
    BY <1>1 DEF OnNodeDeath, Report, Nothing, View!Silent
  <2> QED
    BY <2>1, UnseenQuiet
<1>2. CASE online /\ MatchesBirth(m)
  <2>1. event' = [Nothing("NodeDeath") EXCEPT !.bdSeq = m.bdSeq, !.devices = OnlineDevices]
    BY <1>2 DEF OnNodeDeath, Report
  <2>2. event'.kind = "NodeDeath" /\ event'.bdSeq = m.bdSeq /\ event'.devices = OnlineDevices
    BY <2>1 DEF Nothing
  <2>3. \A d \in Devices : devices'[d].aliases = devices[d].aliases
    BY <1>2 DEF OnNodeDeath, HInv, HostTypeOK
  <2>4. UNCHANGED NamesKnown
    BY <1>2, <2>3 DEF OnNodeDeath, NamesKnown, Scopes
  <2> QED
    BY <1>2, <2>2, <2>4 DEF OnNodeDeath, MatchesBirth, View!ShowNodeDeath, Alive
<1> QED
  BY <1>1, <1>2

LEMMA DeviceBirthView ==
  ASSUME HInv, NEW m \in WellFormed, m.type = "DBIRTH", ~DuplicateAlias(m.metrics),
         OnDeviceBirth(m)
  PROVE  View!Break \/ View!ShowDeviceBirth
<1>1. CASE Invalidate
  BY <1>1, InvalidateBreaks
<1>2. CASE ~Invalidate
  <2>2. event' = [Nothing("DeviceBirth") EXCEPT !.device = m.device, !.metrics = m.metrics]
    BY <1>2 DEF OnDeviceBirth, Report
  <2>3. /\ event'.kind = "DeviceBirth" /\ event'.device = m.device
        /\ event'.metrics = m.metrics
    BY <2>2 DEF Nothing
  <2>4. m.device \in Devices /\ m.device # None
    BY InputType, HostConstants
  <2>5. /\ devices' = [devices EXCEPT ![m.device] =
                         [online |-> TRUE, aliases |-> Bound(m.metrics)]]
        /\ online /\ UNCHANGED <<online, node_bd_seq, node_aliases>>
    BY <1>2 DEF OnDeviceBirth
  <2>6. Alive' = Alive \cup {m.device}
    BY <2>4, <2>5 DEF Alive, OnlineDevices, HInv, HostTypeOK
  <2>7. Bound(m.metrics).names = View!Listed(m.metrics) \ {None}
    BY BoundNames, InputType DEF View!Listed
  <2>8. NamesKnown' = [NamesKnown EXCEPT ![m.device] = View!Listed(m.metrics) \ {None}]
    BY <2>4, <2>5, <2>7 DEF NamesKnown, Scopes, HInv, HostTypeOK
  <2> QED
    BY <2>3, <2>5, <2>6, <2>8 DEF View!ShowDeviceBirth
<1> QED
  BY <1>1, <1>2

LEMMA DeviceDataView ==
  ASSUME HInv, NEW m \in WellFormed, m.type = "DDATA", OnDeviceData(m)
  PROVE  View!Break \/ View!ShowDeviceData \/ View!KeepQuiet
<1> DEFINE device == devices[m.device]
<1>0. m.device \in Devices /\ m.device # None
  BY InputType, HostConstants
<1>1. CASE Invalidate
  BY <1>1, InvalidateBreaks
<1>2. CASE ~Invalidate /\ online /\ device.online
  <2> DEFINE metrics == Resolved(device.aliases, m.metrics)
  <2>1. event' = [Nothing("DeviceData") EXCEPT !.device = m.device, !.metrics = metrics]
    BY <1>2 DEF OnDeviceData, Report
  <2>2. /\ event'.kind = "DeviceData" /\ event'.device = m.device
        /\ event'.metrics = metrics
    BY <2>1 DEF Nothing
  <2>3. Decodes(device.aliases, m.metrics) /\ device.aliases \in Registry
        /\ RegistryInv(device.aliases)
    BY <1>0, <1>2 DEF OnDeviceData, HInv, HostTypeOK, RegistriesInv
  <2>4. View!Recovered(metrics) \subseteq device.aliases.names
    BY <2>3, ResolvedType, InputType
  <2>5. NamesKnown[m.device] = device.aliases.names /\ m.device \in Alive
    BY <1>0, <1>2 DEF NamesKnown, Scopes, Alive, OnlineDevices
  <2>6. UNCHANGED <<online, node_bd_seq, Alive, NamesKnown>>
    BY <1>2 DEF OnDeviceData, Alive, NamesKnown, OnlineDevices
  <2> QED
    BY <1>2, <2>2, <2>4, <2>5, <2>6 DEF View!ShowDeviceData
<1>3. CASE ~Invalidate /\ ~(online /\ device.online)
  <2>1. RequestRebirth /\ UNCHANGED nodeState
    BY <1>3 DEF OnDeviceData
  <2> QED
    BY <2>1, RequestSilent, UnseenQuiet
<1> QED
  BY <1>1, <1>2, <1>3

LEMMA DeviceDeathView ==
  ASSUME HInv, NEW m \in WellFormed, m.type = "DDEATH", OnDeviceDeath(m)
  PROVE  View!Break \/ View!ShowDeviceDeath
<1>1. CASE Invalidate
  BY <1>1, InvalidateBreaks
<1>2. CASE ~Invalidate
  <2>1. event' = [Nothing("DeviceDeath") EXCEPT !.device = m.device]
    BY <1>2 DEF OnDeviceDeath, Report
  <2>2. event'.kind = "DeviceDeath" /\ event'.device = m.device
    BY <2>1 DEF Nothing
  <2>3. m.device \in Devices
    BY InputType
  <2>4. /\ devices' = [devices EXCEPT ![m.device].online = FALSE]
        /\ online /\ UNCHANGED <<online, node_bd_seq, node_aliases>>
    BY <1>2 DEF OnDeviceDeath
  <2>5. Alive' = Alive \ {m.device}
    BY <2>3, <2>4 DEF Alive, OnlineDevices, HInv, HostTypeOK
  <2>6. \A d \in Devices : devices'[d].aliases = devices[d].aliases
    BY <2>3, <2>4 DEF HInv, HostTypeOK
  <2>7. UNCHANGED NamesKnown
    BY <2>4, <2>6 DEF NamesKnown, Scopes
  <2> QED
    BY <2>2, <2>4, <2>5, <2>7 DEF View!ShowDeviceDeath
<1> QED
  BY <1>1, <1>2

\* What a handler shows is what the consumer's view allows, or it changes nothing
\* of it.
LEMMA HandleView ==
  ASSUME HInv, NEW m \in WellFormed, HandleIncoming(m),
         m.type = "DBIRTH" => ~DuplicateAlias(m.metrics)
  PROVE  View!ViewNext
<1>1. CASE m.type = "NBIRTH" /\ OnNodeBirth(m)
  BY <1>1, NodeBirthView DEF View!ViewNext
<1>2. CASE m.type = "NDATA" /\ OnNodeData(m)
  BY <1>2, NodeDataView DEF View!ViewNext
<1>3. CASE m.type = "NDEATH" /\ OnNodeDeath(m)
  BY <1>3, NodeDeathView DEF View!ViewNext
<1>4. CASE m.type = "DBIRTH" /\ OnDeviceBirth(m)
  BY <1>4, DeviceBirthView DEF View!ViewNext
<1>5. CASE m.type = "DDATA" /\ OnDeviceData(m)
  BY <1>5, DeviceDataView DEF View!ViewNext
<1>6. CASE m.type = "DDEATH" /\ OnDeviceDeath(m)
  BY <1>6, DeviceDeathView DEF View!ViewNext
<1> QED
  BY <1>1, <1>2, <1>3, <1>4, <1>5, <1>6 DEF HandleIncoming

\* Every step of the engine is a step of the consumer's view, or changes nothing
\* of it.
LEMMA ViewStep ==
  ASSUME SoundDeviceBirths, HInv, [HostNext]_hostVars
  PROVE  [View!ViewNext]_(View!viewVars)
<1>1. ASSUME NEW m \in Inputs, HandleIncoming(m) PROVE View!ViewNext
  BY <1>1, HandleView, HostAssumption DEF SoundDeviceBirths
<1>2. CASE SlotFreed
  <2>1. View!Silent /\ UNCHANGED nodeState
    BY <1>2 DEF SlotFreed, Nothing, View!Silent
  <2> QED
    BY <2>1, UnseenQuiet DEF View!ViewNext
<1>3. CASE Restart
  BY <1>3 DEF Restart, Nothing, View!ViewNext, View!Break, View!Silent, Alive
<1>4. CASE UNCHANGED hostVars
  BY <1>4 DEF hostVars, View!viewVars, Alive, NamesKnown, OnlineDevices
<1> QED
  BY <1>1, <1>2, <1>3, <1>4 DEF HostNext

LEMMA ViewStart == HostInit => View!ViewInit
<1> SUFFICES ASSUME HostInit PROVE View!ViewInit
  OBVIOUS
<1>1. NamesKnown = [s \in Scopes |-> {}]
  BY DEF HostInit, NamesKnown, NoDevices, EmptyRegistry, Scopes
<1> QED
  BY <1>1, ViewScopes DEF HostInit, View!ViewInit, Alive, Nothing

\* The host engine implements the consumer's view: for any number of devices,
\* names and aliases and any counter widths, whatever arrives in whatever order,
\* no data is shown of what is not alive, nor, unless the metric brings its own
\* datatype, of a metric that its birth did not list, as long as no DBIRTH uses an
\* alias twice (handle_incoming and its handlers).
THEOREM HostImplementsView ==
  ASSUME SoundDeviceBirths
  PROVE  HostSpec => ViewImplemented
<1>1. HInv /\ [HostNext]_hostVars => [View!ViewNext]_(View!viewVars)
  BY ViewStep
<1> QED
  BY <1>1, ViewStart, HostInvariant, PTL DEF HostSpec, ViewImplemented, View!ViewSpec

=============================================================================
