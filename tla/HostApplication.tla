--------------------------- MODULE HostApplication ---------------------------
(***************************************************************************)
(* The Host Application engine (host.rs) as one Edge Node sees it: the     *)
(* NodeState it keeps for that node and the handlers of the node's         *)
(* messages.  Entries of different nodes share nothing, and an entry that  *)
(* is absent behaves like NodeState::new().                                *)
(*                                                                         *)
(* Each handler runs to its end before the next starts (`&mut self'), and  *)
(* its only await is the publish of a rebirth NCMD, after the state has    *)
(* been written.  A malformed BIRTH or DEATH leaves the engine as it was:  *)
(* it is a lost message.  Malformed DATA is data whose key is not in the   *)
(* registry, for which decode fails in the same way.                       *)
(***************************************************************************)
EXTENDS Sparkplug

CONSTANTS
    Aliases,   \* the alias numbers that may occur in a payload
    Inputs     \* the messages the node may publish

\* Node-level messages have no device in their topic, the others have one.  What
\* is decoded without a registry carries its datatypes.
WellFormed ==
    {m \in Message :
        /\ m.device = None <=> m.type \in {"NBIRTH", "NDATA", "NDEATH"}
        /\ m.type \notin {"NDATA", "DDATA"} =>
              \A i \in DOMAIN m.metrics : m.metrics[i].typed}

ASSUME HostAssumption ==
    /\ Aliases \subseteq Nat
    /\ Inputs \subseteq WellFormed

VARIABLES
    online,           \* NodeState.online: the session is valid
    node_bd_seq,      \* NodeState.bd_seq
    expected_seq,     \* NodeState.expected_seq
    node_aliases,     \* NodeState.aliases
    devices,          \* NodeState.devices; an absent entry is DeviceState::default()
    slot_taken,       \* NodeState.last_rebirth is younger than rebirth_debounce
    event,            \* what handle_incoming returned for the last message
    ncmd,             \* did the last step publish a rebirth NCMD?
    corrupt           \* observer: the scopes whose last birth uses an alias twice

nodeState == <<online, node_bd_seq, expected_seq, node_aliases, devices>>
hostVars == <<online, node_bd_seq, expected_seq, node_aliases, devices,
              slot_taken, event, ncmd, corrupt>>

EventKind ==
    {"NodeBirth", "NodeData", "NodeDeath", "DeviceBirth", "DeviceData",
     "DeviceDeath", "RebirthRequested", "Ignored", "Error"}

Event ==
    [kind : EventKind, device : Scopes, bdSeq : BdSeqs \cup {None},
     devices : SUBSET Devices, metrics : Seq(Metric)]

Nothing(kind) ==
    [kind |-> kind, device |-> None, bdSeq |-> None, devices |-> {},
     metrics |-> << >>]

-----------------------------------------------------------------------------
(* AliasRegistry, as far as a host reads it: the names with a datatype,    *)
(* and the name (and with it the datatype) of each alias.                  *)

Registry == [names : SUBSET Names, name_of : [Aliases -> Names \cup {None}]]

EmptyRegistry == [names |-> {}, name_of |-> [a \in Aliases |-> None]]

\* Metric i is the first of a birth to claim alias a.
Claims(metrics, a, i) ==
    /\ metrics[i].alias = a
    /\ metrics[i].name # None
    /\ \A j \in DOMAIN metrics :
          metrics[j].alias = a /\ metrics[j].name # None => i <= j

\* try_bind on a cleared registry: the first name to claim an alias keeps it.
Owner(metrics, a) ==
    IF \E i \in DOMAIN metrics : Claims(metrics, a, i)
    THEN metrics[CHOOSE i \in DOMAIN metrics : Claims(metrics, a, i)].name
    ELSE None

\* try_bind of metric k fails: its alias belongs to another name.
IsDuplicate(metrics, k) ==
    k.name # None /\ k.alias # None /\ Owner(metrics, k.alias) # k.name

DuplicateAlias(metrics) == \E i \in DOMAIN metrics : IsDuplicate(metrics, metrics[i])

\* clear, then try_bind for each named metric of the birth.
Bound(metrics) ==
    [names |-> {n \in Names : \E i \in DOMAIN metrics :
                   metrics[i].name = n /\ ~IsDuplicate(metrics, metrics[i])},
     name_of |-> [a \in Aliases |-> Owner(metrics, a)]]

\* The name that the registry has for a metric's alias.
NameOf(registry, k) ==
    IF k.alias \in Aliases THEN registry.name_of[k.alias] ELSE None

\* recover_datatype finds the type of a data metric: by its name, else by alias.
Known(registry, k) ==
    IF k.name # None THEN k.name \in registry.names ELSE NameOf(registry, k) # None

\* decode_metric asks the registry only for a datatype that the metric lacks.
HasType(registry, k) == k.typed \/ Known(registry, k)

Decodes(registry, metrics) ==
    \A i \in DOMAIN metrics : HasType(registry, metrics[i])

\* resolve_names: an alias that the registry does not have stays without a name.
Resolved(registry, metrics) ==
    [i \in DOMAIN metrics |->
        IF metrics[i].name # None THEN metrics[i]
        ELSE [metrics[i] EXCEPT !.name = NameOf(registry, metrics[i])]]

-----------------------------------------------------------------------------
(* Rebirth requests. *)

\* rebirth: at most one NCMD per debounce window.  The slot is taken before the
\* publish, which may fail.
RequestRebirth ==
    \/ /\ slot_taken
       /\ event' = Nothing("Ignored")
       /\ ncmd' = FALSE
       /\ UNCHANGED slot_taken
    \/ /\ ~slot_taken
       /\ slot_taken' = TRUE
       /\ \/ event' = Nothing("RebirthRequested") /\ ncmd' = TRUE
          \/ event' = Nothing("Error") /\ ncmd' = FALSE

Report(e) ==
    /\ event' = e
    /\ ncmd' = FALSE
    /\ UNCHANGED slot_taken

\* The session is not valid, or is no longer: until the next birth.
Invalidate ==
    /\ online' = FALSE
    /\ RequestRebirth
    /\ UNCHANGED <<node_bd_seq, expected_seq, node_aliases, devices, corrupt>>

-----------------------------------------------------------------------------
(* The handlers. *)

NoDevices == [d \in Devices |-> [online |-> FALSE, aliases |-> EmptyRegistry]]

\* Fault: the counter is widened before the increment.
AfterBirth_NoWrap(n) == (IF n = None THEN 0 ELSE n) + 1

\* Fault: the birth's own number is expected again.
AfterBirth_Same(n) == IF n = None THEN 0 ELSE n

\* The sequence number after that of a birth, which may lack one.
AfterBirth(n) == WrapInc(IF n = None THEN 0 ELSE n, SeqMod)

OnNodeBirth(m) ==
    /\ node_bd_seq' = m.bdSeq
    /\ expected_seq' = AfterBirth(m.seq)
    /\ node_aliases' = Bound(m.metrics)
    /\ devices' = NoDevices
    /\ online' = ~DuplicateAlias(m.metrics)
    /\ corrupt' = IF DuplicateAlias(m.metrics) THEN {None} ELSE {}
    /\ IF DuplicateAlias(m.metrics)
       THEN RequestRebirth
       ELSE Report([Nothing("NodeBirth") EXCEPT !.bdSeq = m.bdSeq, !.metrics = m.metrics])

\* Fault: a gap is accepted.
InSequence_AtLeast(m) == m.seq # None /\ m.seq >= expected_seq

InSequence(m) == m.seq = expected_seq

Advance == expected_seq' = WrapInc(expected_seq, SeqMod)

OnNodeData(m) ==
    \/ /\ online
       /\ Decodes(node_aliases, m.metrics)
       /\ InSequence(m)
       /\ Advance
       /\ Report([Nothing("NodeData") EXCEPT !.metrics = Resolved(node_aliases, m.metrics)])
       /\ UNCHANGED <<online, node_bd_seq, node_aliases, devices, corrupt>>
    \/ /\ ~(online /\ Decodes(node_aliases, m.metrics) /\ InSequence(m))
       /\ Invalidate

\* Fault: a birth and a death that both omit bdSeq match.
MatchesBirth_NoneMatches(m) == node_bd_seq = m.bdSeq

\* Fault: any death ends the session.
MatchesBirth_Any(m) == m.bdSeq # None

\* Is it the death of the session that the last birth began?
MatchesBirth(m) == node_bd_seq # None /\ node_bd_seq = m.bdSeq

OnlineDevices == {d \in Devices : devices[d].online}

OnNodeDeath(m) ==
    \/ /\ online
       /\ MatchesBirth(m)
       /\ online' = FALSE
       /\ devices' = [d \in Devices |-> [devices[d] EXCEPT !.online = FALSE]]
       /\ Report([Nothing("NodeDeath") EXCEPT !.bdSeq = m.bdSeq, !.devices = OnlineDevices])
       /\ UNCHANGED <<node_bd_seq, expected_seq, node_aliases, corrupt>>
    \/ /\ ~(online /\ MatchesBirth(m))
       /\ Report(Nothing("Ignored"))
       /\ UNCHANGED <<nodeState, corrupt>>

\* A duplicate alias in a DBIRTH asks for a rebirth, and the session stays valid.
OnDeviceBirth(m) ==
    \/ /\ online
       /\ InSequence(m)
       /\ Advance
       /\ devices' = [devices EXCEPT ![m.device] =
                         [online |-> TRUE, aliases |-> Bound(m.metrics)]]
       /\ corrupt' = IF DuplicateAlias(m.metrics)
                      THEN corrupt \cup {m.device}
                      ELSE corrupt \ {m.device}
       /\ IF DuplicateAlias(m.metrics)
          THEN RequestRebirth
          ELSE Report([Nothing("DeviceBirth") EXCEPT !.device = m.device,
                                                     !.metrics = m.metrics])
       /\ UNCHANGED <<online, node_bd_seq, node_aliases>>
    \/ /\ ~(online /\ InSequence(m))
       /\ Invalidate

OnDeviceData(m) ==
    LET device == devices[m.device] IN
    \/ /\ online
       /\ device.online
       /\ Decodes(device.aliases, m.metrics)
       /\ InSequence(m)
       /\ Advance
       /\ Report([Nothing("DeviceData") EXCEPT !.device = m.device,
                     !.metrics = Resolved(device.aliases, m.metrics)])
       /\ UNCHANGED <<online, node_bd_seq, node_aliases, devices, corrupt>>
    \/ /\ online
       /\ device.online
       /\ ~(Decodes(device.aliases, m.metrics) /\ InSequence(m))
       /\ Invalidate
    \* Data of a node or device that is not online changes nothing.
    \/ /\ ~(online /\ device.online)
       /\ RequestRebirth
       /\ UNCHANGED <<nodeState, corrupt>>

OnDeviceDeath(m) ==
    \/ /\ online
       /\ InSequence(m)
       /\ Advance
       /\ devices' = [devices EXCEPT ![m.device].online = FALSE]
       /\ Report([Nothing("DeviceDeath") EXCEPT !.device = m.device])
       /\ UNCHANGED <<online, node_bd_seq, node_aliases, corrupt>>
    \/ /\ ~(online /\ InSequence(m))
       /\ Invalidate

HandleIncoming(m) ==
    \/ m.type = "NBIRTH" /\ OnNodeBirth(m)
    \/ m.type = "NDATA" /\ OnNodeData(m)
    \/ m.type = "NDEATH" /\ OnNodeDeath(m)
    \/ m.type = "DBIRTH" /\ OnDeviceBirth(m)
    \/ m.type = "DDATA" /\ OnDeviceData(m)
    \/ m.type = "DDEATH" /\ OnDeviceDeath(m)

\* rebirth_debounce has elapsed since last_rebirth.
SlotFreed ==
    /\ slot_taken
    /\ slot_taken' = FALSE
    /\ event' = Nothing("Ignored")
    /\ ncmd' = FALSE
    /\ UNCHANGED <<nodeState, corrupt>>

-----------------------------------------------------------------------------

\* HostApplication::new: the entry is absent.
HostInit ==
    /\ online = FALSE
    /\ node_bd_seq = None
    /\ expected_seq = 0
    /\ node_aliases = EmptyRegistry
    /\ devices = NoDevices
    /\ slot_taken = FALSE
    /\ event = Nothing("Ignored")
    /\ ncmd = FALSE
    /\ corrupt = {}

\* The process dies and starts again; `nodes' lives in memory only.
Restart ==
    /\ online' = FALSE
    /\ node_bd_seq' = None
    /\ expected_seq' = 0
    /\ node_aliases' = EmptyRegistry
    /\ devices' = NoDevices
    /\ slot_taken' = FALSE
    /\ event' = Nothing("Ignored")
    /\ ncmd' = FALSE
    /\ corrupt' = {}

HostNext ==
    \/ \E m \in Inputs : HandleIncoming(m)
    \/ SlotFreed
    \/ Restart

HostSpec == HostInit /\ [][HostNext]_hostVars
-----------------------------------------------------------------------------
(* Properties. *)

\* Every field holds a value its Rust type allows, and every event names a
\* device and metrics a message may carry (struct NodeState, HostEvent).
HostTypeOK ==
    /\ online \in BOOLEAN
    /\ node_bd_seq \in BdSeqs \cup {None}
    /\ expected_seq \in Seqs
    /\ node_aliases \in Registry
    /\ devices \in [Devices -> [online : BOOLEAN, aliases : Registry]]
    /\ slot_taken \in BOOLEAN
    /\ event \in Event
    /\ ncmd \in BOOLEAN
    /\ corrupt \subseteq Scopes

\* What the engine holds to be alive and listed, read as the consumer's view.
Alive == IF online THEN OnlineDevices ELSE {}

NamesKnown == [s \in Scopes |->
             IF s = None THEN node_aliases.names ELSE devices[s].aliases.names]

View == INSTANCE ConsumerView
            WITH live <- online, alive <- Alive, known <- NamesKnown, bd_seq <- node_bd_seq

\* Whatever messages arrive in whatever order, across sequence gaps, stale or
\* repeated deaths, unknown keys, failed rebirth requests and restarts, the
\* events are those of a consumer that is never shown data of something that is
\* not alive, nor, unless the metric brings its own datatype, of a metric that is
\* not listed in the birth (handle_incoming and its handlers).  The metrics of a
\* birth are listed if it uses no alias twice.
ViewImplemented == View!ViewSpec

\* A corrupt alias map never lets DATA through before the rebirth lands: data of
\* the node, or of a device, is not shown while its last birth is one that used
\* an alias twice (on_node_birth, on_device_birth).
CorruptBirthBlocksData ==
    /\ event.kind = "NodeData" => None \notin corrupt
    /\ event.kind = "DeviceData" => event.device \notin corrupt
=============================================================================
