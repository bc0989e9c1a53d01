------------------------------- MODULE EdgeNode -------------------------------
(***************************************************************************)
(* The Edge Node engine (edge.rs) over an MqttTransport and a BdSeqStore.  *)
(*                                                                         *)
(* The engine has no task and no timer of its own: the application calls   *)
(* its methods, each of which borrows the engine mutably until it returns. *)
(* A method that publishes once is one action, whose outcome covers the    *)
(* transport's Ok and Err (an Err also stands for a future dropped at that *)
(* await).  publish_birth_sequence publishes many times and the broker,    *)
(* the host and the clock move between its awaits: it is a loop of one     *)
(* action per publish, and `birth' records where it is suspended.  While   *)
(* it runs no other method of the engine can start.                        *)
(*                                                                         *)
(* A publish that returns Ok on a live connection hands one message to the *)
(* broker (`out', the messages of the last step).  On a connection that is *)
(* gone it may still return Ok, since the transport only enqueues, and     *)
(* nothing reaches the broker.                                             *)
(***************************************************************************)
EXTENDS Sparkplug

CONSTANTS
    Configs,             \* the EdgeNodeConfig values considered
    NodeMetrics,         \* DataSource::node_birth_metrics, the metrics' names
    DeviceMetrics,       \* DataSource::device_birth_metrics, likewise
    Timestamps,          \* timestamps of primary-host STATE messages
    ReconnectWhileOpen   \* may the application call connect on a live connection?

ASSUME EdgeNodeAssumption ==
    /\ Configs \subseteq [gated : BOOLEAN, use_aliases : BOOLEAN]
    /\ NodeMetrics \in Seq(Names)
    /\ DeviceMetrics \in [Devices -> Seq(Names)]
    /\ Timestamps \subseteq Nat
    /\ ReconnectWhileOpen \in BOOLEAN

VARIABLES
    config,          \* gated: primary_host_id is set; use_aliases
    state,           \* EdgeState
    seq,             \* the next payload sequence number (Seq)
    bd_seq,          \* the bdSeq of this connection
    aliases,         \* name -> alias (AliasRegistry.name_to_alias), None: unbound
    next_alias,
    born_devices,
    debouncing,      \* last_rebirth is younger than rebirth_debounce
    last_state_ts,   \* timestamp of the last accepted primary-host STATE
    birth,           \* where publish_birth_sequence is suspended, and who called it
    store,           \* what BdSeqStore::load_next_death returns: survives a crash
    session,         \* the broker's side: is the connection up, and its will's bdSeq
    announced,       \* observer: the last birth of each scope on this connection
    lifecycle_ok,    \* observer: the last connect or disconnect returned Ok
    out              \* observer: messages handed to the broker by the last step

fields == <<state, seq, bd_seq, aliases, next_alias, born_devices, debouncing,
            last_state_ts>>
vars == <<config, state, seq, bd_seq, aliases, next_alias, born_devices,
          debouncing, last_state_ts, birth, store, session, announced,
          lifecycle_ok, out>>

EdgeState == {"Disconnected", "WaitingForPrimaryHost", "Online"}

\* `at' counts the births already published; the NBIRTH is birth 0.
Caller == {"connect", "rebirth", "state", "call"}
BirthProgress == [at : 0 .. Len(DeviceList), by : Caller]

ASSUME BirthAssumption == None \notin BirthProgress

Unbound == [n \in Names |-> None]
NothingAnnounced == [s \in Scopes |-> None]
NoSession == [open |-> FALSE, will |-> None]

-----------------------------------------------------------------------------
(* Publishing. *)

\* The births the broker holds for this connection once it has message m.
Announce(m) ==
    CASE m.type = "NBIRTH" -> [NothingAnnounced EXCEPT ![None] = m.metrics]
      [] m.type = "DBIRTH" -> [announced EXCEPT ![m.device] = m.metrics]
      [] m.type = "DDEATH" -> [announced EXCEPT ![m.device] = None]
      [] m.type = "NDEATH" -> NothingAnnounced
      [] OTHER -> announced

\* MqttTransport::publish returns Ok.  A transport that has never connected in
\* this process has no client and can only return Err.
Send(m) ==
    /\ session.will # None
    /\ out' = IF session.open THEN <<m>> ELSE << >>
    /\ announced' = IF session.open THEN Announce(m) ELSE announced

\* MqttTransport::publish, or an earlier call of the method, returns Err.
Quiet ==
    /\ out' = << >>
    /\ UNCHANGED announced

\* Fault: the payload takes its metrics before assign_aliases has run.
Aliased_TooEarly(names, first) ==
    [i \in DOMAIN names |->
        [name |-> names[i], alias |-> None, value |-> names[i], typed |-> TRUE]]

\* assign_aliases numbers the metrics of a birth from `first' on.
Aliased(names, first) ==
    [i \in DOMAIN names |->
        [name |-> names[i],
         alias |-> IF config.use_aliases THEN first + i - 1 ELSE None,
         value |-> names[i],
         typed |-> TRUE]]

\* AliasRegistry::bind for each of them: the last binding of a name wins.
LastNamed(names, n, i) ==
    names[i] = n /\ \A j \in DOMAIN names : names[j] = n => j <= i

Bind(names, first) ==
    [n \in Names |->
        IF \E i \in DOMAIN names : LastNamed(names, n, i)
        THEN first - 1 + CHOOSE i \in DOMAIN names : LastNamed(names, n, i)
        ELSE aliases[n]]

AssignAliases(names) ==
    IF config.use_aliases
    THEN /\ aliases' = Bind(names, next_alias)
         /\ next_alias' = next_alias + Len(names)
    ELSE UNCHANGED <<aliases, next_alias>>

\* to_data_metrics: by alias when aliasing is on and the name is bound.  Data is
\* encoded without its datatype (EncodeOptions::data).
DataMetric(n) ==
    IF config.use_aliases /\ aliases[n] # None
    THEN [name |-> None, alias |-> aliases[n], value |-> n, typed |-> FALSE]
    ELSE [name |-> n, alias |-> None, value |-> n, typed |-> FALSE]

-----------------------------------------------------------------------------
(* The birth sequence. *)

Idle == birth = None

\* Fault: born_devices is not cleared.
BornAtStart_Kept == born_devices

BornAtStart == {}

\* publish_birth_sequence up to its first publish.
StartBirths(by) ==
    /\ seq' = 0
    /\ IF config.use_aliases
       THEN aliases' = Unbound /\ next_alias' = 0
       ELSE UNCHANGED <<aliases, next_alias>>
    /\ born_devices' = BornAtStart
    /\ birth' = [at |-> 0, by |-> by]

\* The sequence is complete: the caller goes on and returns Ok.
BirthsDone ==
    /\ birth' = None
    /\ state' = "Online"
    /\ debouncing' = (debouncing \/ birth.by = "rebirth")
    /\ lifecycle_ok' = (lifecycle_ok \/ birth.by = "connect")

\* One birth was published: on to the next device, if there is one.
BirthPublished ==
    IF birth.at < Len(DeviceList)
    THEN /\ birth' = [birth EXCEPT !.at = @ + 1]
         /\ UNCHANGED <<state, debouncing, lifecycle_ok>>
    ELSE BirthsDone

\* The publish failed: the error leaves through every caller, what was done stays.
BirthFailed ==
    /\ birth' = None
    /\ UNCHANGED <<state, debouncing, lifecycle_ok>>

\* Fault: a birth carries the next connection's bdSeq.
BirthBdSeq_Next == store

\* build_node_birth_metrics: the DataSource is taken to list no bdSeq of its own.
BirthBdSeq == bd_seq

PublishNodeBirth ==
    /\ ~Idle
    /\ birth.at = 0
    /\ seq' = WrapInc(seq, SeqMod)
    /\ AssignAliases(NodeMetrics)
    /\ \/ /\ Send(NodeBirth(seq, BirthBdSeq, Aliased(NodeMetrics, next_alias)))
          /\ BirthPublished
       \/ Quiet /\ BirthFailed
    /\ UNCHANGED <<config, bd_seq, born_devices, last_state_ts, store, session>>

\* publish_device_birth: the device counts as born only after the publish.
PublishDeviceBirth ==
    /\ ~Idle
    /\ birth.at > 0
    /\ seq' = WrapInc(seq, SeqMod)
    /\ LET d == DeviceList[birth.at] IN
       /\ AssignAliases(DeviceMetrics[d])
       /\ \/ /\ Send(Sequenced("DBIRTH", d, seq, Aliased(DeviceMetrics[d], next_alias)))
             /\ born_devices' = born_devices \cup {d}
             /\ BirthPublished
          \/ Quiet /\ BirthFailed /\ UNCHANGED born_devices
    /\ UNCHANGED <<config, bd_seq, last_state_ts, store, session>>

-----------------------------------------------------------------------------
(* connect.  It looks at no field of the engine before it starts. *)

MayConnect == Idle /\ (ReconnectWhileOpen \/ ~session.open)

\* Fault: the bdSeq is stored as it was loaded.
NextDeath_NotAdvanced(bd) == bd

NextDeath(bd) == WrapInc(bd, BdMod)

\* The store fails to load (nothing changed yet) or to save the next bdSeq.
ConnectStoreFails ==
    /\ MayConnect
    /\ bd_seq' \in {bd_seq, store}
    /\ lifecycle_ok' = FALSE
    /\ Quiet
    /\ UNCHANGED <<config, state, seq, aliases, next_alias, born_devices,
                   debouncing, last_state_ts, birth, store, session>>

TakeBdSeq ==
    /\ bd_seq' = store
    /\ store' = NextDeath(store)

\* MqttTransport::connect fails: no new connection, and an old one lives on.
ConnectRefused ==
    /\ MayConnect
    /\ TakeBdSeq
    /\ lifecycle_ok' = FALSE
    /\ Quiet
    /\ UNCHANGED <<config, state, seq, aliases, next_alias, born_devices,
                   debouncing, last_state_ts, birth, session>>

\* The broker accepts the connection and registers the will.
Open ==
    /\ session' = [open |-> TRUE, will |-> bd_seq']
    /\ announced' = NothingAnnounced
    /\ out' = << >>

\* A subscription fails: connect returns Err on a live connection.
ConnectSubscribeFails ==
    /\ MayConnect
    /\ TakeBdSeq
    /\ Open
    /\ lifecycle_ok' = FALSE
    /\ UNCHANGED <<config, state, seq, aliases, next_alias, born_devices,
                   debouncing, last_state_ts, birth>>

\* With a primary host configured, connect ends waiting for its STATE ...
ConnectAndWait ==
    /\ MayConnect
    /\ config.gated
    /\ TakeBdSeq
    /\ Open
    /\ state' = "WaitingForPrimaryHost"
    /\ lifecycle_ok' = TRUE
    /\ UNCHANGED <<config, seq, aliases, next_alias, born_devices, debouncing,
                   last_state_ts, birth>>

\* ... and without one it goes on to publish the births.
ConnectAndBirth ==
    /\ MayConnect
    /\ ~config.gated
    /\ TakeBdSeq
    /\ Open
    /\ StartBirths("connect")
    /\ lifecycle_ok' = FALSE
    /\ UNCHANGED <<config, state, debouncing, last_state_ts>>

-----------------------------------------------------------------------------
(* disconnect, called by the application or for an offline primary host. *)

SendDeath == Send(NodeDeath(bd_seq))

\* Published, and the connection closed without its will.
DisconnectOk ==
    /\ SendDeath
    /\ session' = [session EXCEPT !.open = FALSE]
    /\ state' = "Disconnected"
    /\ lifecycle_ok' = TRUE

\* The publish fails, or the transport's disconnect after it does.
DisconnectFails ==
    /\ Quiet \/ SendDeath
    /\ lifecycle_ok' = FALSE
    /\ UNCHANGED <<state, session>>

Disconnect ==
    /\ Idle
    /\ DisconnectOk \/ DisconnectFails
    /\ UNCHANGED <<config, seq, bd_seq, aliases, next_alias, born_devices,
                   debouncing, last_state_ts, birth, store>>

-----------------------------------------------------------------------------
(* Data. *)

NodeDataAllowed == state = "Online"

PublishNodeData ==
    /\ Idle
    /\ NodeDataAllowed
    /\ seq' = WrapInc(seq, SeqMod)
    /\ \E i \in DOMAIN NodeMetrics :
          \/ Send(Sequenced("NDATA", None, seq, <<DataMetric(NodeMetrics[i])>>))
          \/ Quiet
    /\ UNCHANGED <<config, state, bd_seq, aliases, next_alias, born_devices,
                   debouncing, last_state_ts, birth, store, session, lifecycle_ok>>

\* Asks that the device is born, and not that the node is online.
PublishDeviceData(d) ==
    /\ Idle
    /\ d \in born_devices
    /\ seq' = WrapInc(seq, SeqMod)
    /\ \E i \in DOMAIN DeviceMetrics[d] :
          \/ Send(Sequenced("DDATA", d, seq, <<DataMetric(DeviceMetrics[d][i])>>))
          \/ Quiet
    /\ UNCHANGED <<config, state, bd_seq, aliases, next_alias, born_devices,
                   debouncing, last_state_ts, birth, store, session, lifecycle_ok>>

\* A device whose DDEATH could not be published stays born.
PublishDeviceDeath(d) ==
    /\ Idle
    /\ d \in born_devices
    /\ seq' = WrapInc(seq, SeqMod)
    /\ \/ /\ Send(Sequenced("DDEATH", d, seq, << >>))
          /\ born_devices' = born_devices \ {d}
       \/ Quiet /\ UNCHANGED born_devices
    /\ UNCHANGED <<config, state, bd_seq, aliases, next_alias, debouncing,
                   last_state_ts, birth, store, session, lifecycle_ok>>

\* publish_birth_sequence is public: the application may call it at any time.
CallPublishBirthSequence ==
    /\ Idle
    /\ StartBirths("call")
    /\ Quiet
    /\ UNCHANGED <<config, state, bd_seq, debouncing, last_state_ts, store,
                   session, lifecycle_ok>>

-----------------------------------------------------------------------------
(* handle_incoming.  A DCMD, and an NCMD that asks for no rebirth, only    *)
(* produce an event for the application and are left out.                  *)

\* An NCMD with Node Control/Rebirth = true, whatever the EdgeState.
HandleRebirth ==
    /\ Idle
    /\ ~debouncing
    /\ StartBirths("rebirth")
    /\ Quiet
    /\ UNCHANGED <<config, state, bd_seq, debouncing, last_state_ts, store,
                   session, lifecycle_ok>>

\* Fault: no STATE is too old.
Stale_Never(ts) == FALSE

\* Fault: a STATE with the time of the last one is too old.
Stale_Equal(ts) == last_state_ts # None /\ ts <= last_state_ts

Stale(ts) == last_state_ts # None /\ ts < last_state_ts

\* The primary host's STATE is online.
HandleHostOnline(ts) ==
    /\ Idle
    /\ config.gated
    /\ ~Stale(ts)
    /\ last_state_ts' = ts
    /\ IF state = "WaitingForPrimaryHost"
       THEN StartBirths("state")
       ELSE UNCHANGED <<seq, aliases, next_alias, born_devices, birth>>
    /\ Quiet
    /\ UNCHANGED <<config, state, bd_seq, debouncing, store, session, lifecycle_ok>>

\* It is offline: an online node ends its session.
HandleHostOffline(ts) ==
    /\ Idle
    /\ config.gated
    /\ ~Stale(ts)
    /\ last_state_ts' = ts
    /\ IF state = "Online"
       THEN DisconnectOk \/ DisconnectFails
       ELSE Quiet /\ UNCHANGED <<state, session, lifecycle_ok>>
    /\ UNCHANGED <<config, seq, bd_seq, aliases, next_alias, born_devices,
                   debouncing, birth, store>>

-----------------------------------------------------------------------------
(* The environment. *)

\* The broker loses the connection; the engine does not learn of it.
ConnectionLost ==
    /\ session.open
    /\ session' = [session EXCEPT !.open = FALSE]
    /\ Quiet
    /\ UNCHANGED <<config, fields, birth, store, lifecycle_ok>>

\* The process dies at any point and starts again with EdgeNode::new.
Crash ==
    /\ state' = "Disconnected"
    /\ seq' = 0
    /\ bd_seq' = 0
    /\ aliases' = Unbound
    /\ next_alias' = 0
    /\ born_devices' = {}
    /\ debouncing' = FALSE
    /\ last_state_ts' = None
    /\ birth' = None
    /\ session' = NoSession
    /\ lifecycle_ok' = FALSE
    /\ Quiet
    /\ UNCHANGED <<config, store>>

\* rebirth_debounce has elapsed since last_rebirth.
DebounceElapses ==
    /\ debouncing
    /\ debouncing' = FALSE
    /\ Quiet
    /\ UNCHANGED <<config, state, seq, bd_seq, aliases, next_alias, born_devices,
                   last_state_ts, birth, store, session, lifecycle_ok>>

-----------------------------------------------------------------------------

\* EdgeNode::new, with whatever an earlier run left in the store.
Init ==
    /\ config \in Configs
    /\ state = "Disconnected"
    /\ seq = 0
    /\ bd_seq = 0
    /\ aliases = Unbound
    /\ next_alias = 0
    /\ born_devices = {}
    /\ debouncing = FALSE
    /\ last_state_ts = None
    /\ birth = None
    /\ store \in BdSeqs
    /\ session = NoSession
    /\ announced = NothingAnnounced
    /\ lifecycle_ok = FALSE
    /\ out = << >>

Connect ==
    \/ ConnectStoreFails
    \/ ConnectRefused
    \/ ConnectSubscribeFails
    \/ ConnectAndWait
    \/ ConnectAndBirth

Publish ==
    \/ PublishNodeBirth
    \/ PublishDeviceBirth
    \/ PublishNodeData
    \/ \E d \in Devices : PublishDeviceData(d) \/ PublishDeviceDeath(d)

Environment == ConnectionLost \/ Crash \/ DebounceElapses

Next ==
    \/ Connect
    \/ Disconnect
    \/ Publish
    \/ CallPublishBirthSequence
    \/ HandleRebirth
    \/ \E ts \in Timestamps : HandleHostOnline(ts) \/ HandleHostOffline(ts)
    \/ Environment

Spec == Init /\ [][Next]_vars
-----------------------------------------------------------------------------
(* Properties. *)

\* Every field holds a value its Rust type allows, and a message handed to the
\* broker is well formed (edge.rs, struct EdgeNode).
TypeOK ==
    /\ config \in Configs
    /\ state \in EdgeState
    /\ seq \in Seqs
    /\ bd_seq \in BdSeqs
    /\ aliases \in [Names -> Nat \cup {None}]
    /\ next_alias \in Nat
    /\ born_devices \subseteq Devices
    /\ debouncing \in BOOLEAN
    /\ last_state_ts \in Timestamps \cup {None}
    /\ birth \in BirthProgress \cup {None}
    /\ store \in BdSeqs
    /\ session \in [open : BOOLEAN, will : BdSeqs \cup {None}]
    /\ announced \in [Scopes -> Seq(Metric) \cup {None}]
    /\ lifecycle_ok \in BOOLEAN
    /\ out \in Seq(Message)

\* The messages of type t that the last step handed to the broker.
Handed(t) == {out[i] : i \in {j \in DOMAIN out : out[j].type = t}}

\* Every NBIRTH and every NDEATH on a connection carries the bdSeq of the will
\* registered for that connection: across rebirths, failed connects and failed
\* stores, a host can match the death to the birth (connect, ndeath_payload,
\* publish_birth_sequence).
SessionBdSeq ==
    \A m \in Handed("NBIRTH") \cup Handed("NDEATH") : m.bdSeq = session.will

\* Whenever a connection is up, the bdSeq that the next connect would take, in
\* this process or after a crash, differs from that connection's will: its late
\* NDEATH can not be mistaken for the death of the session that replaces it
\* (connect stores the next bdSeq before it connects).
RestartWillDiffers == session.open => store # session.will

\* If the last connect or disconnect returned Ok, no NDATA reaches a connection
\* before an NBIRTH and no DDATA before a DBIRTH of its device, across lost
\* connections, partly failed births and device deaths.  DDATA of a node that
\* still waits for its primary host is the exception DeviceDataAnnounced shows.
DataAnnounced ==
    lifecycle_ok =>
        /\ Handed("NDATA") # {} => announced[None] # None
        /\ \A m \in Handed("DDATA") :
              announced[m.device] # None \/ state = "WaitingForPrimaryHost"

\* The same for DDATA without the exception: a DDATA is published only for a
\* device born on this connection (publish_device_data, "for a born device").
DeviceDataAnnounced ==
    lifecycle_ok => \A m \in Handed("DDATA") : announced[m.device] # None

\* Does the birth list the metric that the data's key k was made from, under
\* that key and under no other?
Resolves(k, metrics) ==
    /\ \E j \in DOMAIN metrics :
          /\ metrics[j].name = k.value
          /\ k.name = metrics[j].name \/ k.alias = metrics[j].alias
    /\ \A j \in DOMAIN metrics :
          k.alias # None /\ metrics[j].alias = k.alias => metrics[j].name = k.value

\* The key of every data metric, name or alias, leads back to the metric it was
\* read from in the last birth of its scope: alias numbering restarts with each
\* birth sequence and is shared by the node and its devices (assign_aliases,
\* to_data_metrics).
DataResolvable ==
    \A m \in Handed("NDATA") \cup Handed("DDATA") :
        announced[m.device] # None =>
            \A i \in DOMAIN m.metrics : Resolves(m.metrics[i], announced[m.device])
=============================================================================
