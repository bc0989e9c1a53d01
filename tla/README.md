# A TLA+ model of sparkplug-b

`sparkplug-b` implements the Sparkplug B protocol over MQTT in Rust. A pure core
(codec, model, topics, sequence counters, alias registry) carries two engines:
`EdgeNode` (`src/edge.rs`), which gives birth to a node and its devices and
reports their data, and `HostApplication` (`src/host.rs`), which follows many
edge nodes. Neither engine has a task or a timer: the application calls their
`async` methods, each of which borrows the engine mutably until it returns.

This directory holds the specification of that protocol as the code implements
it, the TLC runs that check it on small instances, and proofs, checked with TLAPS,
of the properties that matter most.

## 1. Inventory

| Part | State | Operations | Hard because |
|---|---|---|---|
| Edge engine, `edge.rs` | `state`, `seq`, `bd_seq`, aliases, `next_alias`, `born_devices`, rebirth debounce, `last_state_ts` | `connect`, `publish_birth_sequence`, `publish_node_data`, `publish_device_data`, `publish_device_death`, `handle_incoming`, `disconnect` | every await may fail, or the future may be dropped there, and leaves the fields half written; the engine does not learn that the connection is gone |
| Host engine, `host.rs` | per node: `online`, `bd_seq`, `expected_seq`, registries, devices, rebirth slot; the STATE timestamp | one handler per message type, `rebirth`; `start`, `shutdown`, STATE repair, command publishers | messages are lost, late, repeated, of an older session; requests are debounced; memory is lost in a restart |
| Counters and store, `sequence.rs` | `Seq` (u8), the stored bdSeq | `next_value`, `reset`; `load_next_death`, `store_next_death` | wrap-around; a crash between store and connect, or inside the file's write and rename |
| Alias registry, `alias.rs` | name, alias and datatype maps | `bind`, `try_bind`, `clear`, lookups | one registry for several scopes on the edge; duplicates |
| Transport, `transport.rs` | rumqttc's request channel and event loop | `connect`, `subscribe`, `publish`, `disconnect`, `recv` | a bounded channel drained by `recv` only; automatic reconnect |
| Topics and STATE, `topic.rs`, `state.rs` | none | parse, format | malformed input |
| Codec, `codec/` | none | encode, decode | numeric edges of varints and arrays, recursion depth, datatype recovery, cut and foreign bytes |
| Compression, `compress.rs` | none | `compress`, `decompress` | a payload in a payload, one of whose metrics names the algorithm |
| Model, values, errors | none | builders, conversions | no behaviour over time |

How the parts interact. The edge calls its store and its transport inside
`connect`; the broker holds the NDEATH will that `connect` registers; what the
edge publishes reaches the host's `handle_incoming` through the broker in order,
with losses (QoS 0), and the will comes when the broker notices a lost
connection, perhaps after the next session has begun. The host answers anomalies
with a rebirth NCMD, which the edge's `handle_incoming` turns into a new birth
sequence. The edge may also be gated on the retained STATE of a primary host, which that
host announces in `start`, withdraws in `shutdown` or by its will, and repairs
when a late will of an earlier connection has replaced it.

What makes each part correct:

* edge: births and deaths carry the bdSeq of the connection's will; data follows
  its birth on the same connection and can be resolved with it; a gated node
  gives birth only for its primary host; a restart never repeats a bdSeq that is
  still in use;
* host: its application is shown data only of what is alive, and nothing that had to
  be read with a birth that does not list it; a death is believed only if it belongs
  to the session; a gap ends the session;
* primary host: a host that dies is not left online; a host that is up is
  retained as online; gated nodes follow it in the end;
* session: the two ends agree when all has arrived; no loss goes unnoticed; no
  rebirth without a reason; after trouble the two ends find together again;
* store and transport: a stored number survives a crash; nobody waits for
  themselves on a full channel;
* pure parts: decode inverts encode, parse inverts format, numbers keep their width.

`PROJECT.json` lists every hazard of this kind at its line, with the properties
that would notice it. A hazard without properties has a note that says why: mostly
that it takes a call nothing allows and nothing forbids, or that no document says
what should happen.

## 2. Modules

| Module | What it is |
|---|---|
| `Sparkplug` | vocabulary of both engines: wrapping counters, metrics, messages |
| `EdgeNode` | the edge engine over a transport and a store |
| `EdgeNode_proofs` | its theorems |
| `ConsumerView` | abstract: what the application behind a host may rely on |
| `HostApplication` | the host engine as one node sees it; implements `ConsumerView` |
| `HostApplication_proofs` | its theorems, the refinement among them |
| `Session` | an edge, the broker and a host together |
| `Session_proofs` | its theorems |
| `Recovery` | `Session` with an end to its faults: liveness |
| `PrimaryHost` | a host's own STATE: start, shutdown, repair, the retained message |
| `PrimaryHost_proofs` | its theorems |
| `GatedSession` | `EdgeNode` and `PrimaryHost` together: a node gated on its host |
| `GatedSession_proofs` | its theorems |
| `BdSeqStore` | abstract: a number that is replaced all at once or not at all |
| `FileBdSeqStore` | the file store; implements `BdSeqStore` |
| `FileBdSeqStore_proofs` | its theorems, the refinement among them |
| `RumqttcTransport` | the adapter's channel, the client's event loop, the broker's end |
| `PumpedNode` | `EdgeNode` over `RumqttcTransport` |
| `PumpedNode_proofs` | its theorems |
| `Topic` | identifiers, topics, their text and its parser; filters |
| `Routing` | subscriptions and dispatch of several nodes and hosts |
| `Wire` | numbers and arrays on the wire |
| `Reader` | fields as bytes, and how they are read back |
| `Messages_proofs` | theorems of `Routing`, `Wire` and `Reader` |
| `AliasRegistry` | the registry's four maps |
| `Codec` | encoding and decoding of payloads, and data read with a birth's registry |
| `Compression` | the envelope around a payload |
| `MCEdgeNode`, `MCHostApplication`, `MCSession`, `MCRecovery`, `MCGatedSession`, `MCFileBdSeqStore`, `MCPumpedNode`, `MCMessages` | instances for TLC |

### EdgeNode

One variable per field of `struct EdgeNode`, under its name. `debouncing` says
that `last_rebirth` is younger than the debounce window. `store` is what the
bdSeq store returns and survives a crash. `session` is the
broker's side: whether the connection is up, and its will. `birth` is the place
where `publish_birth_sequence` is suspended and the method that called it.

A method with one publish is one action; its disjuncts are the ways it ends. An
`Err` and a future dropped at that await leave the same fields. `connect` ends in
one of five ways (`ConnectStoreFails`, `ConnectRefused`,
`ConnectSubscribeFails`, `ConnectAndWait`, `ConnectAndBirth`). The birth sequence
is the one operation with many awaits: `StartBirths` writes the fields,
`PublishNodeBirth` and `PublishDeviceBirth` publish one birth each, and in
between the connection may drop, time may pass and the process may die, but no
other method can start, since the engine is borrowed.

Abstractions: a metric's value is the name of the metric it was read from; the
births list the names of a fixed `DataSource`, without the two control metrics,
which are never aliased; data carries one metric; timestamps inside payloads are
left out. `announced`, `lifecycle_ok` and `out` are observers: the births the
broker has seen on this connection, whether the last `connect` or `disconnect`
returned `Ok`, and what the last step handed to the broker.

### HostApplication and ConsumerView

The variables are the fields of `NodeState`. `event` is what `handle_incoming`
returned, `ncmd` whether it published a rebirth request; `corrupt` is an
observer. A registry is abstracted to what decoding reads of it: which names have
a datatype and which name each alias stands for; `Bound` is the outcome of
`clear` followed by `try_bind` for each metric. A metric says whether it carries its
datatype (`typed`). DATA decodes when each of its metrics carries one or has a key
that the registry knows (`HasType`, for `decode_metric` and `recover_datatype`);
`resolve_names` then fills in the names of aliases, and leaves a typed metric whose
alias is unknown without one. This crate's edge sends births with datatypes and data
without; hosts take either from any encoder, and a birth without them does not
decode. A malformed birth or death leaves the engine untouched and is the same as a
lost one.

`ConsumerView` says what the events promise: data only of a live node or device,
and if its datatype had to be taken from the birth, only under a name that this
birth listed; a node's death only with the bdSeq of the birth shown and with exactly
the devices shown as online; after a break, nothing but the next `NodeBirth`.
`HostApplication!View` is the mapping.

### Session and Recovery

`EdgeNode` and `HostApplication` side by side. `up` is the ordered queue from
the edge through the broker to the host, `late_wills` the wills that the broker
has yet to publish, `requests` the NCMDs on their way back. A message that is
lost, or whose publish failed after it had taken a sequence number, leaves a
`Hole` in the queue, so that the observer `missed` knows what the host can only
conclude. `trouble` records that anything was lost, that a call failed, or that
the host restarted.

The node of `Session` is not gated, and its application publishes data only
after a `connect` that returned `Ok` (`EdgeNode` itself has no such restriction).

`Recovery` adds `calm`, a moment after which nothing is lost, fails or crashes.
Before it, everything may have: births, data, requests, the host's memory.
`Recovers` says that the host shows the node as online for good. It claims no
more: when the NBIRTH of a rebirth is lost and the DBIRTH or data that follows
has the number the host expects, the host stays in the old session, with the old
bdSeq and alias map, and nothing tells it otherwise.

### PrimaryHost

`state_ts` is the engine's field. `phase` is where `start` or `shutdown` is
suspended: after `connect` (`connected`), after the subscriptions
(`subscribed`), or between the offline STATE and the transport's `disconnect`
(`leaving`). `HandleOwnState` is `handle_incoming` for the host's own STATE, its
repair included. Each await may fail, that for the data filters after the STATE
topic has been subscribed; the connection may be lost and the process may die at any
point.

The rest of the state is the broker's: `link` (the connection and its will),
`subscribed` and `inbox` (what it delivers back to the host), the `retained`
message, and `late_offlines`, the wills it has yet to publish. `posted` and
`failed` are observers. The data filter `spBv1.0/#` covers the STATE topic too;
the two subscriptions deliver one copy here. `now` is read by `start` and
`shutdown` only and does not go back.

### GatedSession

`EdgeNode` and `PrimaryHost` over the same broker: `to_edge` is the ordered queue
of STATE messages to the node, `edge_hears` its subscription, which the broker
answers with the retained message. The node's application connects and
disconnects; births are left to the engine. Rebirth requests, data and connects
that fail before the broker accepts them are left out: `EdgeNode` has them.

### BdSeqStore and FileBdSeqStore

`BdSeqStore` is the trait's promise to its users. `FileBdSeqStore` has the file
under each path, the temporary files, and `progress`, the system call at which a
`store_next_death` stands: the truncation of the temporary file, its write, the
rename. Each may fail, other users run in between, a process may die and another
one come with its pid and its leftovers. Nothing is synced: `doubtful` is what a
power loss may bring back instead of the file, an older number or a file without
text. After a power loss both levels may hold `Unreadable`, for which `connect`
fails until somebody repairs the file; what is excluded is a number that nobody
stored. The assumption is that no two stores of one process have the same path,
since the temporary file is named after path and pid only.

`EdgeNode` has the number as one variable, `store`, which a store that fails leaves
as it is.

### RumqttcTransport and PumpedNode

`subscribe`, `publish` and `disconnect` put requests into `channel`; `Transmit`,
`RecvFails` and `Reconnect` are what a `recv` does: send a request, report a
broken connection once, connect again when polled after that. `link` says whether
the connection is alive, `network` whether the event loop still believes so,
`conn` is the will the broker holds. A connect attempt may be given up after the
broker has accepted it. rumqttc and the broker are modelled from how the adapter
uses them.

`PumpedNode` joins this with `EdgeNode`, whose `session` and `announced` become
the client and what was handed to it; its actions give the requests to enqueue,
through `out`. The application drives `recv` all the time, also after an error,
or calls `connect` again; after a `connect` or `disconnect` that failed it calls
`connect` before anything else, and after its own `disconnect` it publishes
nothing. `world` and `known` are what somebody knows who hears all that the
broker publishes.

`PumpAssumption` asks for a channel that holds the subscriptions of a `connect`.
An ungated `connect` also enqueues the births, all before the next `recv`: it
needs room for 2 + 2 * devices requests, and the instance has exactly that.
With the capacity of 256, a node that has 128 devices or more and no primary host
waits for itself in `connect` (listed as a hazard at `src/transport.rs:198`).

### Topic and Routing

A text is the sequence of its parts between slashes. `Parse`, `ToText` and the
constructors follow `SparkplugTopic`; `Matches` is how a broker compares a filter
with a topic. Host ids are texts of any number of parts, since nobody validates
them. `Routing` has any number of nodes and hosts; one message is published at a
time, and `at_nodes` and `at_hosts` are what the engines' `handle_incoming` makes
of it. Messages do not influence each other here, but a rebirth request is an
answer to the message before it. `meaning` is what its publisher meant. The
enum's fields are public, so an application may build a topic of other parts; the
engines do not.

### Wire, AliasRegistry, Codec, Reader, Compression

In `Codec` a message is the sequence of its fields; a field has a number, a wire
type and a content: a varint, bytes, or a message. The encoders follow the code
field by field, and the decoders pick fields by number and wire type, the last
one winning, and pass errors on as `?` does. `bytes` holds the message between
`Encode` and `Decode`; `PublishData` lets the receiver bind the birth's metrics
into an `AliasRegistry` and goes on with data from which the datatypes are
stripped.

`Reader` is why a message may be taken for its fields: it writes fields as bytes,
cuts them anywhere, and reads them with the loop that all decode functions share,
each arm of which consumes what the wire type says. `Read` is one turn of that loop,
and `found` its position, the fields it has and the error that left it. Overlong varints, unknown wire
types and field numbers beyond 32 bits are among the fields.

`Compression` wraps a payload in another one. Compressed bytes are opaque; only
the algorithm that made them opens them.

A byte has `ByteBits` bits. All widths scale with it: integers of one to eight
bytes, the elements of arrays, the groups of a varint, the bits of a boolean
array. `MaxDepth` stands for `MAX_DEPTH`. Property values and parameters have the
type that is declared for them, and strings in arrays hold no zero byte (the
reader splits there).

## 3. Runs

Passing:

| Run | Shows | Bounds |
|---|---|---|
| `edge` | `TypeOK`, `SessionBdSeq`, `RestartWillDiffers`, `DataAnnounced`, `DataResolvable` with failures at every await, crashes and lost connections; all four combinations of gating and aliases | two devices, one metric each; `SeqMod` = `BdMod` = 3, so both counters wrap; two STATE timestamps |
| `host` | `HostTypeOK`, `ViewImplemented`: any message of the input set at any time | two devices, two names, two aliases; data by name and by alias, with and without datatypes, and both in one message; every sequence number or none (births: the first, the last or none); bdSeq 0, 1 or none |
| `session` | `GapDetected`, `DeathIsTrue`, `RebirthHasReason`, `Agreement`: crashes, silent connection losses, late wills over up to three connections; losses, failed calls and host restarts on the first one (`MCOneTrouble`) | one device with an alias; two messages in flight; one lost message between two births, any number of births; `SeqMod` = 2; three connects of four bdSeqs, the store starting at 2, so that they wrap |
| `recovery` | `Recovers` under fairness, after losses, failures, crashes of either side and a reconnect | no device; one message and one request in flight; one lost message between two births; two connects |
| `gate` | `PrimaryTypeOK`, `OnlineHasWill`, `Reasserted`, `GateAgreement`, `EndsForReason`, and under fairness `GateOpens` and `GateCloses`: both ends fail, die, start and stop at any time, wills come late. Only one end at a time has a failed call behind it (`MCOneFails`) | no device; two clock readings; two connects of the node; two STATE messages in flight to each end |
| `store` | `OwnTmp`, `StoreImplemented` | two processes on one file; three numbers |
| `transport` | `DeathIsTold`, `FreshDataAfterBirth`, `ConnectReturns` | one device; a channel of four, which a `connect` just fills; two broken links; two connects |
| `messages` | `ReportsRouted`, `CommandsRouted`, `StateRouted`, `ParsedIsPrinted` of topics; `BirthRoundTrip`, `DepthLimit`, `DataReadAsBorn` of payloads with every datatype; `FieldsAsWritten` of bytes; `OpenedAsSent` of envelopes | nodes of one name in two groups, a group called STATE, invalid host ids, foreign topics of up to six parts; `ByteBits` = 3, `MaxDepth` = 4; values at the edges of their widths, null values, arrays of up to four elements, nesting below and above the limit, two metrics with or without aliases; one or two fields cut at every byte |

Why the bounds are enough. The engines compare sequence numbers for equality only
and step them by one, so two or three values show a wrap, a gap and a match, as
long as fewer messages than that are lost between two births. bdSeqs are
likewise compared for equality; the number of connects stays below `BdMod`,
because a number in use twice is a hazard of its own (listed, not covered). Two
devices give births that fail in the middle, and an order among devices. STATE
timestamps are compared only: two readings of the clock give an earlier and a
present connection of the host, with a will each, and a shutdown that shares its
timestamp with a start. A channel that a `connect` just fills is the worst case of
messages that wait when the connection breaks. The codec treats all bytes but an
array's last one alike, so their width does not matter as long as it has more than
one bit; each kind of nesting adds one to the depth, so a limit of four is met by
each of them and by their mixtures. `messages` enumerates finite inputs; it says
nothing of payloads outside of `MCBirths` and `MCDataOf`. With three bits to a
byte a varint of the longest legal length holds 64-bit values exactly; with eight
the tenth byte has bits to spare (see below).

Violated, each a disagreement between the code and what it says of itself (the
details are under `findings` in `PROJECT.json`):

| Run | What happens |
|---|---|
| `transport_reconnect` | after an error of `recv`, the next one reconnects with the same will and without subscriptions, and the engine, still `Online`, goes on publishing data on a connection without births |
| `edge_device_data` | a gated node reconnects and, while it waits, DDATA passes the check on `born_devices`, before any birth (the action constraint `MCPlainHistory` keeps the history free of errors) |
| `edge_shared_names` | two devices with a metric of the same name and aliases on: data of the first goes out under the second's alias |
| `host_corrupt_birth` | a DBIRTH that uses an alias twice leaves the session valid, and data of that device is shown |

Beyond the runs, found while the modules were written:

* a `connect` on a live connection that fails after `bd_seq` was overwritten
  leaves an engine whose next NBIRTH or NDEATH carries a bdSeq that is not its
  will's (`EdgeNode` with `ReconnectWhileOpen` violates `SessionBdSeq`). Its twin is
  a `start` on a connection that is still up and which the transport refuses
  (`PrimaryHost` with `StartWhileOpen` violates `OnlineHasWill`). Nothing says that
  an application may do either; the passing runs and the proofs exclude it, except
  for `transport`, where a `connect` replaces the connection;
* a metric in DATA that carries its own datatype is decoded without the registry
  (`src/codec/decode.rs:109`) and shown whether or not the birth lists it, without a
  name if its alias is unknown (`src/host.rs:214`). Nothing asks the host to refuse it,
  so `ConsumerView` allows it, and `ViewImplemented` speaks of the other metrics;
* a `disconnect` whose NDEATH went out and whose transport then fails leaves the
  engine `Online` on a session it has declared dead (`src/edge.rs:646`); data that the
  application then publishes provokes a rebirth. No property asks anything of this
  stretch: `DeathIsTrue` counts a death the engine announced as true;
* a rebirth NCMD lets a node that waits for its primary host give birth, where
  `src/edge.rs:58` has it "awaiting the configured primary host's online STATE before
  birthing";
* DDATA of a device whose DBIRTH was lost is dropped without being counted and
  without ending the session, so that after a whole cycle of sequence numbers a
  message looks in sequence again. `Session` bounds uncounted messages below
  `SeqMod`;
* a template member in data that has the name (or the alias) of a metric of the
  birth is read with that metric's datatype, where the comment in
  `decode_template` (`src/codec/decode.rs:480`) promises an error rather than a
  silent misreading. `DataReadAsBorn` excepts that case;
* a primary host id such as `NDATA/e`, which nobody validates, makes a STATE
  filter and topic that are parsed as a node's topic, and one with a wildcard a
  filter that hears other hosts: such a node never sees its host (`WellGated`);
* an envelope that is itself encoded as data loses the datatype of its
  `algorithm` metric and is then taken for DEFLATE (`OpenedAsSent` excepts it);
* a string that holds a zero byte, as a Rust `String` may, is read back from a
  string array as two strings: the elements are told apart by their zero bytes
  alone (`src/codec/arrays.rs:8`), so `ArrayRoundTrip` speaks of strings without one;
* the tenth byte of a varint may carry bits beyond the 64th; they are dropped
  rather than reported as `VarintOverflow` (`src/error.rs:27`).

Fairness. `GatedFairness` is weak fairness of four actions: the node handles the
STATE that has arrived, the node goes on with a birth sequence it has begun, the
host goes on with a call it has begun and with what it has received, and the
broker publishes the will of a lost connection. The first three hold because the
transport demands that applications drive their receive loops and poll what they
have called (`src/transport.rs:195`); the last is MQTT's keep-alive. Nobody has to
connect, start or shut down, and the properties are about the stretch in which
nobody does.

`RecoveryFairness` is weak fairness, in the calm, of publishing (the application
goes on reporting data, or with the births it has begun), of both receive
loops and of the end of both debounce windows, which is time passing. It asks for
data because neither engine has a timer: a node that reports nothing is not
missed by its host. The other specifications state no fairness: their properties
are safety properties.

## 4. Proofs

The theorems hold for all values of the constants that meet the assumptions
of the modules (`SparkplugAssumption`, `EdgeNodeAssumption`, ...), in particular for
`SeqMod` = `BdMod` = 256 and any number of devices, metrics, nodes, hosts, stores,
processes and messages in flight. What a theorem needs beyond that is its
hypothesis, named in the table.

One component at a time:

| Theorem | Statement | Argument |
|---|---|---|
| `TypeCorrect` | `Spec => []TypeOK` | inductive as it stands; one lemma for each helper, one step for each action |
| `SessionBdSeqHolds` | `Spec => []SessionBdSeq`, given `~ReconnectWhileOpen` | strengthened by `SessionInv`: a live connection is the one `bd_seq` was loaded for, and the store is one ahead of it |
| `RestartWillDiffersHolds` | `Spec => []RestartWillDiffers`, same hypothesis | from `SessionInv`, since stepping a counter of at least two values changes it |
| `DataAnnouncedHolds` | `Spec => []DataAnnounced` | strengthened by `AnnouncedInv`: during a birth sequence the births so far are with the broker, and without errors so is all the engine may report on |
| `DataResolvableHolds` | `Spec => []DataResolvable`, if no two scopes of a node that uses aliases share a metric name (`NamesApart`) | strengthened by `AliasInv`: the node's metrics are numbered from 0 by every birth sequence, and the birth that the broker has of a born device lists its metrics under the aliases that the registry holds |
| `HostTypeCorrect` | `HostSpec => []HostTypeOK` | strengthened by `RegistriesInv`: what an alias stands for is a name its registry lists |
| `HostImplementsView` | `HostSpec => ViewImplemented`, if no DBIRTH uses an alias twice; data may carry datatypes or not, and only what lacks one has to be listed | one lemma for each handler, from the same invariant |
| `PrimaryTypeCorrect` | `PrimarySpec => []PrimaryTypeOK` | inductive as it stands |
| `OnlineHasWillHolds` | `PrimarySpec => []OnlineHasWill`, given `~StartWhileOpen` | strengthened by `LinkInv`: the engine's timestamp is its will's, and a host about to disconnect has replaced its birth |
| `ReassertedHolds` | `PrimarySpec => []Reasserted` | strengthened by `RepairInv`: a retained offline is the last message on its way to a host that is up, a retained online is its own |
| `OwnTmpHolds` | `FileSpec => []OwnTmp` | inductive with `FileTypeOK`: no other user has the name of a temporary file |
| `FileStoreImplementsTrait` | `FileSpec => StoreImplemented` | one step for each action: the truncation and the write stutter, the rename is the store |
| `ParsedIsPrintedHolds` | `RoutingSpec => []ParsedIsPrinted` | the parser by cases on the number of parts |
| `ReportsRoutedHolds`, `CommandsRoutedHolds`, `StateRoutedHolds` | `RoutingSpec => []...` of the properties | `RoutingInv`: what is under way has the topic of its meaning; a filter without wildcards matches its own text only |
| `VarintRoundTrip` | for every number `v`, `WriteVarint(v)` ends at its last byte and nowhere before it, and `ReadVarint(WriteVarint(v)) = v` | induction over the number, below |
| `ArrayRoundTrip` | for every array type and each of its values, `Unpack(type, Pack(type, v)) = Ok(v)`; strings have no zero byte, and a u32 counts the bits | induction over the bytes of a number, the bits and the strings, below |
| `FieldsAsWrittenHolds` | `ReaderSpec => []FieldsAsWritten` | `ReaderInv`, below |

Components joined:

| Theorem | Statement | Argument |
|---|---|---|
| `GatedRunsPrimary` | `GatedSpec => PrimarySpec` | the node changes nothing of the host's or the broker's; `GatedPrimaryTypeCorrect`, `GatedOnlineHasWill` and `GatedReasserted` follow from it |
| `GateAgreementHolds` | `GatedSpec => []GateAgreement`, given `~StartWhileOpen` | `GatedInv`, below |
| `EndsForReasonHolds` | `GatedSpec => EndsForReason`, same hypothesis | from `TimeInv`: an offline message is older than the host's last start |
| `PumpTypeCorrect`, `DeathIsToldHolds` | `PumpSpec => []PumpTypeOK`, `PumpSpec => []DeathIsTold` | `DeathInv`, below |
| `ConnectReturnsHolds` | `PumpSpec => []ConnectReturns`, if the channel has room for `2 * (devices + 1)` requests | `RoomInv`: during `connect` the channel holds its subscriptions and the births so far |
| `FreshDataAfterBirthHolds` | `PumpSpec => []FreshDataAfterBirth` for a node without a primary host | `KnownInv`, below |
| `SessionTypeCorrect`, `DeathIsTrueHolds`, `GapDetectedHolds` | `SessionSpec => []...`, given `~ReconnectWhileOpen`, for nodes without a primary host | `SInv`, below |
| `RebirthHasReasonHolds`, `AgreementHolds` | `SessionSpec => []...`; moreover names are `NamesApart` if aliases are used, and the host can hold every alias the edge may hand out (`Nat \subseteq Aliases`) | `CalmInv`, below |
| `SessionImplementsView` | `SessionSpec => ViewImplemented`, without `HostImplementsView`'s hypothesis on the messages | the edge numbers the metrics of a birth one after the other, so no DBIRTH in the queue uses an alias twice (`SoundQueue`) |
| `SessionRunsEdge`, `PumpRunsEdge`, `GatedRunsEdge` | `SessionSpec => JoinedSpec`, `PumpSpec => JoinedSpec`, and `GatedSpec => JoinedSpec` given `~StartWhileOpen`: a step among others is one of `EdgeNode`'s or lets the engine wait | step by step; a STATE that reaches the gated node is one that may reach it in `EdgeNode` by `GatedInv` |
| `JoinedKeepsBdSeq`, `JoinedKeepsAnnounced`, `JoinedKeepsResolvable` | `JoinedSpec => []...` of `SessionBdSeq` and `RestartWillDiffers`, of `DataAnnounced`, and of `DataResolvable`, with the hypotheses above | the invariants of `EdgeNode`, which no waiting disturbs |
| `SessionKeepsEdge`, `SessionKeepsResolvable`, `PumpKeepsEdge`, `GatedKeepsEdge` | these properties for the joined modules whose actions can disturb them | from the two rows above |

The strengthenings are defined in the `_proofs` module of their component.

Induction and recursion. The library's induction theorems take a predicate as a
parameter, which the provers can not instantiate. `Messages_proofs` states induction
with a set instead: a set of numbers that has `n` whenever it has all smaller ones is
`Nat` (`Induction`, from the library's theorem that a well-founded order has minimal
elements), and builds from it the function that a recursive definition over `Nat`
denotes (`Recursion`). This is enough for `Power2`, the varints, the array packing and
the concatenated bytes of fields (`StreamGrows`), whose arguments are numbers and
sequences of numbers.

`ArrayRoundTrip` has three parts. Numbers: elements have equal length, so they are
found at its multiples (`FlattenPieces`), and their bytes sum up to the bit pattern
(`BytesBack`), which is narrowed to the number it was made of (`NarrowBack`). Bits:
while bit n is packed, all bits from there on are 0 in its byte, so adding its weight
sets it and leaves the earlier ones, whose weights are multiples of twice its own
(`SetBit`, `BitsShown`). Strings: `Split` ends a string at its zero byte and
nowhere before it (`SplitTexts`). It is about the conversions that `BirthRoundTrip`
checks on short arrays.

`ReaderInv` says where the loop is: it has read the first n of the fields that were
sent, stands behind their bytes, and if it has failed, then as `FailsAs` says it must
at a field that is cut off there or not in the schema. The step (`FieldShown`) shows
what the reader makes of the bytes in front of it: each read of a tag, of a length
or of a content takes exactly the bytes that were written for it if they have
arrived, and otherwise fails as it should; no other field's bytes are looked at. That
the tag is the one that was written is `VarintRoundTrip`.

The inductive invariants of the joined components:

* `GatedInv`. `GateAgreement` speaks of the moment when all has arrived, so the
  invariant has to say what is under way. `EdgeUpToDate`: the last STATE on its way to a
  node that listens is the retained one, and when none is, the node has acted on it
  or was told of something later. `EdgeIsTold`: for a node that has given birth, and
  behind each online STATE on its way, the end of that connection of the host
  follows: the connection is up, its will is due, or a death is under way. `TimeInv`
  orders all timestamps below the clock and below the host's last start, with
  `LinkInv`, `OnlineHasWill` and `RepairInv` taken over from `PrimaryHost`.
* `DeathInv` of `PumpedNode`. Four actors hold a bdSeq: the engine, the client, the
  broker and those who listen. The first three agree while the link is up (`ClientInv`,
  `ConnInv`), births and deaths in the channel carry the client's (`ChannelBdSeq`), and a
  DISCONNECT comes right after an NDEATH (`GoodbyeInv`): the broker drops a will only
  after the death has been told.
* `KnownInv` of `PumpedNode`: after the first n requests of the channel, the scopes
  known are those the engine takes for announced, for each n at which data waits.
* `SInv` of `Session`, for `DeathIsTrue`: the wills still out and the deaths in flight
  have bdSeqs that some `connect` has taken, and there were fewer of these than
  numbers (`TakenInv`), so none of them is the live connection's (`DeathInv`). For
  `GapDetected`: `NumbersInv` runs from the number the host expects, past what it
  missed and along the queue, to the number the edge uses next; `LossesInv` keeps
  fewer losses than numbers, so the host can not be off by a whole cycle.
* `CalmInv` of `Session`: as long as nothing went wrong, each message of the queue finds
  the host in the state that the one before it leaves, is accepted there, and the
  last one leaves it with what the edge has published (`ViewInv`). `OpenInv` says that
  a connection is then one that `connect` completed or is completing, and that no
  device is announced but those the edge counts as born. Both properties are this
  invariant, read at the front of the queue and for an empty one.

The hypotheses. `~ReconnectWhileOpen` and `~StartWhileOpen` say that the
application does not call `connect` or `start` on a live connection; section 3
says what happens if it does. `NamesApart` is needed: `edge_shared_names`. So is
that of `HostImplementsView`: `host_corrupt_birth`. A node that waits for its primary
host publishes the data of its devices before any birth (`edge_device_data`), hence
`FreshDataAfterBirthHolds` is about nodes without one; `Session` has only such nodes
by construction (section 2). The room for `ConnectReturnsHolds` is what a `connect`
enqueues: with 256, the default, it is there for 127 devices.
`BirthAssumption` says that `None`, which stands for an engine that is idle, is no
place in a birth sequence; `GatedAssumption`, that the node may be handed every
timestamp the host's clock shows.

Model-checked only:

* the liveness of `GateOpens`, `GateCloses` and `Recovers`, which is out of the
  prover's reach;
* `BirthRoundTrip`, `DepthLimit`, `DataReadAsBorn` and `OpenedAsSent`: the codec recurses
  over messages that nest in each other to any depth, and TLC evaluates functions only
  over sets whose members it can tell, of which none holds all of these, so its
  operators are `RECURSIVE` ones, which the prover does not reach, and not functions
  like those of `Wire`. What they make of arrays is `ArrayRoundTrip`;
* the four properties that do not hold (section 3).

## 5. Not modelled

* the parsing of the STATE text, which the engines' modules start from;
* packed column types, invalid UTF-8, repeated fields and the array bytes of other
  encoders; the compressors themselves; the transport's TLS options, which may make
  `connect` fail, as it may anyway;
* the host's command publishers outside of `Routing`, and edges that receive
  commands other than a rebirth: they change no state;
* a node with an `InMemoryBdSeqStore` starts over from its seed after a crash,
  and its late wills may match; a node that connects 256 times while an early will
  is still on its way meets its number again;
* a host whose clock moves back;
* a `DataSource` whose metrics change between births, or that lists a bdSeq
  metric of its own;
* a device listed twice in `EdgeNodeConfig.devices`.

## 6. Plan

Every safety property that the passing runs check is a theorem, but for those of
the codec and the compression. What is left:

1. `DeathIsTrue` and `SessionImplementsView` for a `Session` whose node may have a
   primary host: they do not depend on who opens the birth sequence, but `SInv`
   carries `NumbersInv`, which such a node does not keep. It would have to be split.
   `GapDetected` is not among them: a node that waits for its host publishes the data
   of its devices under numbers that no birth has announced (section 3);
2. `FreshDataAfterBirth` of the NDATA, as opposed to the DDATA, of nodes with one.
