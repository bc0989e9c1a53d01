------------------------------ MODULE PumpedNode ------------------------------
(***************************************************************************)
(* The Edge Node engine over RumqttcTransport: its calls only enqueue, and *)
(* what it enqueued reaches the broker while the application drives        *)
(* recv_and_handle.                                                        *)
(*                                                                         *)
(* EdgeNode's `session' and `announced' are here the client of the         *)
(* transport and the births handed to it; EdgeNode's ConnectionLost is     *)
(* replaced by the steps of the transport.  `world' and `known' are what   *)
(* somebody knows who hears all that the broker publishes.                 *)
(*                                                                         *)
(* The application drives recv_and_handle all the time, also after an      *)
(* error, or calls connect again, as it likes.  After a connect or a       *)
(* disconnect that failed it calls connect before anything else, and it    *)
(* publishes nothing after its own disconnect.                             *)
(*                                                                         *)
(* Bounds: MaxConnects bdSeqs taken (fewer than BdMod), MaxBreaks broken   *)
(* links.                                                                  *)
(***************************************************************************)
EXTENDS EdgeNode, RumqttcTransport

CONSTANTS MaxConnects, MaxBreaks

\* connect can enqueue its subscriptions.
ASSUME PumpAssumption ==
    /\ {MaxConnects, MaxBreaks} \subseteq Nat
    /\ MaxConnects < BdMod
    /\ ChannelCapacity >= Len(DeviceList) + 2

VARIABLES
    world,      \* observer: bdSeq of the last NBIRTH published, until its NDEATH
    known,      \* observer: scopes with a birth published since
    fresh,      \* observer: the network connection is the one that connect made
    connects, breaks

pumpObservers == <<world, known, fresh>>
pumpVars == <<vars, transportVars, pumpObservers, connects, breaks>>

EngineIdle == Quiet /\ UNCHANGED <<config, fields, birth, store, session, lifecycle_ok>>

\* What the broker publishes is heard.
Hear ==
    IF published' = << >>
    THEN UNCHANGED <<world, known>>
    ELSE LET m == published'[1] IN
         CASE m.type = "NBIRTH" -> world' = m.bdSeq /\ known' = {None}
           [] m.type = "NDEATH" /\ m.bdSeq = world -> world' = None /\ known' = {}
           [] m.type = "DBIRTH" /\ world # None ->
                 UNCHANGED world /\ known' = known \cup {m.device}
           [] m.type = "DDEATH" -> UNCHANGED world /\ known' = known \ {m.device}
           [] OTHER -> UNCHANGED <<world, known>>

-----------------------------------------------------------------------------
(* Calls of the engine. *)

\* Fault: connect subscribes to STATE whether there is a primary host or not.
Subscriptions_State ==
    <<Subscribe("NCMD")>>
        \o [i \in DOMAIN DeviceList |-> Subscribe(DeviceList[i])]
        \o <<Subscribe("STATE")>>

\* NCMD, DCMD of each device, and the STATE of the primary host if there is one.
Subscriptions ==
    <<Subscribe("NCMD")>>
        \o [i \in DOMAIN DeviceList |-> Subscribe(DeviceList[i])]
        \o (IF config.gated THEN <<Subscribe("STATE")>> ELSE << >>)

MustRetry == session.open /\ ~lifecycle_ok /\ Idle

\* The application connects first, after its disconnect, or after a recv that failed.
NodeConnects ==
    /\ ~network \/ ~session.open \/ MustRetry
    /\ connects < MaxConnects
    /\ \/ ConnectStoreFails /\ TransportIdle /\ UNCHANGED fresh
       \/ ConnectRefused /\ TransportConnectFails(bd_seq') /\ UNCHANGED fresh
       \/ /\ ConnectSubscribeFails
          /\ \E n \in 0 .. Len(Subscriptions) - 1 :
                TransportConnects(bd_seq', SubSeq(Subscriptions, 1, n))
          /\ fresh' = TRUE
       \/ /\ ConnectAndWait \/ ConnectAndBirth
          /\ TransportConnects(bd_seq', Subscriptions)
          /\ fresh' = TRUE
    /\ connects' = IF store' = store THEN connects ELSE connects + 1
    /\ Hear
    /\ UNCHANGED breaks

\* Fault: disconnect enqueues DISCONNECT before the NDEATH.
Requests_GoodbyeFirst ==
    (IF session.open /\ ~session'.open THEN <<DisconnectRequest>> ELSE << >>) \o out'

\* What the engine's step enqueues.
Requests == out' \o (IF session.open /\ ~session'.open THEN <<DisconnectRequest>> ELSE << >>)

Calls == Publish \/ Disconnect \/ CallPublishBirthSequence

NodeCalls ==
    /\ session.open
    /\ ~MustRetry
    /\ Calls
    /\ Enqueue(Requests)
    /\ UNCHANGED <<pumpObservers, connects, breaks>>

\* recv hands a message to handle_incoming: a rebirth request, or a STATE.
NodeReceives ==
    /\ link
    /\ session.open
    /\ ~MustRetry
    /\ \/ "NCMD" \in subscribed /\ HandleRebirth
       \/ /\ "STATE" \in subscribed
          /\ \E ts \in Timestamps : HandleHostOnline(ts) \/ HandleHostOffline(ts)
    /\ Enqueue(Requests)
    /\ UNCHANGED <<pumpObservers, connects, breaks>>

\* recv, while no other method runs.
NodePumps ==
    /\ Idle
    /\ ~MustRetry
    /\ EngineIdle
    /\ \/ (Transmit \/ RecvFails) /\ UNCHANGED fresh
       \/ Reconnect /\ fresh' = FALSE
    /\ Hear
    /\ UNCHANGED <<connects, breaks>>

-----------------------------------------------------------------------------
(* The environment. *)

NodeCrashes ==
    /\ Crash
    /\ ProcessDies
    /\ UNCHANGED <<pumpObservers, connects, breaks>>

NetworkFails ==
    /\ EngineIdle
    /\ \/ breaks < MaxBreaks /\ LinkBreaks /\ breaks' = breaks + 1
       \/ BrokerNotices /\ UNCHANGED breaks
    /\ Hear
    /\ UNCHANGED <<fresh, connects>>

RebirthWindowEnds ==
    /\ DebounceElapses
    /\ TransportIdle
    /\ UNCHANGED <<pumpObservers, connects, breaks>>

-----------------------------------------------------------------------------

PumpInit ==
    /\ Init
    /\ store = 0
    /\ TransportInit
    /\ world = None
    /\ known = {}
    /\ fresh = FALSE
    /\ connects = 0
    /\ breaks = 0

PumpNext ==
    \/ NodeConnects
    \/ NodeCalls
    \/ NodeReceives
    \/ NodePumps
    \/ NodeCrashes
    \/ NetworkFails
    \/ RebirthWindowEnds

PumpSpec == PumpInit /\ [][PumpNext]_pumpVars
-----------------------------------------------------------------------------
(* Properties. *)

\* While a node is believed alive, the broker holds the will that would tell of
\* its death: over births and goodbyes that wait in the channel, broken links,
\* reconnects of the event loop and abandoned attempts, there is no death that
\* nobody is told of (connect, disconnect, recv).
DeathIsTold == world # None => conn = world

\* Data that the broker publishes follows a birth of its scope.
DataPublished == {published[i] : i \in DOMAIN published}
DataAfterBirth ==
    \A m \in DataPublished : m.type \in {"NDATA", "DDATA"} => m.device \in known

\* On a network connection that EdgeNode::connect made, the broker publishes data
\* only after its birth.
FreshDataAfterBirth == fresh => DataAfterBirth

\* The births of a connect find room in the channel, which nobody drains until
\* connect returns: it does not wait for itself (publish, publish_birth_sequence).
ConnectReturns ==
    birth # None /\ birth.by = "connect" =>
        HasRoom(Len(DeviceList) + 1 - birth.at)
=============================================================================
