---------------------------- MODULE GatedSession ----------------------------
(***************************************************************************)
(* A node that is gated on its primary host, that host's STATE, and the    *)
(* broker between them: does the node give birth while the host is there,  *)
(* and only then?                                                          *)
(*                                                                         *)
(* The STATE topic is ordered and delivered at QoS 1, so the node loses    *)
(* STATE messages only with its connection; each subscription starts with  *)
(* the retained one.  The application of the node calls connect and        *)
(* disconnect, leaves births to the engine, and publishes no data; no      *)
(* rebirth NCMD comes (one makes a waiting node give birth all the same).  *)
(*                                                                         *)
(* Bounds: MaxTime (PrimaryHost), MaxConnects connects of the node,        *)
(* MaxInFlight messages on their way to either end.                        *)
(***************************************************************************)
EXTENDS EdgeNode, PrimaryHost

CONSTANTS MaxConnects, MaxInFlight

ASSUME GatedAssumption ==
    /\ MaxConnects \in Nat
    /\ MaxInFlight \in Nat
    /\ 0 .. MaxTime \subseteq Timestamps

VARIABLES
    to_edge,        \* STATE messages on their way to the node
    edge_hears,     \* does the node's connection have its STATE subscription?
    edge_failed,    \* observer: a call returned Err since the last connect
    edge_connects   \* connects so far

edgeSide == <<to_edge, edge_hears, edge_failed, edge_connects>>
gatedVars == <<vars, primaryVars, edgeSide>>

EdgeIdle == Quiet /\ UNCHANGED <<config, fields, birth, store, session, lifecycle_ok>>
HostIdle == UNCHANGED primaryVars

-----------------------------------------------------------------------------
(* The node. *)

\* A connect that fails before the broker has accepted it changes only the bdSeq
\* and is left out.
EdgeConnects ==
    /\ edge_connects < MaxConnects
    /\ edge_connects' = edge_connects + 1
    /\ HostIdle
    /\ \/ /\ ConnectAndWait
          /\ to_edge' = retained
          /\ edge_hears' = TRUE
          /\ edge_failed' = FALSE
       \/ /\ ConnectSubscribeFails
          /\ to_edge' = << >>
          /\ edge_hears' = FALSE
          /\ edge_failed' = TRUE

EdgeHandlesState ==
    /\ to_edge # << >>
    /\ to_edge' = Tail(to_edge)
    /\ HostIdle
    /\ LET m == Head(to_edge) IN
       \/ Idle /\ Stale(m.timestamp) /\ EdgeIdle
       \/ m.online /\ HandleHostOnline(m.timestamp)
       \/ ~m.online /\ HandleHostOffline(m.timestamp)
    /\ edge_hears' = (edge_hears /\ session'.open)
    \* a disconnect that failed
    /\ edge_failed' = (edge_failed \/ (~Head(to_edge).online /\ state' = "Online"
                                          /\ ~Stale(Head(to_edge).timestamp)))
    /\ UNCHANGED edge_connects

EdgePublishesBirth ==
    /\ PublishNodeBirth \/ PublishDeviceBirth
    /\ HostIdle
    /\ edge_failed' = (edge_failed \/ (birth' = None /\ state' # "Online"))
    /\ UNCHANGED <<to_edge, edge_hears, edge_connects>>

EdgeDisconnects ==
    /\ Disconnect
    /\ HostIdle
    /\ edge_hears' = (edge_hears /\ session'.open)
    /\ edge_failed' = (edge_failed \/ ~lifecycle_ok')
    /\ UNCHANGED <<to_edge, edge_connects>>

\* What was on its way to the node may be lost with its connection.
EdgeFails ==
    /\ HostIdle
    /\ \/ ConnectionLost /\ to_edge' \in {to_edge, << >>}
       \/ Crash /\ to_edge' = << >>
    /\ edge_hears' = FALSE
    /\ UNCHANGED <<edge_failed, edge_connects>>

-----------------------------------------------------------------------------
(* The host and the broker. *)

\* What the broker hands out goes to the node as well.
Deliver ==
    /\ to_edge' = IF edge_hears THEN to_edge \o posted' ELSE to_edge
    /\ Len(to_edge') <= MaxInFlight
    /\ Len(inbox') <= MaxInFlight
    /\ EdgeIdle
    /\ UNCHANGED <<edge_hears, edge_failed, edge_connects>>

\* Calls of the host's application, which may or may not come.
HostCalls == (StartRefused \/ StartConnects \/ ShutdownPublishes) /\ Deliver

\* What the host's engine goes on with once it is called, or receives.
HostRuns ==
    /\ \/ StartSubscribes
       \/ StartAnnounces
       \/ HandleOwnState
       \/ ShutdownDisconnects
    /\ Deliver

HostFails == (LinkLost \/ HostCrash) /\ Deliver

WillPublished == PublishWill /\ Deliver

-----------------------------------------------------------------------------

\* The bdSeq plays no part in this module.
GatedInit ==
    /\ Init
    /\ store = 0
    /\ PrimaryInit
    /\ to_edge = << >>
    /\ edge_hears = FALSE
    /\ edge_failed = FALSE
    /\ edge_connects = 0

GatedNext ==
    \/ EdgeConnects
    \/ EdgeHandlesState
    \/ EdgePublishesBirth
    \/ EdgeDisconnects
    \/ EdgeFails
    \/ HostCalls
    \/ HostRuns
    \/ HostFails
    \/ WillPublished

\* Both applications drive their receive loops, as the transport demands of
\* them, and a broker that lost a connection publishes its will in the end.
\* Nobody has to connect, start or shut down.
GatedFairness ==
    /\ WF_gatedVars(EdgeHandlesState)
    /\ WF_gatedVars(EdgePublishesBirth)
    /\ WF_gatedVars(HostRuns)
    /\ WF_gatedVars(WillPublished)

GatedSpec == GatedInit /\ [][GatedNext]_gatedVars /\ GatedFairness
-----------------------------------------------------------------------------
(* Properties. *)

EdgeListens == session.open /\ edge_hears /\ ~edge_failed

AllDelivered == to_edge = << >> /\ inbox = << >> /\ late_offlines = {}

HostGone == phase = "idle" /\ ~link.open

\* When every STATE has arrived, a node that is connected is online exactly if
\* its primary host is: over crashes of either end, late wills, repairs of the
\* retained message and STATEs that arrive during births (handle_incoming of
\* both engines, last_state_ts).
GateAgreement ==
    EdgeListens /\ Idle /\ AllDelivered /\ (Started \/ HostGone)
        => (state = "Online" <=> Started)

\* A node does not end its session while the host it was born for is up: late
\* wills of the host's earlier connections, and the retained offline that the
\* host is about to repair, are stale to it (handle_incoming, last_state_ts).
EndsForReason ==
    [][EdgeHandlesState /\ state = "Online" /\ state' # "Online"
           => ~(Started /\ state_ts = last_state_ts)]_gatedVars

\* A node that waits while its primary host is up gives birth in the end, whatever
\* wills were published when it subscribed (EdgeState::WaitingForPrimaryHost,
\* the host's repair of its STATE).
GateOpens ==
    (EdgeListens /\ state = "WaitingForPrimaryHost" /\ Started)
        ~> (state = "Online" \/ ~Started \/ ~EdgeListens)

\* A node whose primary host is gone ends its session in the end, if the host
\* does not come back: the will, or the shutdown, is not stale to it
\* (handle_incoming, HostApplication::start).
GateCloses ==
    (EdgeListens /\ state = "Online" /\ HostGone)
        ~> (state # "Online" \/ ~HostGone \/ ~EdgeListens)
=============================================================================
