------------------------------- MODULE Session -------------------------------
(***************************************************************************)
(* One Edge Node, the broker and one Host Application: the two engines     *)
(* joined by what they publish.                                            *)
(*                                                                         *)
(* The broker keeps the order of the messages of one client and of its     *)
(* will.  It learns of a lost connection at any later time (keep alive),   *)
(* so a will may come after messages of the next connection.  The host     *)
(* subscribes at QoS 0, so each message may be lost: a lost one, or one    *)
(* whose publish failed after its sequence number was taken, leaves a      *)
(* Hole in the queue.  Rebirth requests travel the other way and may be    *)
(* lost or late.                                                           *)
(*                                                                         *)
(* Bounds: MaxInFlight messages in the queue, MaxRequests requests on      *)
(* their way (one more meets one of its kind, and the two count as one),   *)
(* MaxConnects bdSeqs taken (fewer than BdMod: a number that is used again *)
(* is a hazard of its own), and between two NBIRTHs that reach the host    *)
(* MaxLost lost messages and fewer than SeqMod that it does not count:     *)
(* sequence numbers can not tell more apart.                               *)
(***************************************************************************)
EXTENDS EdgeNode, HostApplication, FiniteSets

CONSTANTS
    FirstStored,    \* the numbers the bdSeq store may hold at the start
    MaxInFlight, MaxRequests, MaxConnects, MaxLost

ASSUME SessionAssumption ==
    /\ FirstStored \subseteq BdSeqs
    /\ {MaxInFlight, MaxRequests, MaxConnects, MaxLost} \subseteq Nat
    /\ MaxConnects < BdMod
    /\ MaxLost < SeqMod

VARIABLES
    up,             \* messages and holes between the broker and the host
    late_wills,     \* bdSeqs of wills the broker has yet to publish
    requests,       \* rebirth NCMDs on their way to the node
    connects,       \* bdSeqs taken so far
    parted,         \* observer: bdSeqs whose NDEATH the engine published itself
    missed,         \* observer: messages the host did not count since the last
                    \* NBIRTH it handled, lost or of a device it holds for offline
    birth_missed,   \* observer: was one of them an NBIRTH?
    trouble         \* observer: something was lost, failed, or the host restarted

network == <<up, late_wills, requests>>
observers == <<parted, missed, birth_missed, trouble>>
sessionVars == <<vars, hostVars, network, connects, observers>>

Hole(node_birth) == [type |-> "LOST", node_birth |-> node_birth]

Losses == missed + Cardinality({i \in DOMAIN up : up[i].type = "LOST"})

Enqueue(entry) ==
    /\ Len(up) < MaxInFlight
    /\ up' = Append(up, entry)

\* The host drops message m and stays in its session.
Uncounted(m) == m.seq # None /\ online /\ online' /\ UNCHANGED expected_seq

\* The host has nothing to do, or the edge.
HostIdle ==
    /\ event' = Nothing("Ignored")
    /\ ncmd' = FALSE
    /\ UNCHANGED <<nodeState, slot_taken, corrupt>>

EdgeIdle == Quiet /\ UNCHANGED <<config, fields, birth, store, session, lifecycle_ok>>

-----------------------------------------------------------------------------
(* The edge and its broker. *)

\* A sequenced message, or an NBIRTH: it arrives, is lost on its way, or is not
\* published at all; on a connection that is gone nothing happens.  The
\* application reports data only after a connect that returned Ok: EdgeNode's
\* DataAnnounced is about that condition.
PublishSequenced ==
    /\ Publish
    /\ Idle => lifecycle_ok
    /\ HostIdle
    /\ \/ out' # << >> /\ Enqueue(out'[1]) /\ UNCHANGED trouble
       \/ /\ session.open
          /\ Losses < MaxLost
          /\ Enqueue(Hole(birth # None /\ birth.at = 0))
          /\ trouble' = TRUE
       \/ ~session.open /\ UNCHANGED <<up, trouble>>
    /\ UNCHANGED <<late_wills, requests, connects, parted, missed, birth_missed>>

\* An NDEATH that nobody asked for: it has no sequence number.
PublishDeath ==
    /\ Disconnect
    /\ HostIdle
    /\ parted' = IF out' # << >> THEN parted \cup {bd_seq} ELSE parted
    /\ \/ out' # << >> /\ Enqueue(out'[1]) /\ trouble' = (trouble \/ ~lifecycle_ok')
       \/ UNCHANGED up /\ trouble' = TRUE
    /\ UNCHANGED <<late_wills, requests, connects, missed, birth_missed>>

EdgeConnects ==
    /\ connects < MaxConnects
    /\ Connect
    /\ HostIdle
    /\ connects' = IF store' = store THEN connects ELSE connects + 1
    /\ trouble' = (trouble \/ birth' = None)
    /\ UNCHANGED <<network, parted, missed, birth_missed>>

EdgeGivesBirth ==
    /\ CallPublishBirthSequence
    /\ HostIdle
    /\ UNCHANGED <<network, connects, observers>>

\* The broker owes the world the will of a connection that ends on its own.
EdgeFails ==
    /\ ConnectionLost \/ Crash
    /\ HostIdle
    /\ late_wills' = IF session.open THEN late_wills \cup {session.will} ELSE late_wills
    /\ UNCHANGED <<up, requests, connects, observers>>

PublishWill ==
    /\ EdgeIdle
    /\ HostIdle
    /\ \E b \in late_wills :
          /\ late_wills' = late_wills \ {b}
          /\ \/ Enqueue(NodeDeath(b)) /\ UNCHANGED trouble
             \/ trouble' = TRUE /\ UNCHANGED up
    /\ UNCHANGED <<requests, connects, parted, missed, birth_missed>>

-----------------------------------------------------------------------------
(* The host. *)

HostReceives ==
    /\ EdgeIdle
    /\ up # << >>
    /\ Head(up).type # "LOST"
    /\ HandleIncoming(Head(up))
    /\ up' = Tail(up)
    /\ requests' = IF ncmd' /\ requests < MaxRequests THEN requests + 1 ELSE requests
    /\ IF Head(up).type = "NBIRTH"
       THEN missed' = 0 /\ birth_missed' = FALSE
       ELSE /\ missed' = IF Uncounted(Head(up)) THEN missed + 1 ELSE missed
            /\ UNCHANGED birth_missed
    /\ Losses' < SeqMod
    \* a rebirth request that could not be published
    /\ trouble' = (trouble \/ event'.kind = "Error")
    /\ UNCHANGED <<late_wills, connects, parted>>

HostMisses ==
    /\ EdgeIdle
    /\ HostIdle
    /\ up # << >>
    /\ Head(up).type = "LOST"
    /\ up' = Tail(up)
    /\ missed' = missed + 1
    /\ birth_missed' = (birth_missed \/ Head(up).node_birth)
    /\ UNCHANGED <<late_wills, requests, connects, parted, trouble>>

HostRestarts ==
    /\ EdgeIdle
    /\ Restart
    /\ trouble' = TRUE
    /\ UNCHANGED <<network, connects, parted, missed, birth_missed>>

\* A request reaches the node, which may be deaf to it: not connected, or within
\* its debounce window.
RequestReceived ==
    /\ requests > 0
    /\ requests' = requests - 1
    /\ HostIdle
    /\ session.open /\ HandleRebirth
    /\ UNCHANGED <<up, late_wills, connects, observers>>

RequestDropped ==
    /\ requests > 0
    /\ requests' = requests - 1
    /\ EdgeIdle
    /\ HostIdle
    /\ UNCHANGED <<up, late_wills, connects, observers>>

EdgeWindowEnds ==
    /\ DebounceElapses
    /\ HostIdle
    /\ UNCHANGED <<network, connects, observers>>

HostWindowEnds ==
    /\ SlotFreed
    /\ EdgeIdle
    /\ UNCHANGED <<network, connects, observers>>

-----------------------------------------------------------------------------

SessionInit ==
    /\ Init
    /\ store \in FirstStored
    /\ HostInit
    /\ up = << >>
    /\ late_wills = {}
    /\ requests = 0
    /\ connects = 0
    /\ parted = {}
    /\ missed = 0
    /\ birth_missed = FALSE
    /\ trouble = FALSE

SessionNext ==
    \/ PublishSequenced
    \/ PublishDeath
    \/ EdgeConnects
    \/ EdgeGivesBirth
    \/ EdgeFails
    \/ PublishWill
    \/ HostReceives
    \/ HostMisses
    \/ HostRestarts
    \/ RequestReceived
    \/ RequestDropped
    \/ EdgeWindowEnds
    \/ HostWindowEnds

SessionSpec == SessionInit /\ [][SessionNext]_sessionVars
-----------------------------------------------------------------------------
(* Properties. *)

\* A lost message never goes unnoticed: whatever the host shows of a node after
\* its birth follows without a gap on what it has shown before, over wrapping
\* sequence numbers, failed publishes, rebirths and reconnects, unless the lost
\* message is an NBIRTH (expected_seq against Seq, on_node_data and the others).
GapDetected ==
    event.kind \in {"NodeData", "DeviceBirth", "DeviceData", "DeviceDeath"} =>
        missed = 0 \/ birth_missed

\* The host declares a node dead only when it is: the connection of the birth it
\* holds is over, or the engine has said goodbye on it.  The will of a connection
\* that is long over, arriving late, does not end the session of the connection
\* that replaced it (on_node_death, EdgeNode::connect).
DeathIsTrue ==
    event.kind = "NodeDeath" =>
        node_bd_seq \in parted \/ ~(session.open /\ session.will = node_bd_seq)

\* The host asks for a rebirth only with a reason: as long as no message is
\* lost, no call fails and the host does not restart, crashes, reconnects, late
\* wills and rebirths of the edge provoke none (rebirth, publish_birth_sequence).
RebirthHasReason == ncmd => trouble

\* When every message has arrived and nothing went wrong, the two ends agree:
\* the host holds exactly the connected node for online, exactly the born devices
\* for online, and expects the sequence number the edge will use next.
Agreement ==
    ~trouble /\ up = << >> /\ late_wills = {} /\ Idle =>
        /\ online <=> session.open
        /\ online =>
              /\ node_bd_seq = session.will
              /\ expected_seq = seq
              /\ OnlineDevices = born_devices
=============================================================================
