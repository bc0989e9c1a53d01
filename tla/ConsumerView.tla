----------------------------- MODULE ConsumerView -----------------------------
(***************************************************************************)
(* What the application behind a Host Application may rely on: the events  *)
(* (HostEvent) it is shown about one Edge Node, in their order.  Data      *)
(* comes only for what an event said is alive, and a metric whose datatype *)
(* had to be taken from the birth is one that this birth listed; a death   *)
(* names exactly what was alive, and once the session is broken nothing is *)
(* shown but its next NodeBirth.                                           *)
(***************************************************************************)
EXTENDS Sparkplug

VARIABLES
    live,       \* the application may trust what it knows of the node
    alive,      \* the devices it has been shown as online
    known,      \* the metric names of the birth shown for each scope
    bd_seq,     \* the bdSeq of the birth it was shown, None if it had none
    event       \* the last event

viewVars == <<live, alive, known, bd_seq, event>>

\* Nothing the application could act on.
Silent == event'.kind \in {"RebirthRequested", "Ignored", "Error"}

Listed(metrics) == {metrics[i].name : i \in DOMAIN metrics}

\* What could not be read without the birth: the names of metrics that brought no
\* datatype of their own.
Recovered(metrics) == {metrics[i].name : i \in {j \in DOMAIN metrics : ~metrics[j].typed}}

ViewInit ==
    /\ ~live
    /\ alive = {}
    /\ known = [s \in Scopes |-> {}]
    /\ bd_seq = None
    /\ event.kind = "Ignored"

ShowNodeBirth ==
    /\ event'.kind = "NodeBirth"
    /\ live'
    /\ alive' = {}
    /\ known' = [s \in Scopes |-> IF s = None THEN Listed(event'.metrics) \ {None} ELSE {}]
    /\ bd_seq' = event'.bdSeq

ShowNodeData ==
    /\ live
    /\ event'.kind = "NodeData"
    /\ Recovered(event'.metrics) \subseteq known[None]
    /\ UNCHANGED <<live, alive, known, bd_seq>>

ShowDeviceBirth ==
    /\ live
    /\ event'.kind = "DeviceBirth"
    /\ alive' = alive \cup {event'.device}
    /\ known' = [known EXCEPT ![event'.device] = Listed(event'.metrics) \ {None}]
    /\ UNCHANGED <<live, bd_seq>>

ShowDeviceData ==
    /\ live
    /\ event'.kind = "DeviceData"
    /\ event'.device \in alive
    /\ Recovered(event'.metrics) \subseteq known[event'.device]
    /\ UNCHANGED <<live, alive, known, bd_seq>>

ShowDeviceDeath ==
    /\ live
    /\ event'.kind = "DeviceDeath"
    /\ alive' = alive \ {event'.device}
    /\ UNCHANGED <<live, known, bd_seq>>

\* Only the death that belongs to the birth shown counts.
ShowNodeDeath ==
    /\ live
    /\ event'.kind = "NodeDeath"
    /\ event'.bdSeq = bd_seq
    /\ bd_seq # None
    /\ event'.devices = alive
    /\ ~live'
    /\ alive' = {}
    /\ UNCHANGED <<known, bd_seq>>

\* The session breaks, or a birth that can not be trusted replaces it: what the
\* application knows of the node is void until the next NodeBirth.
Break ==
    /\ Silent
    /\ ~live'
    /\ alive' = {}

KeepQuiet ==
    /\ Silent
    /\ UNCHANGED <<live, alive, known, bd_seq>>

ViewNext ==
    \/ ShowNodeBirth
    \/ ShowNodeData
    \/ ShowDeviceBirth
    \/ ShowDeviceData
    \/ ShowDeviceDeath
    \/ ShowNodeDeath
    \/ Break
    \/ KeepQuiet

ViewSpec == ViewInit /\ [][ViewNext]_viewVars
=============================================================================
