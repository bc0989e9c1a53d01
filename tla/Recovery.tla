------------------------------- MODULE Recovery -------------------------------
(***************************************************************************)
(* Session with an end to its faults: does the host show the node again?   *)
(*                                                                         *)
(* Neither engine repeats anything by itself.  The host asks for a rebirth *)
(* when a message shows it that it has lost the node, at most once in its  *)
(* debounce window; the edge ignores a request in a window of its own; the *)
(* request, the births and the data may be lost.  At some moment, which    *)
(* the model chooses, the faults stop (`calm'): from then on nothing is    *)
(* lost, no call fails, nobody crashes, and the node's application goes on *)
(* publishing, or asks for births.                                         *)
(***************************************************************************)
EXTENDS Session

VARIABLE calm

recoveryVars == <<sessionVars, calm>>

CalmDown ==
    /\ ~calm
    /\ calm' = TRUE
    /\ UNCHANGED sessionVars

InCalm == calm /\ UNCHANGED calm

\* A message that is published and arrives.
PublishArrives == InCalm /\ PublishSequenced /\ up' = up \o out' /\ out' # << >>

WillArrives == InCalm /\ PublishWill /\ up' # up

HostHandles == InCalm /\ (HostMisses \/ (HostReceives /\ event'.kind # "Error"))

RequestArrives == InCalm /\ RequestReceived

\* handle_incoming answers RebirthDebounced.
RequestDebounced == InCalm /\ RequestDropped /\ session.open /\ debouncing /\ Idle

HostRecharges == InCalm /\ HostWindowEnds

EdgeRecharges == InCalm /\ EdgeWindowEnds

RecoveryInit == SessionInit /\ calm = FALSE

RecoveryNext ==
    \/ CalmDown
    \/ ~calm /\ UNCHANGED calm /\ SessionNext
    \/ PublishArrives
    \/ InCalm /\ EdgeGivesBirth
    \/ WillArrives
    \/ HostHandles
    \/ RequestArrives
    \/ RequestDebounced
    \/ HostRecharges
    \/ EdgeRecharges

\* In the calm the application goes on publishing, the broker delivers, both
\* applications drive their receive loops, and time passes.
RecoveryFairness ==
    /\ WF_recoveryVars(PublishArrives)
    /\ WF_recoveryVars(HostHandles)
    /\ WF_recoveryVars(RequestArrives)
    /\ WF_recoveryVars(HostRecharges)
    /\ WF_recoveryVars(EdgeRecharges)

RecoverySpec == RecoveryInit /\ [][RecoveryNext]_recoveryVars /\ RecoveryFairness
-----------------------------------------------------------------------------
(* Properties. *)

\* Once the faults are over, the host shows a node that is up as online and goes on
\* doing so, whatever was lost before: births, data, rebirth requests, the host's
\* memory; and however the two debounce windows fall (rebirth, take_rebirth_slot,
\* rebirth_allowed).
Recovers ==
    <>[](calm /\ session.open /\ state = "Online" /\ lifecycle_ok) => <>[]online
=============================================================================
