--------------------------- MODULE MCGatedSession ---------------------------
(***************************************************************************)
(* Instance of GatedSession for TLC: a node without devices.               *)
(***************************************************************************)
EXTENDS GatedSession, TLC

CONSTANTS d1, flow, level

MCNoDevice == << >>
MCNames == {flow, level}
MCNodeMetrics == <<flow>>
MCDeviceMetrics == [d \in Devices |-> <<level>>]
MCConfigs == [gated : {TRUE}, use_aliases : {FALSE}]
MCTimestamps == 0 .. MaxTime

\* Calls of one end only have failed since its last connect or start.
MCOneFails == ~(edge_failed' /\ failed')
=============================================================================
