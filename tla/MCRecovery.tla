------------------------------ MODULE MCRecovery ------------------------------
(***************************************************************************)
(* Instance of Recovery for TLC: a node without devices, so that every     *)
(* message is one the host counts.                                         *)
(***************************************************************************)
EXTENDS Recovery, TLC

CONSTANTS flow

MCNoDevice == << >>
MCNames == {flow}
MCNodeMetrics == <<flow>>
MCDeviceMetrics == [d \in Devices |-> << >>]
MCConfigs == [gated : {FALSE}, use_aliases : {FALSE}]
=============================================================================
