------------------------------ MODULE MCSession ------------------------------
(***************************************************************************)
(* Instance of Session for TLC: one device, aliases in use, no primary     *)
(* host.                                                                   *)
(***************************************************************************)
EXTENDS Session, TLC

CONSTANTS d1, flow, level

MCOneDevice == <<d1>>
MCNames == {flow, level}
MCNodeMetrics == <<flow>>
MCDeviceMetrics == [d \in Devices |-> <<level>>]
MCConfigs == [gated : {FALSE}, use_aliases : {TRUE}]

\* Losses, failed calls and restarts of the host on the first connection only;
\* later connections as long as none of them has happened.
MCOneTrouble == trouble => connects <= 1
=============================================================================
