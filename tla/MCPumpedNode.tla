----------------------------- MODULE MCPumpedNode -----------------------------
(***************************************************************************)
(* Instances of PumpedNode for TLC: one device, and a channel that just    *)
(* holds the two subscriptions and the two births of a connect.            *)
(***************************************************************************)
EXTENDS PumpedNode, TLC

CONSTANTS d1, flow, level

MCDeviceList == <<d1>>
MCNames == {flow, level}
MCNodeMetrics == <<flow>>
MCDeviceMetrics == d1 :> <<level>>
MCConfigs == [gated : {FALSE}, use_aliases : {FALSE}]
=============================================================================
