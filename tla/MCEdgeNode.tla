----------------------------- MODULE MCEdgeNode -----------------------------
(***************************************************************************)
(* Instances of EdgeNode for TLC: a node with two devices and three metric *)
(* names, so that a birth sequence has an NBIRTH and two DBIRTHs and can   *)
(* fail at each of them.                                                   *)
(***************************************************************************)
EXTENDS EdgeNode, TLC

CONSTANTS d1, d2, temperature, flow, level

MCDeviceList == <<d1, d2>>
MCNames == {temperature, flow, level}
MCNodeMetrics == <<temperature>>

\* Every metric belongs to one scope ...
MCDistinctMetrics == (d1 :> <<flow>>) @@ (d2 :> <<level>>)
\* ... or the devices are of one kind and report a metric of the same name.
MCSharedMetrics == (d1 :> <<flow>>) @@ (d2 :> <<flow>>)

MCAllConfigs == [gated : BOOLEAN, use_aliases : BOOLEAN]
MCGatedConfigs == [gated : {TRUE}, use_aliases : {FALSE}]
MCAliasConfigs == [gated : {FALSE}, use_aliases : {TRUE}]

\* An uneventful history: every connect returns Ok, and births are those that
\* an online STATE of the primary host starts.
MCPlainHistory ==
    /\ session'.open /\ ~session.open => lifecycle_ok'
    /\ birth = None /\ birth' # None => birth'.by = "state"
=============================================================================
