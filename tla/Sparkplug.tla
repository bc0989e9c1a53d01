------------------------------ MODULE Sparkplug ------------------------------
(***************************************************************************)
(* The vocabulary that the Edge Node engine and the Host Application       *)
(* engine share: the two wrapping counters, metrics, payloads.             *)
(*                                                                         *)
(* A metric's value is abstracted to the name of the metric it was read    *)
(* from, so that a receiver that resolves an alias to a name can be        *)
(* compared with the truth.  A payload is its message type, the device of  *)
(* its topic (None for a node-level topic) and the fields the engines act  *)
(* on.  Timestamps inside payloads are not modelled: no engine reads them  *)
(* except to pass them on.                                                 *)
(***************************************************************************)
EXTENDS Integers, Sequences

CONSTANTS
    SeqMod,       \* payload sequence numbers are counted modulo this (u8: 256)
    BdMod,        \* birth/death sequence numbers, likewise (u8: 256)
    DeviceList,   \* EdgeNodeConfig.devices, in order, none of them twice
    Names,        \* metric names
    None          \* Rust's None, wherever an Option is modelled

Devices == {DeviceList[i] : i \in DOMAIN DeviceList}

\* What a registry or a birth is about: the node itself (None) or a device.
Scopes == Devices \cup {None}

-----------------------------------------------------------------------------

\* Fault: the counter does not wrap.
WrapInc_NoWrap(n, mod) == n + 1

\* u8::wrapping_add(1), for a counter that holds 0 .. mod - 1.
WrapInc(n, mod) == IF n = mod - 1 THEN 0 ELSE n + 1

Seqs == 0 .. SeqMod - 1
BdSeqs == 0 .. BdMod - 1

\* typed: the metric carries its datatype.  A birth's metrics always do, those of
\* data need not.
Metric ==
    [name : Names \cup {None}, alias : Nat \cup {None}, value : Names, typed : BOOLEAN]

MessageType == {"NBIRTH", "NDATA", "NDEATH", "DBIRTH", "DDATA", "DDEATH"}

Message ==
    [type : MessageType, device : Scopes, seq : Seqs \cup {None},
     bdSeq : BdSeqs \cup {None}, metrics : Seq(Metric)]

ASSUME SparkplugAssumption ==
    /\ SeqMod \in Nat \ {0, 1}
    /\ BdMod \in Nat \ {0, 1}
    /\ DeviceList \in Seq(Devices)
    /\ \A i, j \in DOMAIN DeviceList : DeviceList[i] = DeviceList[j] => i = j
    /\ None \notin Devices
    /\ None \notin Names
    /\ None \notin Nat
    /\ None \notin Seq(Metric)

\* A sequenced payload without a bdSeq metric.
Sequenced(type, device, seq, metrics) ==
    [type |-> type, device |-> device, seq |-> seq, bdSeq |-> None,
     metrics |-> metrics]

NodeBirth(seq, bdSeq, metrics) ==
    [type |-> "NBIRTH", device |-> None, seq |-> seq, bdSeq |-> bdSeq,
     metrics |-> metrics]

\* An NDEATH, which is also the connection's will, carries no sequence number.
NodeDeath(bdSeq) ==
    [type |-> "NDEATH", device |-> None, seq |-> None, bdSeq |-> bdSeq,
     metrics |-> << >>]
=============================================================================
