-------------------------- MODULE MCHostApplication --------------------------
(***************************************************************************)
(* Instances of HostApplication for TLC: two devices, two metric names and *)
(* two aliases, and every kind of message with every sequence number, so   *)
(* that any message may be lost, late, repeated or malformed.              *)
(***************************************************************************)
EXTENDS HostApplication, TLC

CONSTANTS d1, d2, flow, level

MCDeviceList == <<d1, d2>>
MCNames == {flow, level}
MCAliases == {0, 1}

Listed(n, a) == [name |-> n, alias |-> a, value |-> n, typed |-> TRUE]
ByName(n) == [name |-> n, alias |-> None, value |-> n, typed |-> FALSE]
ByAlias(a) == [name |-> None, alias |-> a, value |-> flow, typed |-> FALSE]
Typed(k) == [k EXCEPT !.typed = TRUE]

MCBirths == {<<Listed(flow, 0)>>, <<Listed(flow, 1), Listed(level, 0)>>}
MCDuplicates == {<<Listed(flow, 0), Listed(level, 0)>>}
\* By name and by alias, without a datatype and with one, and both in one message.
MCData ==
    {<<ByName(level)>>, <<ByAlias(0)>>, <<Typed(ByName(level))>>,
     <<Typed(ByAlias(1)), ByName(level)>>}

MCNodeBirths ==
    [type : {"NBIRTH"}, device : {None}, seq : {0, SeqMod - 1, None}, bdSeq : {0, 1, None},
     metrics : MCBirths \cup MCDuplicates]
MCNodeDeaths ==
    [type : {"NDEATH"}, device : {None}, seq : {None}, bdSeq : {0, 1, None},
     metrics : {<< >>}]
MCNodeData ==
    [type : {"NDATA"}, device : {None}, seq : Seqs \cup {None}, bdSeq : {None},
     metrics : MCData]
MCDeviceMessages ==
    [type : {"DDATA"}, device : Devices, seq : Seqs, bdSeq : {None}, metrics : MCData]
    \cup
    [type : {"DDEATH"}, device : Devices, seq : Seqs, bdSeq : {None}, metrics : {<< >>}]

MCDeviceBirths(births) ==
    [type : {"DBIRTH"}, device : Devices, seq : Seqs, bdSeq : {None}, metrics : births]

\* Everything but a DBIRTH that uses an alias twice ...
MCInputs ==
    MCNodeBirths \cup MCNodeDeaths \cup MCNodeData \cup MCDeviceMessages
    \cup MCDeviceBirths(MCBirths)

\* ... and with it.
MCCorruptInputs == MCInputs \cup MCDeviceBirths(MCDuplicates)
=============================================================================
