-------------------------------- MODULE Topic --------------------------------
(***************************************************************************)
(* Topics (topic.rs): identifiers, the topics made of them, their text and *)
(* its parser.                                                             *)
(*                                                                         *)
(* A text is the sequence of its parts between slashes, so a part holds no *)
(* slash, and the empty text has one empty part.  Parts that are empty or  *)
(* hold a `+' or a `#' are Reserved.                                       *)
(***************************************************************************)
EXTENDS Naturals, Sequences

CONSTANTS
    Parts,          \* texts without a slash
    Reserved        \* those that no identifier may be

Namespace == "spBv1.0"
StateToken == "STATE"

NodeTypes == {"NBIRTH", "NDEATH", "NDATA", "NCMD"}
\* has_device
DeviceTypes == {"DBIRTH", "DDEATH", "DDATA", "DCMD"}
TypeTokens == NodeTypes \cup DeviceTypes \cup {StateToken}

ASSUME TopicAssumption ==
    /\ Reserved \subseteq Parts
    /\ TypeTokens \cup {Namespace} \subseteq Parts \ Reserved

Texts == Seq(Parts) \ {<< >>}

Ids == Parts \ Reserved

\* validate_id
IsId(text) == Len(text) = 1 /\ text[1] \notin Reserved

-----------------------------------------------------------------------------
(* SparkplugTopic. *)

NodeTopic(group, edge, type) ==
    [kind |-> "Node", group |-> group, type |-> type, edge |-> edge]
DeviceTopic(group, edge, device, type) ==
    [kind |-> "Device", group |-> group, type |-> type, edge |-> edge, device |-> device]
HostState(host_id) == [kind |-> "HostState", host_id |-> host_id]

\* What the constructors `node' and `device' return Ok for, and STATE topics of
\* host ids that are identifiers.
WellFormed(t) ==
    \/ \E g, e \in Ids, ty \in NodeTypes : t = NodeTopic(g, e, ty)
    \/ \E g, e, d \in Ids, ty \in DeviceTypes : t = DeviceTopic(g, e, d, ty)
    \/ \E h \in Ids : t = HostState(<<h>>)

\* to_string.  A host id is any text.
ToText(t) ==
    CASE t.kind = "Node" -> <<Namespace, t.group, t.type, t.edge>>
      [] t.kind = "Device" -> <<Namespace, t.group, t.type, t.edge, t.device>>
      [] t.kind = "HostState" -> <<Namespace, StateToken>> \o t.host_id

-----------------------------------------------------------------------------
(* parse *)

Parsed(t) == [ok |-> TRUE, topic |-> t]
InvalidTopic == [ok |-> FALSE, error |-> "InvalidTopic"]
InvalidId == [ok |-> FALSE, error |-> "InvalidId"]

ParseState(text) ==
    IF text[3] \in Reserved THEN InvalidId ELSE Parsed(HostState(<<text[3]>>))

ParseNode(text) ==
    CASE text[3] \notin NodeTypes -> InvalidTopic
      [] text[3] \in NodeTypes /\ {text[2], text[4]} \cap Reserved # {} -> InvalidId
      [] OTHER -> Parsed(NodeTopic(text[2], text[4], text[3]))

\* Fault: the device is not validated.
ParseDevice_AnyDevice(text) ==
    CASE text[3] \notin DeviceTypes -> InvalidTopic
      [] text[3] \in DeviceTypes /\ {text[2], text[4]} \cap Reserved # {} -> InvalidId
      [] OTHER -> Parsed(DeviceTopic(text[2], text[4], text[5], text[3]))

ParseDevice(text) ==
    CASE text[3] \notin DeviceTypes -> InvalidTopic
      [] text[3] \in DeviceTypes /\ {text[2], text[4], text[5]} \cap Reserved # {} -> InvalidId
      [] OTHER -> Parsed(DeviceTopic(text[2], text[4], text[5], text[3]))

\* A text that is not of this namespace, or has another number of parts.
Parse(text) ==
    CASE text[1] # Namespace -> InvalidTopic
      [] text[1] = Namespace /\ Len(text) = 3 /\ text[2] = StateToken -> ParseState(text)
      [] text[1] = Namespace /\ Len(text) = 4 -> ParseNode(text)
      [] text[1] = Namespace /\ Len(text) = 5 -> ParseDevice(text)
      [] OTHER -> InvalidTopic

-----------------------------------------------------------------------------
(* Filters of subscriptions, as a broker matches them. *)

Matches(filter, text) ==
    \/ /\ Len(filter) = Len(text)
       /\ \A i \in DOMAIN filter : filter[i] = "+" \/ filter[i] = text[i]
    \/ /\ filter[Len(filter)] = "#"
       /\ Len(text) >= Len(filter) - 1
       /\ \A i \in 1 .. Len(filter) - 1 : filter[i] = "+" \/ filter[i] = text[i]
=============================================================================
