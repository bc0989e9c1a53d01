------------------------------- MODULE Routing -------------------------------
(***************************************************************************)
(* Who handles what: Edge Nodes and Host Applications publish on topics    *)
(* made of their identifiers, the broker goes by the filters they have     *)
(* subscribed to, and handle_incoming parses the topic and takes group,    *)
(* node and device from it.                                                *)
(*                                                                         *)
(* An engine does not compare the ids in a topic with its own: an Edge     *)
(* Node takes any NCMD for its own, and a host makes the key of its map    *)
(* of nodes from group and node.  Host ids are texts that nobody           *)
(* validates.                                                              *)
(***************************************************************************)
EXTENDS Topic

CONSTANTS
    Nodes,          \* Edge Nodes: group, edge, devices, primary_host_id
    Hosts,          \* the host_id of each Host Application
    GivenIds,       \* texts that an application may give as ids of a command
    Foreign,        \* topics that other clients publish on
    Absent          \* no such id, or no message

\* EdgeNodeConfig::new has validated the ids, and no two nodes have the same ones.
ASSUME RoutingAssumption ==
    /\ \A n \in Nodes :
          /\ n.group \in Ids
          /\ n.edge \in Ids
          /\ n.devices \subseteq Ids
          /\ n.primary_host_id \in Texts \cup {Absent}
    /\ \A n, k \in Nodes : n.group = k.group /\ n.edge = k.edge => n = k
    /\ Hosts \subseteq Texts
    /\ GivenIds \subseteq Texts
    /\ Foreign \subseteq Texts
    /\ {"+", "#"} \subseteq Reserved
    /\ Absent \notin Parts
    /\ Absent \notin Texts

VARIABLES
    topic,          \* of the last message published, or Absent
    meaning,        \* observer: what its publisher meant by it
    at_nodes,       \* what each node did with it
    at_hosts        \* what each host did with it

routingVars == <<topic, meaning, at_nodes, at_hosts>>

-----------------------------------------------------------------------------
(* Subscriptions. *)

StateTopic(host_id) == <<Namespace, StateToken>> \o host_id

\* Fault: the command filter leaves the node open.
NodeFilters_AnyEdge(n) ==
    {<<Namespace, n.group, "NCMD", "+">>}
        \cup {ToText(DeviceTopic(n.group, n.edge, d, "DCMD")) : d \in n.devices}
        \cup (IF n.primary_host_id = Absent THEN {} ELSE {StateTopic(n.primary_host_id)})

NodeFilters(n) ==
    {ToText(NodeTopic(n.group, n.edge, "NCMD"))}
        \cup {ToText(DeviceTopic(n.group, n.edge, d, "DCMD")) : d \in n.devices}
        \cup (IF n.primary_host_id = Absent THEN {} ELSE {StateTopic(n.primary_host_id)})

\* group_subscriptions has its default.
HostFilters(h) == {StateTopic(h), <<Namespace, "#">>}

Hears(filters, text) == \E filter \in filters : Matches(filter, text)

-----------------------------------------------------------------------------
(* handle_incoming. *)

Reaction(as, node, device) == [as |-> as, node |-> node, device |-> device]
Unheard == Reaction("Unheard", Absent, Absent)
Ignored == Reaction("Ignored", Absent, Absent)
Error == Reaction("Error", Absent, Absent)

\* Fault: nodes of one name in several groups share a key.
Key_EdgeOnly(group, edge) == <<edge>>

Key(group, edge) == <<group, edge>>

\* Fault: the STATE of any host counts.
NodeHandles_AnyHost(n, text) ==
    LET t == Parse(text).topic IN
    CASE ~Parse(text).ok -> Error
      [] Parse(text).ok /\ t.kind = "Node" ->
            IF t.type = "NCMD" THEN Reaction("NodeCommand", Absent, Absent) ELSE Ignored
      [] Parse(text).ok /\ t.kind = "Device" ->
            IF t.type = "DCMD" THEN Reaction("DeviceCommand", Absent, t.device) ELSE Ignored
      [] OTHER -> Reaction("PrimaryHostState", Absent, Absent)

NodeHandles(n, text) ==
    LET t == Parse(text).topic IN
    CASE ~Parse(text).ok -> Error
      [] Parse(text).ok /\ t.kind = "Node" ->
            IF t.type = "NCMD" THEN Reaction("NodeCommand", Absent, Absent) ELSE Ignored
      [] Parse(text).ok /\ t.kind = "Device" ->
            IF t.type = "DCMD" THEN Reaction("DeviceCommand", Absent, t.device) ELSE Ignored
      [] OTHER ->
            IF n.primary_host_id = t.host_id THEN Reaction("PrimaryHostState", Absent, Absent) ELSE Ignored

HostHandles(h, text) ==
    LET t == Parse(text).topic IN
    CASE ~Parse(text).ok -> Error
      [] Parse(text).ok /\ t.kind = "Node" ->
            IF t.type = "NCMD" THEN Ignored ELSE Reaction(t.type, Key(t.group, t.edge), Absent)
      [] Parse(text).ok /\ t.kind = "Device" ->
            IF t.type = "DCMD" THEN Ignored ELSE Reaction(t.type, Key(t.group, t.edge), t.device)
      [] OTHER ->
            IF t.host_id = h THEN Reaction("OwnState", Absent, Absent) ELSE Ignored

-----------------------------------------------------------------------------
(* Publications. *)

\* A broker takes no message for a topic with a wildcard.
Deliver(text, m) ==
    /\ \A i \in DOMAIN text : text[i] \notin {"+", "#"}
    /\ topic' = text
    /\ meaning' = m
    /\ at_nodes' = [n \in Nodes |->
            IF Hears(NodeFilters(n), text) THEN NodeHandles(n, text) ELSE Unheard]
    /\ at_hosts' = [h \in Hosts |->
            IF Hears(HostFilters(h), text) THEN HostHandles(h, text) ELSE Unheard]

\* One message at a time: messages do not influence each other here.
Publish(text, m) == topic = Absent /\ Deliver(text, m)

NodePublishes(n, type) ==
    Publish(ToText(NodeTopic(n.group, n.edge, type)),
            [kind |-> "report", type |-> type, node |-> n, device |-> Absent])

DevicePublishes(n, d, type) ==
    Publish(ToText(DeviceTopic(n.group, n.edge, d, type)),
            [kind |-> "report", type |-> type, node |-> n, device |-> d])

Command(group, edge, device) ==
    [kind |-> "command", group |-> group, edge |-> edge, device |-> device]

\* publish_node_command returns Err for what is no id, and publishes nothing.
HostCommandsNode(group, edge) ==
    /\ IsId(group) /\ IsId(edge)
    /\ Publish(ToText(NodeTopic(group[1], edge[1], "NCMD")), Command(group[1], edge[1], Absent))

HostCommandsDevice(group, edge, device) ==
    /\ IsId(group) /\ IsId(edge) /\ IsId(device)
    /\ Publish(ToText(DeviceTopic(group[1], edge[1], device[1], "DCMD")),
               Command(group[1], edge[1], device[1]))

\* rebirth: the request goes to the group and node of the topic that is handled.
HostRequestsRebirth(h) ==
    /\ at_hosts[h].node # Absent
    /\ LET t == Parse(topic).topic IN
       Deliver(ToText(NodeTopic(t.group, t.edge, "NCMD")),
               IF meaning.kind = "report"
               THEN Command(meaning.node.group, meaning.node.edge, Absent)
               ELSE Command(t.group, t.edge, Absent))

HostAnnounces(h) == Publish(StateTopic(h), [kind |-> "state", host |-> h])

SomebodyPublishes(text) == Publish(text, [kind |-> "foreign"])

-----------------------------------------------------------------------------

Nothing == [kind |-> "nothing"]

RoutingInit ==
    /\ topic = Absent
    /\ meaning = Nothing
    /\ at_nodes = [n \in Nodes |-> Unheard]
    /\ at_hosts = [h \in Hosts |-> Unheard]

\* Everybody is done with a message.
Settle ==
    /\ topic # Absent
    /\ topic' = Absent
    /\ meaning' = Nothing
    /\ at_nodes' = [n \in Nodes |-> Unheard]
    /\ at_hosts' = [h \in Hosts |-> Unheard]

RoutingNext ==
    \/ \E n \in Nodes :
          \/ \E type \in NodeTypes \ {"NCMD"} : NodePublishes(n, type)
          \/ \E d \in n.devices, type \in DeviceTypes \ {"DCMD"} : DevicePublishes(n, d, type)
    \/ \E g, e \in GivenIds :
          \/ HostCommandsNode(g, e)
          \/ \E d \in GivenIds : HostCommandsDevice(g, e, d)
    \/ \E h \in Hosts : HostRequestsRebirth(h) \/ HostAnnounces(h)
    \/ \E text \in Foreign : SomebodyPublishes(text)
    \/ Settle

RoutingSpec == RoutingInit /\ [][RoutingNext]_routingVars
-----------------------------------------------------------------------------
(* Properties. *)

\* What a node or device reports is booked by every host under that node and
\* device and under no other node, and no Edge Node acts on it (key,
\* handle_incoming).
ReportsRouted ==
    meaning.kind = "report" =>
        /\ \A h \in Hosts :
              /\ at_hosts[h].as = meaning.type
              /\ at_hosts[h].device = meaning.device
              /\ \A n \in Nodes : at_hosts[h].node = Key(n.group, n.edge) <=> n = meaning.node
        /\ \A n \in Nodes : at_nodes[n] \in {Unheard, Ignored}

\* A primary host id is an identifier, if there is one: nobody checks.
WellGated(n) == n.primary_host_id = Absent \/ IsId(n.primary_host_id)

\* A command is acted on by the node it is for, if that has the device, by no
\* other node, and by no host, although no node compares the ids in its topic with
\* its own; a rebirth request is for the node whose message the host handled
\* (subscriptions of connect, publish_node_command, send_rebirth).
CommandsRouted ==
    meaning.kind = "command" =>
        /\ \A n \in Nodes :
           WellGated(n) =>
              at_nodes[n] =
                 IF /\ n.group = meaning.group
                    /\ n.edge = meaning.edge
                    /\ meaning.device \in n.devices \cup {Absent}
                 THEN Reaction(IF meaning.device = Absent THEN "NodeCommand" ELSE "DeviceCommand",
                               Absent, meaning.device)
                 ELSE Unheard
        /\ \A h \in Hosts : at_hosts[h] = Ignored

\* The STATE of a host is taken for its own by that host only, and for its primary
\* host's by exactly the nodes that are gated on it; if the host's id is no
\* identifier, by nobody (state_topic, primary_host_id).
StateRouted ==
    meaning.kind = "state" =>
        /\ \A h \in Hosts :
              at_hosts[h].as = "OwnState" <=> h = meaning.host /\ IsId(h)
        /\ \A n \in Nodes :
              at_nodes[n].as = "PrimaryHostState"
                 <=> n.primary_host_id = meaning.host /\ IsId(meaning.host)

\* What passes the parser is what the constructors would have built, and prints
\* as the same text: no two texts are one topic (parse, to_string).
ParsedIsPrinted ==
    topic # Absent /\ Parse(topic).ok =>
        /\ WellFormed(Parse(topic).topic)
        /\ ToText(Parse(topic).topic) = topic
=============================================================================
