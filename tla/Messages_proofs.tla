--------------------------- MODULE Messages_proofs ---------------------------
(***************************************************************************)
(* Topics reach who they are meant for, for all identifiers: what the      *)
(* parser takes is what the constructors build and prints as the same      *)
(* text, and reports, commands and STATE messages are handled by the       *)
(* engines they concern and by no others.                                  *)
(*                                                                         *)
(* Fields are read as they were written, for any fields and any number of  *)
(* bits in a byte: numbers as varints, the tag, the length and the content *)
(* one after the other, and the loop that reads a stream of them up to     *)
(* where it is cut or can not be read.                                     *)
(*                                                                         *)
(* Arrays come back from their bytes: numbers of any width, bits, strings. *)
(***************************************************************************)
EXTENDS Routing, Reader, SequenceTheorems, WellFoundedInduction, TLAPS

(***************************************************************************)
(* Texts.                                                                  *)
(***************************************************************************)

\* A text is the tuple of its parts.
LEMMA Tuples ==
    ASSUME NEW text \in Texts
    PROVE  /\ Len(text) \in Nat \ {0}
           /\ \A i \in 1 .. Len(text) : text[i] \in Parts
           /\ Len(text) = 1 => text = <<text[1]>>
           /\ Len(text) = 3 => text = <<text[1], text[2], text[3]>>
           /\ Len(text) = 4 => text = <<text[1], text[2], text[3], text[4]>>
           /\ Len(text) = 5 => text = <<text[1], text[2], text[3], text[4], text[5]>>
  BY DEF Texts

\* The tokens that the code compares with are parts and no identifier's problem.
LEMMA Tokens ==
    /\ Namespace \in Ids /\ StateToken \in Ids
    /\ NodeTypes \subseteq Ids /\ DeviceTypes \subseteq Ids
    /\ Ids \subseteq Parts
    /\ "+" \notin Ids /\ "#" \notin Ids
  BY TopicAssumption, RoutingAssumption DEF TypeTokens, Ids

\* The text of a Node topic (fmt).
LEMMA NodeText ==
    ASSUME NEW g, NEW e, NEW ty
    PROVE  ToText(NodeTopic(g, e, ty)) = <<Namespace, g, ty, e>>
  BY DEF ToText, NodeTopic

\* The text of a Device topic (fmt).
LEMMA DeviceText ==
    ASSUME NEW g, NEW e, NEW d, NEW ty
    PROVE  ToText(DeviceTopic(g, e, d, ty)) = <<Namespace, g, ty, e, d>>
  BY DEF ToText, DeviceTopic

\* The text of a STATE topic is that of its host id after two parts
\* (state_topic).
LEMMA StateText ==
    ASSUME NEW h \in Texts
    PROVE  /\ StateTopic(h) \in Texts
           /\ Len(StateTopic(h)) = Len(h) + 2
           /\ StateTopic(h)[1] = Namespace
           /\ StateTopic(h)[2] = StateToken
           /\ StateTopic(h)[3] = h[1]
           /\ Len(h) = 1 => StateTopic(h) = <<Namespace, StateToken, h[1]>>
<1>1. /\ <<Namespace, StateToken>> \in Seq(Parts)
      /\ Len(<<Namespace, StateToken>>) = 2
  BY Tokens
<1>2. h \in Seq(Parts) /\ Len(h) \in Nat \ {0}
  BY Tuples DEF Texts
<1>3. StateTopic(h) \in Seq(Parts) /\ Len(StateTopic(h)) = Len(h) + 2
  BY <1>1, <1>2 DEF StateTopic
<1>4. StateTopic(h)[1] = Namespace /\ StateTopic(h)[2] = StateToken /\ StateTopic(h)[3] = h[1]
  BY <1>1, <1>2 DEF StateTopic
<1>5. StateTopic(h) \in Texts
  BY <1>2, <1>3 DEF Texts
<1> QED
  BY <1>2, <1>3, <1>4, <1>5, Tuples

\* to_string of a STATE topic whose host id is an identifier.
LEMMA HostStateText ==
    ASSUME NEW x \in Parts
    PROVE  ToText(HostState(<<x>>)) = <<Namespace, StateToken, x>>
<1>1. /\ HostState(<<x>>).kind = "HostState"
      /\ HostState(<<x>>).host_id = <<x>>
  BY DEF HostState
<1>2. ToText(HostState(<<x>>)) = StateTopic(<<x>>)
  BY <1>1, Zenon DEF ToText, StateTopic
<1>3. <<x>> \in Texts /\ Len(<<x>>) = 1 /\ <<x>>[1] = x
  BY DEF Texts
<1> QED
  BY <1>2, <1>3, StateText

(***************************************************************************)
(* The parser.                                                             *)
(***************************************************************************)

\* What the parser makes of a text that it takes, by its length.
LEMMA ParseCases ==
    ASSUME NEW text \in Texts, Parse(text).ok
    PROVE  \/ \E x \in Ids :
                /\ text = <<Namespace, StateToken, x>>
                /\ Parse(text).topic = HostState(<<x>>)
           \/ \E g, e \in Ids, ty \in NodeTypes :
                /\ text = <<Namespace, g, ty, e>>
                /\ Parse(text).topic = NodeTopic(g, e, ty)
           \/ \E g, e, d \in Ids, ty \in DeviceTypes :
                /\ text = <<Namespace, g, ty, e, d>>
                /\ Parse(text).topic = DeviceTopic(g, e, d, ty)
<1>1. CASE text[1] = Namespace /\ Len(text) = 3 /\ text[2] = StateToken
  <2>1. Parse(text) = ParseState(text)
    BY <1>1 DEF Parse
  <2>2. text[3] \in Ids /\ Parse(text).topic = HostState(<<text[3]>>)
    BY <1>1, <2>1, Tuples DEF ParseState, Parsed, InvalidId, Ids
  <2> QED
    BY <1>1, <2>2, Tuples
<1>2. CASE text[1] = Namespace /\ Len(text) = 4
  <2>1. Parse(text) = ParseNode(text)
    BY <1>2 DEF Parse
  <2>2. /\ text[2] \in Ids /\ text[4] \in Ids /\ text[3] \in NodeTypes
        /\ Parse(text).topic = NodeTopic(text[2], text[4], text[3])
    BY <1>2, <2>1, Tuples DEF ParseNode, Parsed, InvalidId, InvalidTopic, Ids
  <2> QED
    BY <1>2, <2>2, Tuples
<1>3. CASE text[1] = Namespace /\ Len(text) = 5
  <2>1. Parse(text) = ParseDevice(text)
    BY <1>3 DEF Parse
  <2>2. /\ text[2] \in Ids /\ text[4] \in Ids /\ text[5] \in Ids /\ text[3] \in DeviceTypes
        /\ Parse(text).topic = DeviceTopic(text[2], text[4], text[5], text[3])
    <3> DEFINE g == text[2]
               ty == text[3]
               e == text[4]
               d == text[5]
    <3>0. g \in Parts /\ e \in Parts /\ d \in Parts
      <4>1. \A i \in 1 .. 5 : text[i] \in Parts
        BY <1>3, Tuples
      <4> QED
        BY <4>1
    <3>1. g \in Ids /\ e \in Ids /\ d \in Ids /\ ty \in DeviceTypes
      <4>1. ty \in DeviceTypes /\ {g, e, d} \cap Reserved = {}
        BY <2>1 DEF ParseDevice, InvalidId, InvalidTopic
      <4> HIDE DEF g, e, d, ty
      <4> QED
        BY <4>1, <3>0 DEF Ids
    <3>2. Parse(text).topic = DeviceTopic(g, e, d, ty)
      BY <1>3, <2>1, Tuples DEF ParseDevice, Parsed, InvalidId, InvalidTopic, Ids
    <3> QED
      BY <3>1, <3>2
  <2> QED
    BY <1>3, <2>2, Tuples
<1> QED
  BY <1>1, <1>2, <1>3 DEF Parse, InvalidTopic

\* The kinds of topics that the parser makes.
LEMMA ParseKinds ==
    ASSUME NEW text \in Texts, Parse(text).ok
    PROVE  LET t == Parse(text).topic IN
           \/ t.kind = "HostState"
           \/ t.kind = "Node" /\ t.type \in NodeTypes
           \/ t.kind = "Device" /\ t.type \in DeviceTypes
<1> DEFINE t == Parse(text).topic
<1>1. CASE \E x \in Ids : text = <<Namespace, StateToken, x>> /\ t = HostState(<<x>>)
  BY <1>1 DEF HostState
<1>2. CASE \E g, e \in Ids, ty \in NodeTypes : text = <<Namespace, g, ty, e>> /\ t = NodeTopic(g, e, ty)
  BY <1>2 DEF NodeTopic
<1>3. CASE \E g, e, d \in Ids, ty \in DeviceTypes :
            text = <<Namespace, g, ty, e, d>> /\ t = DeviceTopic(g, e, d, ty)
  BY <1>3 DEF DeviceTopic
<1> HIDE DEF t
<1>4. \/ t.kind = "HostState"
      \/ t.kind = "Node" /\ t.type \in NodeTypes
      \/ t.kind = "Device" /\ t.type \in DeviceTypes
  BY <1>1, <1>2, <1>3, ParseCases DEF t
<1> QED
  BY <1>4 DEF t

\* parse takes only what the constructors build, and to_string inverts it.
LEMMA ParseInverts ==
    ASSUME NEW text \in Texts, Parse(text).ok
    PROVE  /\ WellFormed(Parse(text).topic)
           /\ ToText(Parse(text).topic) = text
<1>1. CASE \E x \in Ids :
            /\ text = <<Namespace, StateToken, x>>
            /\ Parse(text).topic = HostState(<<x>>)
  BY <1>1, HostStateText, Tokens DEF WellFormed
<1>2. CASE \E g, e \in Ids, ty \in NodeTypes :
            /\ text = <<Namespace, g, ty, e>>
            /\ Parse(text).topic = NodeTopic(g, e, ty)
  BY <1>2, NodeText DEF WellFormed
<1>3. CASE \E g, e, d \in Ids, ty \in DeviceTypes :
            /\ text = <<Namespace, g, ty, e, d>>
            /\ Parse(text).topic = DeviceTopic(g, e, d, ty)
  BY <1>3, DeviceText DEF WellFormed
<1> QED
  BY <1>1, <1>2, <1>3, ParseCases

\* parse inverts to_string for Node topics.
LEMMA ParseNodeText ==
    ASSUME NEW g \in Ids, NEW e \in Ids, NEW ty \in NodeTypes
    PROVE  /\ <<Namespace, g, ty, e>> \in Texts
           /\ Parse(<<Namespace, g, ty, e>>).ok
           /\ Parse(<<Namespace, g, ty, e>>).topic = NodeTopic(g, e, ty)
<1> DEFINE text == <<Namespace, g, ty, e>>
<1>1. text \in Texts /\ Len(text) = 4
  BY Tokens DEF Texts
<1>2. text[1] = Namespace /\ text[2] = g /\ text[3] = ty /\ text[4] = e
  OBVIOUS
<1> HIDE DEF text
<1>3. Parse(text) = ParseNode(text)
  BY <1>1, <1>2 DEF Parse
<1>4. ParseNode(text) = Parsed(NodeTopic(g, e, ty))
  BY <1>2 DEF ParseNode, Ids
<1> QED
  BY <1>1, <1>3, <1>4 DEF Parsed, text

\* parse inverts to_string for Device topics.
LEMMA ParseDeviceText ==
    ASSUME NEW g \in Ids, NEW e \in Ids, NEW d \in Ids, NEW ty \in DeviceTypes
    PROVE  /\ <<Namespace, g, ty, e, d>> \in Texts
           /\ Parse(<<Namespace, g, ty, e, d>>).ok
           /\ Parse(<<Namespace, g, ty, e, d>>).topic = DeviceTopic(g, e, d, ty)
<1> DEFINE text == <<Namespace, g, ty, e, d>>
<1>1. text \in Texts /\ Len(text) = 5
  BY Tokens DEF Texts
<1>2. text[1] = Namespace /\ text[2] = g /\ text[3] = ty /\ text[4] = e /\ text[5] = d
  OBVIOUS
<1> HIDE DEF text
<1>3. Parse(text) = ParseDevice(text)
  BY <1>1, <1>2 DEF Parse
<1>4. ParseDevice(text) = Parsed(DeviceTopic(g, e, d, ty))
  BY <1>2 DEF ParseDevice, Ids
<1> QED
  BY <1>1, <1>3, <1>4 DEF Parsed, text

\* A STATE topic is parsed as the state of its host if the host's id is an
\* identifier, and otherwise as no state at all.
LEMMA ParseStateText ==
    ASSUME NEW h \in Texts
    PROVE  /\ IsId(h) => /\ Parse(StateTopic(h)).ok
                         /\ Parse(StateTopic(h)).topic = HostState(h)
           /\ Parse(StateTopic(h)).ok /\ Parse(StateTopic(h)).topic.kind = "HostState"
                => IsId(h) /\ Parse(StateTopic(h)).topic.host_id = h
<1> DEFINE text == StateTopic(h)
<1>1. /\ text \in Texts
      /\ Len(text) = Len(h) + 2
      /\ text[1] = Namespace
      /\ text[2] = StateToken
      /\ text[3] = h[1]
      /\ Len(h) \in Nat \ {0}
      /\ Len(h) = 1 => h = <<h[1]>>
  BY StateText, Tuples
<1> HIDE DEF text
<1>2. ASSUME IsId(h)
      PROVE  Parse(text).ok /\ Parse(text).topic = HostState(h)
  <2>1. Len(h) = 1 /\ h[1] \notin Reserved /\ h = <<h[1]>>
    BY <1>1, <1>2 DEF IsId
  <2>2. Parse(text) = ParseState(text)
    BY <1>1, <2>1 DEF Parse
  <2>3. ParseState(text) = Parsed(HostState(h))
    BY <1>1, <2>1 DEF ParseState
  <2> QED
    BY <2>2, <2>3 DEF Parsed
<1>3. ASSUME Parse(text).ok, Parse(text).topic.kind = "HostState"
      PROVE  IsId(h) /\ Parse(text).topic.host_id = h
  <2>1. /\ \A g, e, ty : NodeTopic(g, e, ty).kind # "HostState"
        /\ \A g, e, d, ty : DeviceTopic(g, e, d, ty).kind # "HostState"
    BY DEF NodeTopic, DeviceTopic
  <2>2. PICK x \in Ids : text = <<Namespace, StateToken, x>> /\ Parse(text).topic = HostState(<<x>>)
    <3>1. ~ \E g, e \in Ids, ty \in NodeTypes :
                /\ text = <<Namespace, g, ty, e>>
                /\ Parse(text).topic = NodeTopic(g, e, ty)
      BY <1>3, <2>1, Zenon
    <3>2. ~ \E g, e, d \in Ids, ty \in DeviceTypes :
                /\ text = <<Namespace, g, ty, e, d>>
                /\ Parse(text).topic = DeviceTopic(g, e, d, ty)
      BY <1>3, <2>1, Zenon
    <3>3. text \in Texts /\ Parse(text).ok
      BY <1>1, <1>3
    <3>4. \/ \E x \in Ids :
                /\ text = <<Namespace, StateToken, x>>
                /\ Parse(text).topic = HostState(<<x>>)
          \/ \E g, e \in Ids, ty \in NodeTypes :
                /\ text = <<Namespace, g, ty, e>>
                /\ Parse(text).topic = NodeTopic(g, e, ty)
          \/ \E g, e, d \in Ids, ty \in DeviceTypes :
                /\ text = <<Namespace, g, ty, e, d>>
                /\ Parse(text).topic = DeviceTopic(g, e, d, ty)
      BY <3>3, ParseCases, Zenon
    <3> QED
      BY <3>1, <3>2, <3>4, Zenon
  <2>3. Len(text) = 3 /\ text[3] = x
    BY <2>2
  <2>4. Len(h) = 1
    <3>1. Len(text) = Len(h) + 2 /\ Len(h) \in Nat
      BY <1>1
    <3>2. Len(text) = 3
      BY <2>3
    <3>3. \A k \in Nat : k + 2 = 3 => k = 1
      OBVIOUS
    <3> QED
      BY <3>1, <3>2, <3>3, Zenon
  <2>5. h = <<x>> /\ h[1] = x
    BY <1>1, <2>3, <2>4, Zenon
  <2> QED
    BY <2>2, <2>4, <2>5 DEF IsId, Ids, HostState
<1> QED
  BY <1>2, <1>3 DEF text

(***************************************************************************)
(* Filters.                                                                *)
(***************************************************************************)

Plain(text) == \A i \in DOMAIN text : text[i] \notin {"+", "#"}

\* A filter without wildcards matches its own text only.
LEMMA MatchesPlain ==
    ASSUME NEW filter \in Texts, Plain(filter), NEW text \in Texts
    PROVE  Matches(filter, text) <=> filter = text
<1>1. /\ filter \in Seq(Parts) /\ Len(filter) \in Nat \ {0} /\ DOMAIN filter = 1 .. Len(filter)
      /\ text \in Seq(Parts) /\ Len(text) \in Nat \ {0} /\ DOMAIN text = 1 .. Len(text)
  BY Tuples DEF Texts
<1>2. Len(filter) \in DOMAIN filter
  BY <1>1
<1>3. \A i \in DOMAIN filter : filter[i] # "+" /\ filter[i] # "#"
  BY DEF Plain
<1>4. Matches(filter, text) => Len(filter) = Len(text) /\ \A i \in DOMAIN filter : filter[i] = text[i]
  BY <1>2, <1>3 DEF Matches
<1>5. Len(filter) = Len(text) /\ (\A i \in DOMAIN filter : filter[i] = text[i]) => filter = text
  BY <1>1
<1>6. filter = text => Matches(filter, text)
  BY DEF Matches
<1> QED
  BY <1>4, <1>5, <1>6

\* Who subscribes without wildcards hears what is in the filters.
LEMMA HearsPlain ==
    ASSUME NEW filters, \A f \in filters : f \in Texts /\ Plain(f), NEW text \in Texts
    PROVE  Hears(filters, text) <=> text \in filters
  BY MatchesPlain DEF Hears

\* The texts of commands are plain.
LEMMA CommandTexts ==
    ASSUME NEW g \in Ids, NEW e \in Ids
    PROVE  /\ <<Namespace, g, "NCMD", e>> \in Texts
           /\ Plain(<<Namespace, g, "NCMD", e>>)
           /\ \A d \in Ids : /\ <<Namespace, g, "DCMD", e, d>> \in Texts
                             /\ Plain(<<Namespace, g, "DCMD", e, d>>)
<1>1. {Namespace, g, e, "NCMD", "DCMD"} \subseteq Ids
  BY Tokens DEF NodeTypes, DeviceTypes
<1>2. \A x \in Ids : x \in Parts /\ x # "+" /\ x # "#"
  BY Tokens
<1>3. <<Namespace, g, "NCMD", e>> \in Texts /\ Plain(<<Namespace, g, "NCMD", e>>)
  BY <1>1, <1>2 DEF Texts, Plain
<1>4. ASSUME NEW d \in Ids
      PROVE  <<Namespace, g, "DCMD", e, d>> \in Texts /\ Plain(<<Namespace, g, "DCMD", e, d>>)
  BY <1>1, <1>2 DEF Texts, Plain
<1> QED
  BY <1>3, <1>4

\* The text of a STATE topic whose host id is an identifier is plain.
LEMMA PlainState ==
    ASSUME NEW h \in Texts, IsId(h)
    PROVE  /\ StateTopic(h) = <<Namespace, StateToken, h[1]>>
           /\ Plain(StateTopic(h))
<1>1. Len(h) = 1 /\ h[1] \in Ids
  BY Tuples DEF IsId, Ids
<1>2. StateTopic(h) = <<Namespace, StateToken, h[1]>>
  BY <1>1, StateText
<1>3. \A x \in Ids : x # "+" /\ x # "#"
  BY Tokens
<1>4. Plain(<<Namespace, StateToken, h[1]>>)
  BY <1>1, <1>3, Tokens DEF Plain
<1> QED
  BY <1>2, <1>4

\* A node hears the commands that bear its ids (subscriptions of connect).
LEMMA NodeHears ==
    ASSUME NEW n \in Nodes, WellGated(n), NEW g \in Ids, NEW e \in Ids
    PROVE  /\ Hears(NodeFilters(n), <<Namespace, g, "NCMD", e>>)
                <=> g = n.group /\ e = n.edge
           /\ \A d \in Ids : Hears(NodeFilters(n), <<Namespace, g, "DCMD", e, d>>)
                <=> g = n.group /\ e = n.edge /\ d \in n.devices
<1> DEFINE states == IF n.primary_host_id = Absent THEN {} ELSE {StateTopic(n.primary_host_id)}
<1> DEFINE filters == {<<Namespace, n.group, "NCMD", n.edge>>}
                        \cup {<<Namespace, n.group, "DCMD", n.edge, d>> : d \in n.devices}
                        \cup states
<1>1. n.group \in Ids /\ n.edge \in Ids /\ n.devices \subseteq Ids
      /\ n.primary_host_id \in Texts \cup {Absent}
  BY RoutingAssumption
<1>2. NodeFilters(n) = filters
  BY NodeText, DeviceText DEF NodeFilters
<1>3. \A f \in states : /\ f \in Texts /\ Plain(f)
                        /\ \E x \in Ids : f = <<Namespace, StateToken, x>>
  <2>1. CASE n.primary_host_id = Absent
    BY <2>1
  <2>2. CASE n.primary_host_id # Absent
    <3>1. n.primary_host_id \in Texts /\ IsId(n.primary_host_id)
      BY <1>1, <2>2 DEF WellGated
    <3>2. n.primary_host_id[1] \in Ids
      BY <3>1, Tuples DEF IsId, Ids
    <3>3. states = {StateTopic(n.primary_host_id)}
      BY <2>2
    <3> QED
      BY <3>1, <3>2, <3>3, PlainState, StateText
  <2> QED
    BY <2>1, <2>2
<1>4. \A f \in filters : f \in Texts /\ Plain(f)
  BY <1>1, <1>3, CommandTexts
<1>5. Hears(filters, <<Namespace, g, "NCMD", e>>) <=> <<Namespace, g, "NCMD", e>> \in filters
  BY <1>4, CommandTexts, HearsPlain
<1>6. <<Namespace, g, "NCMD", e>> \in filters <=> g = n.group /\ e = n.edge
  <2>1. <<Namespace, g, "NCMD", e>> \notin states
    BY <1>3
  <2> HIDE DEF states
  <2> QED
    BY <2>1
<1>7. ASSUME NEW d \in Ids
      PROVE  Hears(filters, <<Namespace, g, "DCMD", e, d>>)
                <=> g = n.group /\ e = n.edge /\ d \in n.devices
  <2>1. Hears(filters, <<Namespace, g, "DCMD", e, d>>) <=> <<Namespace, g, "DCMD", e, d>> \in filters
    BY <1>4, CommandTexts, HearsPlain
  <2>2. <<Namespace, g, "DCMD", e, d>> \notin states
    BY <1>3
  <2> HIDE DEF states
  <2>3. <<Namespace, g, "DCMD", e, d>> \in filters <=> g = n.group /\ e = n.edge /\ d \in n.devices
    BY <2>2
  <2> QED
    BY <2>1, <2>3
<1> QED
  BY <1>2, <1>5, <1>6, <1>7

\* A host hears everything of the namespace.
LEMMA HostHears ==
    ASSUME NEW h \in Hosts, NEW text \in Texts, Len(text) > 1, text[1] = Namespace
    PROVE  Hears(HostFilters(h), text)
<1>1. Matches(<<Namespace, "#">>, text)
  <2>1. Len(text) \in Nat
    BY Tuples
  <2> DEFINE f == <<Namespace, "#">>
  <2>2. Len(f) = 2 /\ f[1] = Namespace /\ f[2] = "#"
    OBVIOUS
  <2> HIDE DEF f
  <2>3. Matches(f, text)
    BY <2>1, <2>2 DEF Matches
  <2> QED
    BY <2>3 DEF f
<1> QED
  BY <1>1 DEF Hears, HostFilters

(***************************************************************************)
(* What is under way.                                                      *)
(***************************************************************************)

NodeReport(n, type, text, m) ==
    /\ text = <<Namespace, n.group, type, n.edge>>
    /\ m = [kind |-> "report", type |-> type, node |-> n, device |-> Absent]

DeviceReport(n, d, type, text, m) ==
    /\ text = <<Namespace, n.group, type, n.edge, d>>
    /\ m = [kind |-> "report", type |-> type, node |-> n, device |-> d]

\* The meaning is what the text of the topic says.
Says(text, m) ==
    \/ \E n \in Nodes, type \in NodeTypes \ {"NCMD"} : NodeReport(n, type, text, m)
    \/ \E n \in Nodes, type \in DeviceTypes \ {"DCMD"} : \E d \in n.devices :
          DeviceReport(n, d, type, text, m)
    \/ \E g, e \in Ids : text = <<Namespace, g, "NCMD", e>> /\ m = Command(g, e, Absent)
    \/ \E g, e, d \in Ids : text = <<Namespace, g, "DCMD", e, d>> /\ m = Command(g, e, d)
    \/ \E h \in Hosts : text = StateTopic(h) /\ m = [kind |-> "state", host |-> h]
    \/ m = [kind |-> "foreign"]

Delivered ==
    /\ topic \in Texts
    /\ Says(topic, meaning)
    /\ at_nodes = [n \in Nodes |->
            IF Hears(NodeFilters(n), topic) THEN NodeHandles(n, topic) ELSE Unheard]
    /\ at_hosts = [h \in Hosts |->
            IF Hears(HostFilters(h), topic) THEN HostHandles(h, topic) ELSE Unheard]

\* Nothing is under way, or a message that everybody has handled.
RoutingInv ==
    \/ /\ topic = Absent
       /\ meaning = Nothing
       /\ at_hosts = [h \in Hosts |-> Unheard]
    \/ Delivered

\* What is delivered with its meaning keeps the invariant.
LEMMA DeliverDelivers ==
    ASSUME NEW text \in Texts, NEW m, Says(text, m), Deliver(text, m)
    PROVE  Delivered'
  BY DEF Deliver, Delivered, Hears

\* A rebirth request is for the node whose message was handled.
LEMMA RebirthSays ==
    ASSUME NEW h \in Hosts, RoutingInv, HostRequestsRebirth(h)
    PROVE  Delivered'
<1> DEFINE t == Parse(topic).topic
<1>1. at_hosts[h] # Unheard /\ at_hosts[h].node # Absent
  BY DEF HostRequestsRebirth, Unheard, Reaction
<1>2. Delivered
  BY <1>1 DEF RoutingInv
<1>3. at_hosts[h] = HostHandles(h, topic)
  BY <1>1, <1>2 DEF Delivered
<1>4. Parse(topic).ok /\ t.kind \in {"Node", "Device"}
  <2>1. Parse(topic).ok
    BY <1>1, <1>3 DEF HostHandles, Error, Reaction
  <2>2. ASSUME t.kind \notin {"Node", "Device"}
        PROVE  at_hosts[h].node = Absent
    BY <1>3, <2>1, <2>2 DEF HostHandles, Ignored, Reaction
  <2> QED
    BY <1>1, <2>1, <2>2
<1>5. t.group \in Ids /\ t.edge \in Ids
  <2>1. topic \in Texts
    BY <1>2 DEF Delivered
  <2>2. CASE \E x \in Ids : t = HostState(<<x>>)
    BY <1>4, <2>2 DEF HostState
  <2>3. CASE \E g, e \in Ids, ty \in NodeTypes : t = NodeTopic(g, e, ty)
    BY <2>3 DEF NodeTopic
  <2>4. CASE \E g, e, d \in Ids, ty \in DeviceTypes : t = DeviceTopic(g, e, d, ty)
    BY <2>4 DEF DeviceTopic
  <2> QED
    BY <1>4, <2>1, <2>2, <2>3, <2>4, ParseCases
<1>6. meaning.kind = "report" => meaning.node.group = t.group /\ meaning.node.edge = t.edge
  <2>1. CASE \E n \in Nodes, type \in NodeTypes \ {"NCMD"} : NodeReport(n, type, topic, meaning)
    <3>1. PICK n \in Nodes, type \in NodeTypes \ {"NCMD"} : NodeReport(n, type, topic, meaning)
      BY <2>1
    <3>2. t = NodeTopic(n.group, n.edge, type)
      BY <3>1, ParseNodeText, RoutingAssumption DEF NodeReport
    <3> QED
      BY <3>1, <3>2 DEF NodeReport, NodeTopic
  <2>2. CASE \E n \in Nodes, type \in DeviceTypes \ {"DCMD"} : \E d \in n.devices :
                DeviceReport(n, d, type, topic, meaning)
    <3>1. PICK n \in Nodes, type \in DeviceTypes \ {"DCMD"} : \E d \in n.devices :
                DeviceReport(n, d, type, topic, meaning)
      BY <2>2
    <3>2. PICK d \in n.devices : DeviceReport(n, d, type, topic, meaning)
      BY <3>1
    <3>3. n.group \in Ids /\ n.edge \in Ids /\ d \in Ids /\ type \in DeviceTypes
      BY RoutingAssumption
    <3>4. t = DeviceTopic(n.group, n.edge, d, type)
      BY <3>2, <3>3, ParseDeviceText DEF DeviceReport
    <3> QED
      BY <3>2, <3>4 DEF DeviceReport, DeviceTopic
  <2>3. CASE meaning.kind # "report"
    BY <2>3
  <2>4. Says(topic, meaning)
    BY <1>2 DEF Delivered
  <2> QED
    BY <2>1, <2>2, <2>3, <2>4 DEF Says, Command
<1> DEFINE text == <<Namespace, t.group, "NCMD", t.edge>>
<1>7. text \in Texts /\ Says(text, Command(t.group, t.edge, Absent))
  BY <1>5, CommandTexts DEF Says
<1>8. Deliver(text, Command(t.group, t.edge, Absent))
  BY <1>6, NodeText DEF HostRequestsRebirth
<1> HIDE DEF t, text
<1> QED
  BY <1>7, <1>8, DeliverDelivers

\* Every step keeps the invariant.
LEMMA RoutingInvHolds == RoutingSpec => []RoutingInv
<1>1. RoutingInit => RoutingInv
  BY DEF RoutingInit, RoutingInv
<1>2. RoutingInv /\ [RoutingNext]_routingVars => RoutingInv'
  <2> SUFFICES ASSUME RoutingInv, [RoutingNext]_routingVars
               PROVE  RoutingInv'
    OBVIOUS
  <2>1. ASSUME NEW n \in Nodes, NEW type \in NodeTypes \ {"NCMD"}, NodePublishes(n, type)
        PROVE  RoutingInv'
    <3> DEFINE text == <<Namespace, n.group, type, n.edge>>
    <3> DEFINE m == [kind |-> "report", type |-> type, node |-> n, device |-> Absent]
    <3>1. text \in Texts
      BY ParseNodeText, RoutingAssumption
    <3>2. Deliver(text, m)
      BY <2>1, NodeText DEF NodePublishes, Publish
    <3>3. Says(text, m)
      BY DEF Says, NodeReport
    <3> HIDE DEF text, m
    <3> QED
      BY <3>1, <3>2, <3>3, DeliverDelivers DEF RoutingInv
  <2>2. ASSUME NEW n \in Nodes, NEW d \in n.devices, NEW type \in DeviceTypes \ {"DCMD"},
               DevicePublishes(n, d, type)
        PROVE  RoutingInv'
    <3> DEFINE text == <<Namespace, n.group, type, n.edge, d>>
    <3> DEFINE m == [kind |-> "report", type |-> type, node |-> n, device |-> d]
    <3>1. text \in Texts
      <4>1. n.group \in Ids /\ n.edge \in Ids /\ d \in Ids /\ type \in DeviceTypes
        BY RoutingAssumption
      <4> QED
        BY <4>1, ParseDeviceText
    <3>2. Deliver(text, m)
      BY <2>2, DeviceText DEF DevicePublishes, Publish
    <3>3. Says(text, m)
      BY DEF Says, DeviceReport
    <3> HIDE DEF text, m
    <3> QED
      BY <3>1, <3>2, <3>3, DeliverDelivers DEF RoutingInv
  <2>3. ASSUME NEW g \in GivenIds, NEW e \in GivenIds, HostCommandsNode(g, e)
        PROVE  RoutingInv'
    <3> DEFINE text == <<Namespace, g[1], "NCMD", e[1]>>
    <3>1. g[1] \in Ids /\ e[1] \in Ids
      BY <2>3, RoutingAssumption, Tuples DEF HostCommandsNode, IsId, Ids
    <3>2. Deliver(text, Command(g[1], e[1], Absent))
      BY <2>3, NodeText DEF HostCommandsNode, Publish
    <3>3. text \in Texts /\ Says(text, Command(g[1], e[1], Absent))
      BY <3>1, CommandTexts DEF Says
    <3> HIDE DEF text
    <3> QED
      BY <3>2, <3>3, DeliverDelivers DEF RoutingInv
  <2>4. ASSUME NEW g \in GivenIds, NEW e \in GivenIds, NEW d \in GivenIds,
               HostCommandsDevice(g, e, d)
        PROVE  RoutingInv'
    <3> DEFINE text == <<Namespace, g[1], "DCMD", e[1], d[1]>>
    <3>1. g[1] \in Ids /\ e[1] \in Ids /\ d[1] \in Ids
      BY <2>4, RoutingAssumption, Tuples DEF HostCommandsDevice, IsId, Ids
    <3>2. Deliver(text, Command(g[1], e[1], d[1]))
      BY <2>4, DeviceText DEF HostCommandsDevice, Publish
    <3>3. text \in Texts /\ Says(text, Command(g[1], e[1], d[1]))
      BY <3>1, CommandTexts DEF Says
    <3> HIDE DEF text
    <3> QED
      BY <3>2, <3>3, DeliverDelivers DEF RoutingInv
  <2>5. ASSUME NEW h \in Hosts, HostRequestsRebirth(h)
        PROVE  RoutingInv'
    BY <2>5, RebirthSays DEF RoutingInv
  <2>6. ASSUME NEW h \in Hosts, HostAnnounces(h)
        PROVE  RoutingInv'
    <3>1. StateTopic(h) \in Texts
      BY StateText, RoutingAssumption
    <3>2. Says(StateTopic(h), [kind |-> "state", host |-> h])
      BY DEF Says
    <3>3. Deliver(StateTopic(h), [kind |-> "state", host |-> h])
      BY <2>6 DEF HostAnnounces, Publish
    <3> QED
      BY <3>1, <3>2, <3>3, DeliverDelivers DEF RoutingInv
  <2>7. ASSUME NEW text \in Foreign, SomebodyPublishes(text)
        PROVE  RoutingInv'
    <3>1. text \in Texts /\ Says(text, [kind |-> "foreign"])
      BY RoutingAssumption DEF Says
    <3> QED
      BY <2>7, <3>1, DeliverDelivers DEF RoutingInv, SomebodyPublishes, Publish
  <2>8. CASE Settle
    BY <2>8 DEF Settle, RoutingInv
  <2>9. CASE UNCHANGED routingVars
    BY <2>9 DEF routingVars, RoutingInv, Delivered
  <2> QED
    BY <2>1, <2>2, <2>3, <2>4, <2>5, <2>6, <2>7, <2>8, <2>9 DEF RoutingNext
<1> QED
  BY <1>1, <1>2, PTL DEF RoutingSpec

(***************************************************************************)
(* The properties.                                                         *)
(***************************************************************************)

\* What the parser takes is what the constructors build, and prints as the
\* same text (parse, to_string).
THEOREM ParsedIsPrintedHolds == RoutingSpec => []ParsedIsPrinted
<1>1. RoutingInv => ParsedIsPrinted
  BY ParseInverts DEF RoutingInv, Delivered, ParsedIsPrinted
<1> QED
  BY <1>1, RoutingInvHolds, PTL

\* How everybody handles the report of a node.
LEMMA NodeReportRouted ==
    ASSUME Delivered, NEW k \in Nodes, NEW type \in NodeTypes \ {"NCMD"},
           NodeReport(k, type, topic, meaning)
    PROVE  ReportsRouted
<1>1. /\ Parse(topic).ok
      /\ Parse(topic).topic = NodeTopic(k.group, k.edge, type)
  BY ParseNodeText, RoutingAssumption DEF NodeReport
<1>2. meaning.type = type /\ meaning.node = k /\ meaning.device = Absent
  BY DEF NodeReport
<1>3. ASSUME NEW h \in Hosts
      PROVE  at_hosts[h] = Reaction(type, Key(k.group, k.edge), Absent)
  <2>1. Len(topic) > 1 /\ topic[1] = Namespace
    BY DEF NodeReport
  <2>2. at_hosts[h] = HostHandles(h, topic)
    BY <2>1, HostHears DEF Delivered
  <2> QED
    BY <1>1, <2>2 DEF HostHandles, NodeTopic
<1>4. ASSUME NEW n \in Nodes
      PROVE  at_nodes[n] \in {Unheard, Ignored}
  BY <1>1 DEF Delivered, NodeHandles, NodeTopic
<1>5. ASSUME NEW n \in Nodes
      PROVE  Key(k.group, k.edge) = Key(n.group, n.edge) <=> n = k
  BY RoutingAssumption DEF Key
<1> QED
  BY <1>2, <1>3, <1>4, <1>5 DEF ReportsRouted, Reaction

\* How everybody handles the report of a device.
LEMMA DeviceReportRouted ==
    ASSUME Delivered, NEW k \in Nodes, NEW type \in DeviceTypes \ {"DCMD"}, NEW d \in k.devices,
           DeviceReport(k, d, type, topic, meaning)
    PROVE  ReportsRouted
<1>0. k.group \in Ids /\ k.edge \in Ids /\ d \in Ids /\ type \in DeviceTypes
  BY RoutingAssumption
<1>1. /\ Parse(topic).ok
      /\ Parse(topic).topic = DeviceTopic(k.group, k.edge, d, type)
  BY <1>0, ParseDeviceText DEF DeviceReport
<1>2. meaning.type = type /\ meaning.node = k /\ meaning.device = d
  BY DEF DeviceReport
<1>3. ASSUME NEW h \in Hosts
      PROVE  at_hosts[h] = Reaction(type, Key(k.group, k.edge), d)
  <2>1. Len(topic) > 1 /\ topic[1] = Namespace
    BY DEF DeviceReport
  <2>2. at_hosts[h] = HostHandles(h, topic)
    BY <2>1, HostHears DEF Delivered
  <2> QED
    BY <1>1, <2>2 DEF HostHandles, DeviceTopic
<1>4. ASSUME NEW n \in Nodes
      PROVE  at_nodes[n] \in {Unheard, Ignored}
  BY <1>1 DEF Delivered, NodeHandles, DeviceTopic
<1>5. ASSUME NEW n \in Nodes
      PROVE  Key(k.group, k.edge) = Key(n.group, n.edge) <=> n = k
  BY RoutingAssumption DEF Key
<1> QED
  BY <1>2, <1>3, <1>4, <1>5 DEF ReportsRouted, Reaction

\* What a node or device reports is booked under that node and device by every
\* host, and by no Edge Node acted on (key, handle_incoming).
THEOREM ReportsRoutedHolds == RoutingSpec => []ReportsRouted
<1>1. RoutingInv => ReportsRouted
  <2> SUFFICES ASSUME RoutingInv, meaning.kind = "report"
               PROVE  ReportsRouted
    BY DEF ReportsRouted
  <2>1. Delivered /\ Says(topic, meaning)
    BY DEF RoutingInv, Nothing, Delivered
  <2>2. \/ \E n \in Nodes, type \in NodeTypes \ {"NCMD"} : NodeReport(n, type, topic, meaning)
        \/ \E n \in Nodes, type \in DeviceTypes \ {"DCMD"} : \E d \in n.devices :
              DeviceReport(n, d, type, topic, meaning)
    BY <2>1 DEF Says, Command
  <2> QED
    BY <2>1, <2>2, NodeReportRouted, DeviceReportRouted, Zenon
<1> QED
  BY <1>1, RoutingInvHolds, PTL

\* A command is acted on by the node it is for, if that has the device, and by
\* nobody else (subscriptions of connect, publish_node_command, send_rebirth).
THEOREM CommandsRoutedHolds == RoutingSpec => []CommandsRouted
<1>1. ASSUME Delivered, NEW g \in Ids, NEW e \in Ids,
             topic = <<Namespace, g, "NCMD", e>>, meaning = Command(g, e, Absent)
      PROVE  CommandsRouted
  <2>1. Parse(topic).ok /\ Parse(topic).topic = NodeTopic(g, e, "NCMD")
    BY <1>1, ParseNodeText DEF NodeTypes
  <2>2. ASSUME NEW n \in Nodes, WellGated(n)
        PROVE  at_nodes[n] = IF n.group = g /\ n.edge = e
                             THEN Reaction("NodeCommand", Absent, Absent) ELSE Unheard
    <3>1. Hears(NodeFilters(n), topic) <=> g = n.group /\ e = n.edge
      BY <1>1, <2>2, NodeHears
    <3>2. NodeHandles(n, topic) = Reaction("NodeCommand", Absent, Absent)
      BY <2>1 DEF NodeHandles, NodeTopic
    <3> QED
      BY <1>1, <3>1, <3>2 DEF Delivered
  <2>3. ASSUME NEW h \in Hosts
        PROVE  at_hosts[h] = Ignored
    <3>1. Len(topic) > 1 /\ topic[1] = Namespace
      BY <1>1
    <3>2. at_hosts[h] = HostHandles(h, topic)
      BY <1>1, <3>1, HostHears DEF Delivered
    <3> QED
      BY <2>1, <3>2 DEF HostHandles, NodeTopic
  <2>4. meaning.group = g /\ meaning.edge = e /\ meaning.device = Absent
    BY <1>1 DEF Command
  <2> QED
    BY <2>2, <2>3, <2>4 DEF CommandsRouted
<1>2. ASSUME Delivered, NEW g \in Ids, NEW e \in Ids, NEW d \in Ids,
             topic = <<Namespace, g, "DCMD", e, d>>, meaning = Command(g, e, d)
      PROVE  CommandsRouted
  <2>1. Parse(topic).ok /\ Parse(topic).topic = DeviceTopic(g, e, d, "DCMD")
    BY <1>2, ParseDeviceText DEF DeviceTypes
  <2>2. ASSUME NEW n \in Nodes, WellGated(n)
        PROVE  at_nodes[n] = IF n.group = g /\ n.edge = e /\ d \in n.devices
                             THEN Reaction("DeviceCommand", Absent, d) ELSE Unheard
    <3>1. Hears(NodeFilters(n), topic) <=> g = n.group /\ e = n.edge /\ d \in n.devices
      BY <1>2, <2>2, NodeHears
    <3>2. NodeHandles(n, topic) = Reaction("DeviceCommand", Absent, d)
      BY <2>1 DEF NodeHandles, DeviceTopic
    <3> QED
      BY <1>2, <3>1, <3>2 DEF Delivered
  <2>3. ASSUME NEW h \in Hosts
        PROVE  at_hosts[h] = Ignored
    <3>1. Len(topic) > 1 /\ topic[1] = Namespace
      BY <1>2
    <3>2. at_hosts[h] = HostHandles(h, topic)
      BY <1>2, <3>1, HostHears DEF Delivered
    <3> QED
      BY <2>1, <3>2 DEF HostHandles, DeviceTopic
  <2>4. meaning.group = g /\ meaning.edge = e /\ meaning.device = d /\ d # Absent
    BY <1>2, RoutingAssumption, Tokens DEF Command
  <2> QED
    BY <2>2, <2>3, <2>4 DEF CommandsRouted
<1>3. RoutingInv => CommandsRouted
  <2> SUFFICES ASSUME RoutingInv, meaning.kind = "command"
               PROVE  CommandsRouted
    BY DEF CommandsRouted
  <2>1. Delivered /\ Says(topic, meaning)
    BY DEF RoutingInv, Nothing, Delivered
  <2>2. \/ \E g, e \in Ids : topic = <<Namespace, g, "NCMD", e>> /\ meaning = Command(g, e, Absent)
        \/ \E g, e, d \in Ids : topic = <<Namespace, g, "DCMD", e, d>> /\ meaning = Command(g, e, d)
    BY <2>1 DEF Says, NodeReport, DeviceReport
  <2> QED
    BY <1>1, <1>2, <2>1, <2>2
<1> QED
  BY <1>3, RoutingInvHolds, PTL

\* The STATE of a host is taken for its own by that host, and for its primary
\* host's by the nodes that are gated on it, and by nobody if the host's id is
\* no identifier (state_topic, primary_host_id).
THEOREM StateRoutedHolds == RoutingSpec => []StateRouted
<1>1. ASSUME Delivered, NEW h \in Hosts, topic = StateTopic(h), meaning.host = h
      PROVE  StateRouted
  <2>0. h \in Texts
    BY RoutingAssumption
  <2>1. /\ Len(topic) > 1
        /\ topic[1] = Namespace
        /\ topic \in Texts
    BY <1>1, <2>0, StateText, Tuples
  <2>2. ASSUME IsId(h)
        PROVE  Parse(topic).ok /\ Parse(topic).topic = HostState(h)
    BY <1>1, <2>0, <2>2, ParseStateText
  <2>3. ASSUME Parse(topic).ok, Parse(topic).topic.kind \notin {"Node", "Device"}
        PROVE  IsId(h) /\ Parse(topic).topic.host_id = h
    <3>1. Parse(topic).topic.kind = "HostState"
      BY <2>1, <2>3, ParseKinds
    <3> QED
      BY <1>1, <2>0, <2>3, <3>1, ParseStateText
  <2>4. Parse(topic).ok => /\ Parse(topic).topic.kind = "Node"
                                => Parse(topic).topic.type \in NodeTypes
                           /\ Parse(topic).topic.kind = "Device"
                                => Parse(topic).topic.type \in DeviceTypes
    BY <2>1, ParseKinds
  <2>5. ASSUME NEW k \in Hosts
        PROVE  at_hosts[k].as = "OwnState" <=> h = k /\ IsId(k)
    <3>1. at_hosts[k] = HostHandles(k, topic)
      BY <1>1, <2>1, HostHears DEF Delivered
    <3>2. CASE ~Parse(topic).ok
      BY <2>2, <3>1, <3>2 DEF HostHandles, Error, Reaction
    <3>3. CASE Parse(topic).ok /\ Parse(topic).topic.kind = "Node"
      <4>1. ~IsId(h)
        BY <2>2, <3>3 DEF HostState
      <4>2. at_hosts[k].as # "OwnState"
        BY <2>4, <3>1, <3>3 DEF HostHandles, Ignored, Reaction, NodeTypes
      <4> QED
        BY <4>1, <4>2
    <3>4. CASE Parse(topic).ok /\ Parse(topic).topic.kind = "Device"
      <4>1. ~IsId(h)
        BY <2>2, <3>4 DEF HostState
      <4>2. at_hosts[k].as # "OwnState"
        BY <2>4, <3>1, <3>4 DEF HostHandles, Ignored, Reaction, DeviceTypes
      <4> QED
        BY <4>1, <4>2
    <3>5. CASE Parse(topic).ok /\ Parse(topic).topic.kind \notin {"Node", "Device"}
      <4>1. IsId(h) /\ Parse(topic).topic.host_id = h
        BY <2>3, <3>5
      <4>2. at_hosts[k] = IF h = k THEN Reaction("OwnState", Absent, Absent) ELSE Ignored
        BY <3>1, <3>5, <4>1 DEF HostHandles
      <4> QED
        BY <4>1, <4>2 DEF Ignored, Reaction
    <3> QED
      BY <3>2, <3>3, <3>4, <3>5
  <2>6. ASSUME NEW n \in Nodes
        PROVE  at_nodes[n].as = "PrimaryHostState" <=> n.primary_host_id = h /\ IsId(h)
    <3>1. ASSUME n.primary_host_id = h, IsId(h)
          PROVE  at_nodes[n].as = "PrimaryHostState"
      <4>1. StateTopic(h) \in NodeFilters(n)
        BY <2>0, <3>1, RoutingAssumption DEF NodeFilters
      <4>2. Matches(topic, topic)
        BY DEF Matches
      <4>3. at_nodes[n] = NodeHandles(n, topic)
        BY <1>1, <4>1, <4>2 DEF Delivered, Hears
      <4> QED
        BY <2>2, <3>1, <4>3 DEF NodeHandles, HostState, Reaction
    <3>2. ASSUME at_nodes[n].as = "PrimaryHostState"
          PROVE  n.primary_host_id = h /\ IsId(h)
      <4>1. at_nodes[n] = NodeHandles(n, topic)
        BY <1>1, <3>2 DEF Delivered, Unheard, Reaction
      <4>2. Parse(topic).ok /\ Parse(topic).topic.kind \notin {"Node", "Device"}
        BY <3>2, <4>1 DEF NodeHandles, Error, Ignored, Reaction
      <4>3. n.primary_host_id = Parse(topic).topic.host_id
        BY <3>2, <4>1, <4>2 DEF NodeHandles, Ignored, Reaction
      <4> QED
        BY <2>3, <4>2, <4>3
    <3> QED
      BY <3>1, <3>2
  <2> QED
    BY <1>1, <2>5, <2>6 DEF StateRouted
<1>2. RoutingInv => StateRouted
  <2> SUFFICES ASSUME RoutingInv, meaning.kind = "state"
               PROVE  StateRouted
    BY DEF StateRouted
  <2>1. Delivered /\ Says(topic, meaning)
    BY DEF RoutingInv, Nothing, Delivered
  <2>2. PICK h \in Hosts : topic = StateTopic(h) /\ meaning = [kind |-> "state", host |-> h]
    BY <2>1 DEF Says, NodeReport, DeviceReport, Command
  <2> QED
    BY <1>1, <2>1, <2>2
<1> QED
  BY <1>2, RoutingInvHolds, PTL

-----------------------------------------------------------------------------
(***************************************************************************)
(* Induction.                                                              *)
(***************************************************************************)

\* A set of numbers has a least one.
LEMMA LeastNumber ==
    ASSUME NEW T \in SUBSET Nat, T # {}
    PROVE  \E x \in T : \A y \in T : x <= y
<1> DEFINE R == OpToRel(<, Nat)
<1>1. IsWellFoundedOn(R, Nat)
  BY NatLessThanWellFounded
<1>2. \A x, y \in Nat : <<y, x>> \notin R => x <= y
  BY DEF OpToRel
<1> HIDE DEF R
<1>3. \E x \in T : \A y \in T : <<y, x>> \notin R
  BY <1>1, WFMin
<1> QED
  BY <1>2, <1>3

\* Induction, with a set for the property: what holds of a number if it holds of
\* all smaller ones, holds of every number.
LEMMA Induction ==
    ASSUME NEW S, \A n \in Nat : (\A k \in 0 .. n - 1 : k \in S) => n \in S
    PROVE  \A n \in Nat : n \in S
<1> SUFFICES ASSUME Nat \ S # {} PROVE FALSE
  OBVIOUS
<1> DEFINE T == Nat \ S
<1>1. T \in SUBSET Nat /\ T # {}
  OBVIOUS
<1> HIDE DEF T
<1>2. PICK x \in T : \A y \in T : x <= y
  BY <1>1, LeastNumber
<1>3. x \in Nat /\ \A k \in 0 .. x - 1 : k \in S
  BY <1>2 DEF T
<1> QED
  BY <1>3 DEF T

(***************************************************************************)
(* Recursion.                                                              *)
(***************************************************************************)

\* The functions that do as the equation says up to rank n.
Solutions(D, T, rank, Stop, base, down, step, n) ==
    {w \in [D -> T] :
        \A d \in D : rank[d] < n =>
            w[d] = IF d \in Stop THEN base[d] ELSE step[<<d, w[down[d]]>>]}

\* The pieces of a recursive definition: a value for some arguments, and for the
\* others a step from the value of an argument of lower rank.
Descends(D, T, rank, Stop, base, down, step) ==
    /\ rank \in [D -> Nat]
    /\ Stop \in SUBSET D
    /\ down \in [D -> D]
    /\ \A d \in D \ Stop : rank[down[d]] < rank[d]
    /\ base \in [D -> T]
    /\ step \in [D \X T -> T]

Solves(w, D, Stop, base, down, step) ==
    \A d \in D : w[d] = IF d \in Stop THEN base[d] ELSE step[<<d, w[down[d]]>>]

\* A function may be defined by recursion that descends in rank.
LEMMA Recursion ==
    ASSUME NEW D, NEW T, NEW rank, NEW Stop, NEW base, NEW down, NEW step,
           Descends(D, T, rank, Stop, base, down, step)
    PROVE  \E w \in [D -> T] : Solves(w, D, Stop, base, down, step)
<1> USE DEF Descends
<1> DEFINE Sols(n) == Solutions(D, T, rank, Stop, base, down, step, n)
           Body(w, d) == IF d \in Stop THEN base[d] ELSE step[<<d, w[down[d]]>>]
<1>0. \A n : \A w : w \in Sols(n) <=>
          w \in [D -> T] /\ \A d \in D : rank[d] < n => w[d] = Body(w, d)
  BY DEF Solutions
<1> HIDE DEF Sols
<1>1. ASSUME NEW m \in Nat, NEW n \in Nat, NEW v \in Sols(m), NEW w \in Sols(n)
      PROVE  \A d \in D : rank[d] < m /\ rank[d] < n => v[d] = w[d]
  <2> DEFINE S == {r \in Nat : \A d \in D :
                     rank[d] = r /\ r < m /\ r < n => v[d] = w[d]}
  <2>1. ASSUME NEW r \in Nat, \A k \in 0 .. r - 1 : k \in S PROVE r \in S
    <3> SUFFICES ASSUME NEW d \in D, rank[d] = r, r < m, r < n PROVE v[d] = w[d]
      OBVIOUS
    <3>1. v[d] = Body(v, d) /\ w[d] = Body(w, d)
      BY <1>0
    <3>2. CASE d \in Stop
      BY <3>1, <3>2
    <3>3. CASE d \notin Stop
      <4>1. down[d] \in D /\ rank[down[d]] \in 0 .. r - 1
        BY <3>3
      <4>2. v[down[d]] = w[down[d]]
        BY <4>1, <2>1
      <4> QED
        BY <3>1, <3>3, <4>2
    <3> QED
      BY <3>2, <3>3
  <2> HIDE DEF S
  <2>2. \A r \in Nat : r \in S
    BY <2>1, Induction
  <2> QED
    BY <2>2 DEF S
<1>2. \A n \in Nat : Sols(n) # {}
  <2> DEFINE S == {n \in Nat : Sols(n) # {}}
  <2>1. ASSUME NEW n \in Nat, \A k \in 0 .. n - 1 : k \in S PROVE n \in S
    <3>1. CASE n = 0
      <4>1. base \in Sols(n)
        BY <3>1, <1>0
      <4> QED
        BY <4>1
    <3>2. CASE n # 0
      <4>1. n - 1 \in Nat /\ n - 1 \in 0 .. n - 1
        BY <3>2
      <4>2. PICK v : v \in Sols(n - 1)
        BY <4>1, <2>1
      <4>3. v \in [D -> T] /\ \A d \in D : rank[d] < n - 1 => v[d] = Body(v, d)
        BY <4>2, <1>0
      <4> DEFINE w == [d \in D |-> Body(v, d)]
      <4>4. w \in [D -> T]
        BY <4>3
      <4>5. \A d \in D : rank[d] < n - 1 => w[d] = v[d]
        BY <4>3
      <4>6. ASSUME NEW d \in D, rank[d] < n PROVE w[d] = Body(w, d)
        <5>1. d \notin Stop => rank[down[d]] < n - 1
          BY <4>6
        <5> QED
          BY <4>5, <5>1
      <4> HIDE DEF w
      <4>7. w \in Sols(n)
        BY <1>0, <4>4, <4>6
      <4> QED
        BY <4>7
    <3> QED
      BY <3>1, <3>2
  <2> HIDE DEF S
  <2>2. \A n \in Nat : n \in S
    BY <2>1, Induction
  <2> QED
    BY <2>2 DEF S
<1> DEFINE sol == [n \in Nat |-> CHOOSE v : v \in Sols(n)]
           w == [d \in D |-> sol[rank[d] + 1][d]]
<1>3. \A n \in Nat : sol[n] \in Sols(n)
  BY <1>2
<1> HIDE DEF sol
<1>4. \A n \in Nat : \A d \in D : rank[d] < n => w[d] = sol[n][d]
  <2> SUFFICES ASSUME NEW n \in Nat, NEW d \in D, rank[d] < n PROVE w[d] = sol[n][d]
    OBVIOUS
  <2>1. rank[d] \in Nat /\ rank[d] + 1 \in Nat /\ rank[d] < rank[d] + 1
    OBVIOUS
  <2>2. sol[rank[d] + 1] \in Sols(rank[d] + 1) /\ sol[n] \in Sols(n)
    BY <2>1, <1>3
  <2> QED
    BY <2>1, <2>2, <1>1
<1>5. ASSUME NEW d \in D
      PROVE  w[d] \in T /\ w[d] = Body(w, d)
  <2>1. PICK n \in Nat : rank[d] < n
    <3>1. rank[d] + 1 \in Nat /\ rank[d] < rank[d] + 1
      OBVIOUS
    <3> QED
      BY <3>1
  <2>2. sol[n] \in [D -> T] /\ sol[n][d] = Body(sol[n], d)
    BY <2>1, <1>3, <1>0
  <2>3. w[d] = sol[n][d]
    BY <2>1, <1>4
  <2>4. d \notin Stop => w[down[d]] = sol[n][down[d]]
    <3>1. d \notin Stop => rank[down[d]] < n
      BY <2>1
    <3> QED
      BY <3>1, <1>4
  <2> HIDE DEF w
  <2> QED
    BY <2>2, <2>3, <2>4
<1>6. w \in [D -> T]
  BY <1>5
<1> HIDE DEF w
<1> QED
  BY <1>5, <1>6 DEF Solves

(***************************************************************************)
(* Powers of 2.                                                            *)
(***************************************************************************)

\* The equation of Power2.
LEMMA Power2Equation ==
    ASSUME NEW n \in Nat
    PROVE  Power2(n) = IF n = 0 THEN 1 ELSE 2 * Power2(n - 1)
<1> DEFINE Eq(p) == p = [i \in Nat |-> IF i = 0 THEN 1 ELSE 2 * p[i - 1]]
           down == [i \in Nat |-> IF i = 0 THEN 0 ELSE i - 1]
           rank == [i \in Nat |-> i]
           base == [i \in Nat |-> 1]
           step == [x \in Nat \X Nat |-> 2 * x[2]]
           Stop == {0}
<1>1. Descends(Nat, Nat, rank, Stop, base, down, step)
  BY DEF Descends
<1>2. \A i, x \in Nat : base[i] = 1 /\ step[<<i, x>>] = 2 * x
  OBVIOUS
<1>3. \A i \in Nat : (i \in Stop <=> i = 0) /\ (i # 0 => down[i] = i - 1 /\ i - 1 \in Nat)
  OBVIOUS
<1> HIDE DEF rank, down, base, step, Stop
<1>4. PICK w \in [Nat -> Nat] : Solves(w, Nat, Stop, base, down, step)
  BY <1>1, Recursion
<1>5. ASSUME NEW i \in Nat PROVE w[i] = IF i = 0 THEN 1 ELSE 2 * w[i - 1]
  <2>1. CASE i = 0
    BY <2>1, <1>2, <1>3, <1>4 DEF Solves
  <2>2. CASE i # 0
    <3>1. i - 1 \in Nat /\ w[i - 1] \in Nat /\ w[i] = step[<<i, w[i - 1]>>]
      BY <2>2, <1>3, <1>4 DEF Solves
    <3> QED
      BY <3>1, <2>2, <1>2
  <2> QED
    BY <2>1, <2>2
<1>6. Eq(w)
  BY <1>5
<1> HIDE DEF Eq
<1>7. Eq(CHOOSE p : Eq(p))
  BY <1>6
<1> USE DEF Eq
<1>8. Power2(n) = (CHOOSE p : Eq(p))[n]
  BY DEF Power2
<1>9. n # 0 => Power2(n - 1) = (CHOOSE p : Eq(p))[n - 1]
  BY DEF Power2
<1> QED
  BY <1>7, <1>8, <1>9

\* Powers are positive numbers.
LEMMA Power2Type == \A n \in Nat : Power2(n) \in Nat \ {0}
<1> DEFINE S == {n \in Nat : Power2(n) \in Nat \ {0}}
<1>1. ASSUME NEW n \in Nat, \A k \in 0 .. n - 1 : k \in S PROVE n \in S
  <2>1. n # 0 => Power2(n - 1) \in Nat \ {0}
    BY <1>1
  <2> QED
    BY <2>1, Power2Equation
<1> HIDE DEF S
<1>2. \A n \in Nat : n \in S
  BY <1>1, Induction
<1> QED
  BY <1>2 DEF S

\* The law of exponents.
LEMMA Power2Sum ==
    ASSUME NEW m \in Nat, NEW n \in Nat
    PROVE  Power2(m + n) = Power2(m) * Power2(n)
<1> DEFINE S == {k \in Nat : Power2(m + k) = Power2(m) * Power2(k)}
<1>1. ASSUME NEW k \in Nat, \A j \in 0 .. k - 1 : j \in S PROVE k \in S
  <2>1. CASE k = 0
    BY <2>1, Power2Equation, Power2Type
  <2>2. CASE k # 0
    <3>1. k - 1 \in S
      BY <1>1, <2>2
    <3> DEFINE a == Power2(m)
               b == Power2(k - 1)
    <3>2. a \in Nat /\ b \in Nat /\ Power2(m + (k - 1)) = a * b
      BY <2>2, <3>1, Power2Type
    <3>3. m + k - 1 = m + (k - 1) /\ m + k # 0 /\ m + k \in Nat
      BY <2>2
    <3>4. Power2(m + k) = 2 * Power2(m + (k - 1)) /\ Power2(k) = 2 * b
      BY <2>2, <3>3, Power2Equation
    <3> HIDE DEF a, b
    <3>5. 2 * (a * b) = a * (2 * b)
      BY <3>2
    <3> QED
      BY <3>2, <3>4, <3>5 DEF a
  <2> QED
    BY <2>1, <2>2
<1> HIDE DEF S
<1>2. \A k \in Nat : k \in S
  BY <1>1, Induction
<1> QED
  BY <1>2 DEF S

\* Powers grow with the exponent.
LEMMA Power2Grows ==
    ASSUME NEW m \in Nat, NEW n \in Nat, m <= n
    PROVE  Power2(m) <= Power2(n)
<1>1. n - m \in Nat /\ m + (n - m) = n
  OBVIOUS
<1>2. Power2(n) = Power2(m) * Power2(n - m)
  BY <1>1, Power2Sum
<1>3. \A a, b \in Nat \ {0} : a <= a * b
  OBVIOUS
<1> QED
  BY <1>1, <1>2, <1>3, Power2Type

(***************************************************************************)
(* Varints.                                                                *)
(***************************************************************************)

\* The continuation bit.
LEMMA MoreType == More \in Nat /\ More >= 2
<1>1. ByteBits - 1 \in Nat /\ 1 <= ByteBits - 1
  BY ReaderAssumption
<1>2. Power2(1) = 2
  BY Power2Equation
<1> QED
  BY <1>1, <1>2, Power2Grows, Power2Type DEF More

\* Division by the base of the digits.
LEMMA Digits ==
    ASSUME NEW v \in Nat
    PROVE  /\ v \div More \in Nat
           /\ v % More \in 0 .. More - 1
           /\ v = More * (v \div More) + (v % More)
           /\ v >= More => v \div More < v /\ v \div More >= 1
<1> DEFINE q == v \div More
           r == v % More
<1>1. q \in Nat /\ r \in 0 .. More - 1 /\ v = More * q + r
  BY MoreType
<1> HIDE DEF q, r
<1>2. v >= More => q >= 1
  BY <1>1, MoreType
<1>3. q >= 1 => More * q >= 2 * q
  BY <1>1, MoreType
<1>4. q >= 1 => q < v
  BY <1>1, <1>3, MoreType
<1> QED
  BY <1>1, <1>2, <1>4 DEF q, r

\* A byte before others.
LEMMA ByteBefore ==
    ASSUME NEW S, NEW x \in S, NEW s \in Seq(S)
    PROVE  /\ <<x>> \o s \in Seq(S)
           /\ Len(<<x>> \o s) = Len(s) + 1
           /\ (<<x>> \o s)[1] = x
           /\ \A i \in 1 .. Len(s) : (<<x>> \o s)[i + 1] = s[i]
           /\ <<x>> \o s # << >>
           /\ Head(<<x>> \o s) = x
           /\ Tail(<<x>> \o s) = s
<1> DEFINE t == <<x>> \o s
<1>1. /\ t \in Seq(S)
      /\ Len(t) = Len(s) + 1
      /\ t[1] = x
      /\ \A i \in 1 .. Len(s) : t[i + 1] = s[i]
  <2>1. <<x>> \in Seq(S) /\ Len(<<x>>) = 1 /\ <<x>>[1] = x
    OBVIOUS
  <2> QED
    BY <2>1, ConcatProperties
<1>2. t # << >> /\ Len(s) \in Nat
  BY <1>1
<1> HIDE DEF t
<1>3. Head(t) = x
  BY <1>1, <1>2
<1>4. Tail(t) \in Seq(S) /\ Len(Tail(t)) = Len(s)
      /\ \A i \in 1 .. Len(s) : Tail(t)[i] = t[i + 1]
  BY <1>1, <1>2, HeadTailProperties
<1>5. Tail(t) = s
  BY <1>1, <1>4, SeqEqual
<1> QED
  BY <1>1, <1>2, <1>3, <1>5 DEF t

\* The equation of WriteVarint.
LEMMA WriteVarintEquation ==
    ASSUME NEW v \in Nat
    PROVE  WriteVarint(v) = IF v < More THEN <<v>>
                            ELSE <<(v % More) + More>> \o WriteVarint(v \div More)
<1> DEFINE Eq(p) == p = [n \in Nat |-> IF n < More THEN <<n>>
                                       ELSE <<(n % More) + More>> \o p[n \div More]]
           down == [n \in Nat |-> n \div More]
           rank == [n \in Nat |-> n]
           base == [n \in Nat |-> <<n>>]
           step == [x \in Nat \X Seq(Nat) |-> <<(x[1] % More) + More>> \o x[2]]
           Stop == {n \in Nat : n < More}
<1>1. Descends(Nat, Seq(Nat), rank, Stop, base, down, step)
  <2>1. rank \in [Nat -> Nat] /\ Stop \in SUBSET Nat /\ base \in [Nat -> Seq(Nat)]
    OBVIOUS
  <2>2. down \in [Nat -> Nat] /\ \A n \in Nat \ Stop : rank[down[n]] < rank[n]
    BY Digits, MoreType
  <2>3. step \in [Nat \X Seq(Nat) -> Seq(Nat)]
    <3>1. ASSUME NEW n \in Nat, NEW s \in Seq(Nat)
          PROVE  <<(n % More) + More>> \o s \in Seq(Nat)
      <4>1. (n % More) + More \in Nat
        BY Digits, MoreType
      <4> QED
        BY <4>1, ByteBefore
    <3>2. \A x \in Nat \X Seq(Nat) : \E n \in Nat, s \in Seq(Nat) : x = <<n, s>>
      OBVIOUS
    <3>3. \A x \in Nat \X Seq(Nat) : <<(x[1] % More) + More>> \o x[2] \in Seq(Nat)
      BY <3>1, <3>2
    <3> QED
      BY <3>3
  <2> QED
    BY <2>1, <2>2, <2>3 DEF Descends
<1>2. \A n \in Nat : base[n] = <<n>> /\ down[n] = n \div More /\ (n \in Stop <=> n < More)
  OBVIOUS
<1>3. \A n \in Nat, s \in Seq(Nat) : step[<<n, s>>] = <<(n % More) + More>> \o s
  OBVIOUS
<1> HIDE DEF rank, down, base, step, Stop
<1>4. PICK w \in [Nat -> Seq(Nat)] : Solves(w, Nat, Stop, base, down, step)
  BY <1>1, Recursion
<1>5. ASSUME NEW n \in Nat
      PROVE  w[n] = IF n < More THEN <<n>> ELSE <<(n % More) + More>> \o w[n \div More]
  <2>1. n \div More \in Nat /\ w[n \div More] \in Seq(Nat)
    BY <1>4, Digits
  <2>2. w[n] = IF n \in Stop THEN base[n] ELSE step[<<n, w[down[n]]>>]
    BY <1>4 DEF Solves
  <2>3. CASE n < More
    BY <2>2, <2>3, <1>2
  <2>4. CASE ~(n < More)
    <3>1. w[n] = step[<<n, w[n \div More]>>]
      BY <2>2, <2>4, <1>2
    <3>2. step[<<n, w[n \div More]>>] = <<(n % More) + More>> \o w[n \div More]
      BY <2>1, <1>3
    <3> QED
      BY <2>4, <3>1, <3>2
  <2> QED
    BY <2>3, <2>4
<1>6. Eq(w)
  BY <1>5
<1> HIDE DEF Eq
<1>7. Eq(CHOOSE p : Eq(p))
  BY <1>6
<1> USE DEF Eq
<1>8. WriteVarint(v) = (CHOOSE p : Eq(p))[v]
  BY DEF WriteVarint
<1>9. WriteVarint(v \div More) = (CHOOSE p : Eq(p))[v \div More]
  BY DEF WriteVarint
<1> QED
  BY <1>7, <1>8, <1>9, Digits

\* The equation of ReadVarint.
LEMMA ReadVarintEquation ==
    ASSUME NEW c \in Seq(Nat)
    PROVE  ReadVarint(c) = IF c = << >> THEN 0
                           ELSE (Head(c) % More) + More * ReadVarint(Tail(c))
<1> DEFINE Eq(p) == p = [s \in Seq(Nat) |->
                           IF s = << >> THEN 0 ELSE (Head(s) % More) + More * p[Tail(s)]]
           down == [s \in Seq(Nat) |-> IF s = << >> THEN << >> ELSE Tail(s)]
           rank == [s \in Seq(Nat) |-> Len(s)]
           base == [s \in Seq(Nat) |-> 0]
           step == [x \in Seq(Nat) \X Nat |->
                      IF x[1] = << >> THEN 0 ELSE (Head(x[1]) % More) + More * x[2]]
           Stop == {s \in Seq(Nat) : s = << >>}
<1>0. \A s \in Seq(Nat) : s # << >> =>
         Head(s) \in Nat /\ Tail(s) \in Seq(Nat) /\ Len(Tail(s)) = Len(s) - 1
  BY HeadTailProperties
<1>1. Descends(Seq(Nat), Nat, rank, Stop, base, down, step)
  <2>1. rank \in [Seq(Nat) -> Nat] /\ Stop \in SUBSET Seq(Nat) /\ base \in [Seq(Nat) -> Nat]
    OBVIOUS
  <2>2. down \in [Seq(Nat) -> Seq(Nat)]
    BY <1>0
  <2>3. \A s \in Seq(Nat) \ Stop : rank[down[s]] < rank[s]
    BY <1>0, <2>2
  <2>4. step \in [Seq(Nat) \X Nat -> Nat]
    <3>1. ASSUME NEW s \in Seq(Nat), NEW n \in Nat, s # << >>
          PROVE  (Head(s) % More) + More * n \in Nat
      <4>1. \A h \in Nat : h % More \in Nat
        BY Digits, MoreType
      <4>2. Head(s) % More \in Nat /\ More * n \in Nat
        BY <3>1, <4>1, <1>0, MoreType
      <4> QED
        BY <4>2
    <3>2. \A x \in Seq(Nat) \X Nat : \E s \in Seq(Nat), n \in Nat : x = <<s, n>>
      OBVIOUS
    <3>3. \A x \in Seq(Nat) \X Nat :
             x[1] # << >> => (Head(x[1]) % More) + More * x[2] \in Nat
      BY <3>1, <3>2
    <3> QED
      BY <3>3
  <2> QED
    BY <2>1, <2>2, <2>3, <2>4 DEF Descends
<1>2. \A s \in Seq(Nat) :
         base[s] = 0 /\ (s # << >> => down[s] = Tail(s)) /\ (s \in Stop <=> s = << >>)
  OBVIOUS
<1>3. \A s \in Seq(Nat), n \in Nat : s # << >> =>
         step[<<s, n>>] = (Head(s) % More) + More * n
  OBVIOUS
<1> HIDE DEF rank, down, base, step, Stop
<1>4. PICK w \in [Seq(Nat) -> Nat] : Solves(w, Seq(Nat), Stop, base, down, step)
  BY <1>1, Recursion
<1>5. ASSUME NEW s \in Seq(Nat)
      PROVE  w[s] = IF s = << >> THEN 0 ELSE (Head(s) % More) + More * w[Tail(s)]
  <2>1. CASE s = << >>
    BY <2>1, <1>2, <1>4 DEF Solves
  <2>2. CASE s # << >>
    <3>1. w[Tail(s)] \in Nat /\ w[s] = step[<<s, w[Tail(s)]>>]
      BY <2>2, <1>0, <1>2, <1>4 DEF Solves
    <3> QED
      BY <3>1, <2>2, <1>3
  <2> QED
    BY <2>1, <2>2
<1>6. Eq(w)
  BY <1>5
<1> HIDE DEF Eq
<1>7. Eq(CHOOSE p : Eq(p))
  BY <1>6
<1> USE DEF Eq
<1>8. ReadVarint(c) = (CHOOSE p : Eq(p))[c]
  BY DEF ReadVarint
<1>9. ReadVarint(Tail(c)) = (CHOOSE p : Eq(p))[Tail(c)]
  BY DEF ReadVarint
<1> QED
  BY <1>7, <1>8, <1>9

\* What WriteVarint writes is one varint, and ReadVarint reads the number back
\* (write_varint, read_varint).
THEOREM VarintRoundTrip ==
    \A v \in Nat : /\ WriteVarint(v) \in Seq(Nat)
                   /\ IsVarint(WriteVarint(v))
                   /\ ReadVarint(WriteVarint(v)) = v
<1> DEFINE S == {v \in Nat : /\ WriteVarint(v) \in Seq(Nat)
                             /\ IsVarint(WriteVarint(v))
                             /\ ReadVarint(WriteVarint(v)) = v}
<1>1. ASSUME NEW v \in Nat, \A k \in 0 .. v - 1 : k \in S PROVE v \in S
  <2>1. CASE v < More
    <3> DEFINE c == <<v>>
    <3>1. c \in Seq(Nat) /\ Len(c) = 1 /\ c[1] = v /\ c # << >> /\ Head(c) = v /\ Tail(c) = << >>
      OBVIOUS
    <3>2. WriteVarint(v) = c
      BY <2>1, WriteVarintEquation
    <3> HIDE DEF c
    <3>3. IsVarint(c)
      BY <2>1, <3>1 DEF IsVarint
    <3>4. << >> \in Seq(Nat)
      OBVIOUS
    <3>5. ReadVarint(<< >>) = 0
      BY <3>4, ReadVarintEquation
    <3>6. ReadVarint(c) = (v % More) + More * 0
      BY <3>1, <3>5, ReadVarintEquation
    <3>7. v % More = v
      BY <2>1, MoreType
    <3> QED
      BY <3>1, <3>2, <3>3, <3>6, <3>7, MoreType
  <2>2. CASE v >= More
    <3> DEFINE q == v \div More
               r == v % More
               s == WriteVarint(q)
               c == <<r + More>> \o s
    <3>1. q \in Nat /\ r \in 0 .. More - 1 /\ v = More * q + r /\ q < v
      BY <2>2, Digits, MoreType
    <3>2. WriteVarint(v) = c
      <4>1. ~(v < More)
        BY <2>2, MoreType
      <4> QED
        BY <4>1, WriteVarintEquation, Zenon
    <3> HIDE DEF q, r
    <3>3. s \in Seq(Nat) /\ IsVarint(s) /\ ReadVarint(s) = q
      BY <3>1, <1>1
    <3> HIDE DEF s
    <3>4. r + More \in Nat /\ (r + More) % More = r
      BY <3>1, MoreType
    <3>5. /\ c \in Seq(Nat)
          /\ Len(c) = Len(s) + 1
          /\ c[1] = r + More
          /\ \A i \in 1 .. Len(s) : c[i + 1] = s[i]
          /\ c # << >>
          /\ Head(c) = r + More
          /\ Tail(c) = s
      BY <3>3, <3>4, ByteBefore
    <3> HIDE DEF c
    <3>6. IsVarint(c)
      <4>1. Len(s) \in Nat \ {0} /\ DOMAIN s = 1 .. Len(s) /\ DOMAIN c = 1 .. Len(c)
        BY <3>3, <3>5 DEF IsVarint
      <4>2. SUFFICES ASSUME NEW i \in 1 .. Len(c) PROVE c[i] < More <=> i = Len(c)
        BY <3>5, <4>1 DEF IsVarint
      <4>3. CASE i = 1
        BY <4>1, <4>3, <3>1, <3>5, MoreType
      <4>4. CASE i # 1
        <5>1. i - 1 \in 1 .. Len(s) /\ i = (i - 1) + 1
          BY <4>1, <4>4, <3>5
        <5>2. c[i] = s[i - 1]
          BY <5>1, <3>5
        <5>3. s[i - 1] < More <=> i - 1 = Len(s)
          BY <5>1, <4>1, <3>3 DEF IsVarint
        <5> QED
          BY <5>1, <5>2, <5>3, <4>1, <3>5
      <4> QED
        BY <4>3, <4>4
    <3>7. ReadVarint(c) = r + More * q
      BY <3>3, <3>4, <3>5, ReadVarintEquation
    <3>8. r + More * q = v
      BY <3>1, MoreType
    <3> QED
      BY <3>2, <3>5, <3>6, <3>7, <3>8
  <2> QED
    BY <2>1, <2>2, MoreType
<1> HIDE DEF S
<1>2. \A v \in Nat : v \in S
  BY <1>1, Induction
<1> QED
  BY <1>2 DEF S

\* A varint has no byte more than its number needs.
LEMMA VarintIsShort ==
    \A v \in Nat : v >= 1 =>
        Power2((Len(WriteVarint(v)) - 1) * (ByteBits - 1)) <= v
<1> DEFINE bits == ByteBits - 1
           S == {v \in Nat : v >= 1 => Power2((Len(WriteVarint(v)) - 1) * bits) <= v}
<1>0. bits \in Nat
  BY ReaderAssumption
<1>1. ASSUME NEW v \in Nat, \A k \in 0 .. v - 1 : k \in S PROVE v \in S
  <2> SUFFICES ASSUME v >= 1 PROVE Power2((Len(WriteVarint(v)) - 1) * bits) <= v
    OBVIOUS
  <2>1. CASE v < More
    <3>1. WriteVarint(v) = <<v>>
      BY <2>1, WriteVarintEquation, Zenon
    <3>2. (1 - 1) * bits = 0 /\ Power2(0) = 1
      BY <1>0, Power2Equation
    <3>3. Len(WriteVarint(v)) = 1
      BY <3>1
    <3> QED
      BY <3>2, <3>3
  <2>2. CASE v >= More
    <3> DEFINE q == v \div More
               r == v % More
               s == WriteVarint(q)
               k == Len(s) - 1
    <3>1. q \in Nat /\ r \in Nat /\ v = More * q + r /\ q < v /\ q >= 1
      BY <2>2, Digits, MoreType
    <3>2. WriteVarint(v) = <<r + More>> \o s
      <4>1. ~(v < More)
        BY <2>2, MoreType
      <4> QED
        BY <4>1, WriteVarintEquation, Zenon
    <3> HIDE DEF q, r
    <3>3. s \in Seq(Nat) /\ IsVarint(s) /\ Power2(k * bits) <= q
      BY <3>1, <1>1, VarintRoundTrip
    <3> HIDE DEF s
    <3>4. r + More \in Nat
      BY <3>1, MoreType
    <3>5. Len(WriteVarint(v)) = Len(s) + 1 /\ Len(s) \in Nat \ {0}
      BY <3>2, <3>3, <3>4, ByteBefore DEF IsVarint
    <3>6. k \in Nat /\ k * bits \in Nat /\ (Len(WriteVarint(v)) - 1) * bits = bits + k * bits
      BY <3>5, <1>0
    <3> HIDE DEF k
    <3>7. Power2(bits + k * bits) = More * Power2(k * bits)
      BY <3>6, <1>0, Power2Sum DEF More
    <3> DEFINE p == Power2(k * bits)
    <3>8. p \in Nat /\ p <= q
      BY <3>3, <3>6, Power2Type
    <3> HIDE DEF p
    <3>9. More * p <= More * q
      BY <3>1, <3>8, MoreType
    <3>10. More * p <= v
      BY <3>1, <3>8, <3>9, MoreType
    <3> QED
      BY <3>6, <3>7, <3>10 DEF p
  <2> QED
    BY <2>1, <2>2, MoreType
<1> HIDE DEF S
<1>2. \A v \in Nat : v \in S
  BY <1>1, Induction
<1> QED
  BY <1>2 DEF S

\* The varint of a u64 is short enough for the reader.
LEMMA VarintFits ==
    ASSUME NEW v \in Nat, v < Range2(8)
    PROVE  Bits64(Len(WriteVarint(v)) - 1)
<1> DEFINE k == Len(WriteVarint(v)) - 1
<1>1. k \in Nat
  BY VarintRoundTrip DEF IsVarint
<1>2. CASE v = 0
  <2>1. WriteVarint(v) = <<v>>
    <3>1. v < More
      BY <1>2, MoreType
    <3> QED
      BY <3>1, WriteVarintEquation, Zenon
  <2>2. k = 0
    BY <2>1
  <2> HIDE DEF k
  <2>3. k * (ByteBits - 1) < 8 * ByteBits
    BY <2>2, ReaderAssumption
  <2> QED
    BY <2>3 DEF Bits64, k
<1>3. CASE v >= 1
  <2>1. Power2(k * (ByteBits - 1)) <= v
    BY <1>3, VarintIsShort
  <2> HIDE DEF k
  <2>2. k * (ByteBits - 1) \in Nat /\ 8 * ByteBits \in Nat
    BY <1>1, ReaderAssumption
  <2>3. Power2(k * (ByteBits - 1)) \in Nat /\ Power2(8 * ByteBits) \in Nat
    BY <2>2, Power2Type
  <2>4. ~(8 * ByteBits <= k * (ByteBits - 1))
    BY <2>1, <2>2, <2>3, Power2Grows DEF Range2
  <2> QED
    BY <2>2, <2>4 DEF Bits64, k
<1> QED
  BY <1>2, <1>3

(***************************************************************************)
(* The stream.                                                             *)
(***************************************************************************)

\* One sequence of numbers behind another.
LEMMA Joined ==
    \A s, t \in Seq(Nat) :
        /\ s \o t \in Seq(Nat)
        /\ Len(s \o t) = Len(s) + Len(t)
        /\ \A i \in 1 .. Len(s) + Len(t) :
              (s \o t)[i] = IF i <= Len(s) THEN s[i] ELSE t[i - Len(s)]
BY ConcatProperties

\* One number before others.
LEMMA Prepended ==
    \A h \in Nat, s \in Seq(Nat) :
        <<h>> \o s # << >> /\ Head(<<h>> \o s) = h /\ Tail(<<h>> \o s) = s
BY ByteBefore

\* Concatenation is associative.
LEMMA Regrouped ==
    ASSUME NEW s \in Seq(Nat), NEW t \in Seq(Nat), NEW u \in Seq(Nat)
    PROVE  (s \o t) \o u = s \o (t \o u)
OBVIOUS

\* So is that of sequences of byte strings.
LEMMA StringsRegrouped ==
    ASSUME NEW s \in Seq(Seq(Nat)), NEW t \in Seq(Seq(Nat)), NEW u \in Seq(Seq(Nat))
    PROVE  (s \o t) \o u = s \o (t \o u)
OBVIOUS

\* What FlattenSeq computes: the last of the concatenations from the left.
Joins(f, ss) ==
    /\ f \in [1 .. Len(ss) -> Seq(Nat)]
    /\ \A i \in 1 .. Len(ss) : f[i] = IF i = 1 THEN ss[i] ELSE f[i - 1] \o ss[i]

\* The equation of FlattenSeq.
LEMMA FlattenEquation ==
    ASSUME NEW ss \in Seq(Seq(Nat)), ss # << >>
    PROVE  \E f : Joins(f, ss) /\ FlattenSeq(ss) = f[Len(ss)]
<1> DEFINE D == 1 .. Len(ss)
           Eq(p) == p = [i \in D |-> IF i = 1 THEN ss[i] ELSE p[i - 1] \o ss[i]]
           down == [i \in D |-> IF i = 1 THEN 1 ELSE i - 1]
           rank == [i \in D |-> i]
           base == [i \in D |-> ss[i]]
           step == [x \in D \X Seq(Nat) |-> x[2] \o ss[x[1]]]
           Stop == {1}
<1>0. Len(ss) \in Nat \ {0} /\ \A i \in D : ss[i] \in Seq(Nat)
  OBVIOUS
<1>1. Descends(D, Seq(Nat), rank, Stop, base, down, step)
  <2>1. rank \in [D -> Nat] /\ Stop \in SUBSET D /\ base \in [D -> Seq(Nat)]
    BY <1>0
  <2>2. down \in [D -> D] /\ \A i \in D \ Stop : rank[down[i]] < rank[i]
    BY <1>0
  <2>3. \A s, t \in Seq(Nat) : s \o t \in Seq(Nat)
    BY ConcatProperties
  <2>4. step \in [D \X Seq(Nat) -> Seq(Nat)]
    BY <1>0, <2>3
  <2> QED
    BY <2>1, <2>2, <2>4 DEF Descends
<1>2. \A i \in D : base[i] = ss[i] /\ (i # 1 => down[i] = i - 1 /\ i - 1 \in D)
                   /\ (i \in Stop <=> i = 1)
  OBVIOUS
<1>3. \A i \in D, s \in Seq(Nat) : step[<<i, s>>] = s \o ss[i]
  OBVIOUS
<1> HIDE DEF rank, down, base, step, Stop
<1>4. PICK w \in [D -> Seq(Nat)] : Solves(w, D, Stop, base, down, step)
  BY <1>1, Recursion
<1>5. ASSUME NEW i \in D
      PROVE  w[i] = IF i = 1 THEN ss[i] ELSE w[i - 1] \o ss[i]
  <2>1. CASE i = 1
    BY <2>1, <1>2, <1>4 DEF Solves
  <2>2. CASE i # 1
    <3>1. i - 1 \in D /\ w[i - 1] \in Seq(Nat) /\ w[i] = step[<<i, w[i - 1]>>]
      BY <2>2, <1>2, <1>4 DEF Solves
    <3> QED
      BY <3>1, <2>2, <1>3
  <2> QED
    BY <2>1, <2>2
<1>6. Eq(w)
  BY <1>5
<1> DEFINE f == CHOOSE p : Eq(p)
<1> HIDE DEF Eq
<1>7. Eq(f)
  BY <1>6
<1>8. FlattenSeq(ss) = f[Len(ss)]
  BY <1>0 DEF FlattenSeq, Eq
<1> HIDE DEF f
<1>9. f \in [D -> Seq(Nat)]
  <2> DEFINE S == {n \in Nat : n \in D => f[n] \in Seq(Nat)}
  <2>1. ASSUME NEW n \in Nat, \A k \in 0 .. n - 1 : k \in S PROVE n \in S
    <3> SUFFICES ASSUME n \in D PROVE f[n] \in Seq(Nat)
      OBVIOUS
    <3>1. n # 1 => n - 1 \in D /\ f[n - 1] \in Seq(Nat)
      BY <2>1
    <3>2. f[n] = IF n = 1 THEN ss[n] ELSE f[n - 1] \o ss[n]
      BY <1>7 DEF Eq
    <3>3. ss[n] \in Seq(Nat)
      BY <1>0
    <3>4. n # 1 => f[n - 1] \o ss[n] \in Seq(Nat)
      BY <3>1, <3>3, ConcatProperties
    <3> QED
      BY <3>2, <3>3, <3>4
  <2> HIDE DEF S
  <2>2. \A n \in Nat : n \in S
    BY <2>1, Induction
  <2>3. \A n \in D : f[n] \in Seq(Nat)
    BY <2>2 DEF S
  <2>4. f = [i \in D |-> f[i]]
    BY <1>7 DEF Eq
  <2> QED
    BY <2>3, <2>4
<1>10. Joins(f, ss)
  BY <1>7, <1>9 DEF Joins, Eq
<1> QED
  BY <1>8, <1>10

\* FlattenSeq of numbers.
LEMMA FlattenType ==
    ASSUME NEW ss \in Seq(Seq(Nat))
    PROVE  FlattenSeq(ss) \in Seq(Nat) /\ FlattenSeq(<< >>) = << >>
<1>1. FlattenSeq(<< >>) = << >>
  BY DEF FlattenSeq
<1>2. CASE ss # << >>
  <2>1. PICK f : Joins(f, ss) /\ FlattenSeq(ss) = f[Len(ss)]
    BY <1>2, FlattenEquation
  <2>2. Len(ss) \in 1 .. Len(ss)
    BY <1>2
  <2> QED
    BY <1>1, <2>1, <2>2 DEF Joins
<1> QED
  BY <1>1, <1>2

\* FlattenSeq of one sequence more.
LEMMA FlattenAppend ==
    ASSUME NEW ss \in Seq(Seq(Nat)), NEW x \in Seq(Nat)
    PROVE  FlattenSeq(Append(ss, x)) = FlattenSeq(ss) \o x
<1> DEFINE tt == Append(ss, x)
           n == Len(ss)
<1>1. /\ tt \in Seq(Seq(Nat))
      /\ Len(tt) = n + 1
      /\ tt[n + 1] = x
      /\ \A i \in 1 .. n : tt[i] = ss[i]
      /\ tt # << >>
      /\ n \in Nat
  BY AppendProperties
<1> HIDE DEF tt
<1>2. PICK g : Joins(g, tt) /\ FlattenSeq(tt) = g[Len(tt)]
  BY <1>1, FlattenEquation
<1>3. CASE ss = << >>
  <2>1. n = 0
    BY <1>3
  <2>2. g[1] = x
    BY <1>1, <1>2, <2>1 DEF Joins
  <2>3. FlattenSeq(ss) \o x = x
    BY <1>3, FlattenType, ConcatEmptySeq
  <2> QED
    BY <1>1, <1>2, <2>1, <2>2, <2>3 DEF tt
<1>4. CASE ss # << >>
  <2>1. PICK f : Joins(f, ss) /\ FlattenSeq(ss) = f[n]
    BY <1>4, FlattenEquation
  <2>2. n >= 1
    BY <1>4
  <2> DEFINE S == {i \in Nat : i \in 1 .. n => g[i] = f[i]}
  <2>3. ASSUME NEW i \in Nat, \A k \in 0 .. i - 1 : k \in S PROVE i \in S
    <3> SUFFICES ASSUME i \in 1 .. n PROVE g[i] = f[i]
      OBVIOUS
    <3>1. i # 1 => i - 1 \in 1 .. n /\ g[i - 1] = f[i - 1]
      <4>1. i # 1 => i - 1 \in 1 .. n /\ i - 1 \in 0 .. i - 1
        OBVIOUS
      <4>2. i # 1 => i - 1 \in S
        BY <4>1, <2>3
      <4> QED
        BY <4>1, <4>2
    <3>2. i \in 1 .. Len(tt) /\ tt[i] = ss[i]
      BY <1>1
    <3>3. g[i] = IF i = 1 THEN tt[i] ELSE g[i - 1] \o tt[i]
      BY <3>2, <1>2 DEF Joins
    <3>4. f[i] = IF i = 1 THEN ss[i] ELSE f[i - 1] \o ss[i]
      BY <2>1 DEF Joins
    <3> QED
      BY <3>1, <3>2, <3>3, <3>4
  <2> HIDE DEF S
  <2>4. \A i \in Nat : i \in S
    BY <2>3, Induction
  <2>5. g[n] = f[n]
    BY <2>2, <2>4, <1>1 DEF S
  <2>6. g[n + 1] = g[n] \o x
    <3>1. n + 1 \in 1 .. Len(tt) /\ n + 1 # 1 /\ (n + 1) - 1 = n
      BY <1>1, <2>2
    <3>2. g[n + 1] = IF n + 1 = 1 THEN tt[n + 1] ELSE g[(n + 1) - 1] \o tt[n + 1]
      BY <3>1, <1>2 DEF Joins
    <3> QED
      BY <3>1, <3>2, <1>1
  <2> QED
    BY <1>1, <1>2, <2>1, <2>5, <2>6 DEF tt
<1> QED
  BY <1>3, <1>4

\* The bytes of a field: its tag, the length if there is one, and the content.
LEMMA FieldBytesType ==
    ASSUME NEW f \in Fields
    PROVE  /\ 8 * f.n + f.wire \in Nat
           /\ f.c \in Seq(Nat) /\ Len(f.c) \in Nat
           /\ Tag(f) \in Seq(Nat) /\ IsVarint(Tag(f))
           /\ FieldBytes(f) \in Seq(Nat)
           /\ Len(FieldBytes(f)) >= 1
<1> DEFINE c == f.c
           v == 8 * f.n + f.wire
           size == IF f.wire = WireLen THEN WriteVarint(Len(c)) ELSE << >>
<1>1. v \in Nat /\ c \in Seq(Nat)
  <2>1. f.n \in Nat /\ f.wire \in 0 .. 7 /\ f.c \in Seq(Nat)
    BY DEF Fields
  <2> DEFINE n == f.n
             wire == f.wire
  <2>2. n \in Nat /\ wire \in 0 .. 7
    BY <2>1
  <2> HIDE DEF n, wire
  <2>3. 8 * n + wire \in Nat
    BY <2>2
  <2> QED
    BY <2>1, <2>3 DEF n, wire
<1> HIDE DEF c
<1>2. Tag(f) \in Seq(Nat) /\ IsVarint(Tag(f))
  BY <1>1, VarintRoundTrip DEF Tag
<1> HIDE DEF v
<1>3. size \in Seq(Nat)
  <2>1. Len(c) \in Nat /\ << >> \in Seq(Nat)
    BY <1>1
  <2>2. WriteVarint(Len(c)) \in Seq(Nat)
    BY <2>1, VarintRoundTrip, Zenon
  <2> QED
    BY <2>1, <2>2, Zenon
<1>4. FieldBytes(f) = Tag(f) \o size \o c
  BY DEF FieldBytes, c
<1> HIDE DEF size
<1> DEFINE t == Tag(f)
           b == FieldBytes(f)
<1>5. t \o size \in Seq(Nat) /\ Len(t \o size) = Len(t) + Len(size)
  BY <1>2, <1>3, ConcatProperties
<1>6. b \in Seq(Nat) /\ Len(b) = Len(t) + Len(size) + Len(c)
  BY <1>1, <1>4, <1>5, ConcatProperties
<1>7. Len(t) >= 1
  BY <1>2 DEF IsVarint
<1> HIDE DEF t, b
<1>8. Len(b) >= 1 /\ Len(c) \in Nat
  BY <1>1, <1>3, <1>6, <1>7
<1> QED
  BY <1>1, <1>2, <1>6, <1>8 DEF t, b, c, v

\* The bytes of the first fields.
Before(fields, n) == Stream(SubSeq(fields, 1, n))

\* The bytes of one field follow those of the fields before it.
LEMMA StreamGrows ==
    ASSUME NEW fields \in Seq(Fields)
    PROVE  /\ Before(fields, 0) = << >>
           /\ Before(fields, Len(fields)) = Stream(fields)
           /\ \A n \in 0 .. Len(fields) : Before(fields, n) \in Seq(Nat)
           /\ \A n \in 0 .. Len(fields) - 1 :
                 Before(fields, n + 1) = Before(fields, n) \o FieldBytes(fields[n + 1])
<1> DEFINE B(n) == [i \in 1 .. n |-> FieldBytes(fields[i])]
<1>0. Len(fields) \in Nat /\ \A i \in 1 .. Len(fields) : fields[i] \in Fields
  OBVIOUS
<1>1. \A i \in 1 .. Len(fields) : FieldBytes(fields[i]) \in Seq(Nat)
  BY <1>0, FieldBytesType
<1>2. ASSUME NEW n \in 0 .. Len(fields)
      PROVE  B(n) \in Seq(Seq(Nat)) /\ Before(fields, n) = FlattenSeq(B(n))
  <2>1. n \in Nat /\ \A i \in 1 .. n : FieldBytes(fields[i]) \in Seq(Nat)
    BY <1>0, <1>1
  <2>2. B(n) \in Seq(Seq(Nat))
    BY <2>1
  <2> DEFINE s == SubSeq(fields, 1, n)
  <2>3. s \in Seq(Fields) /\ Len(s) = n /\ \A i \in 1 .. n : s[i] = fields[i]
    BY <1>0, <2>1, SubSeqProperties
  <2> HIDE DEF s
  <2>4. DOMAIN s = 1 .. n
    BY <2>3
  <2>5. [i \in DOMAIN s |-> FieldBytes(s[i])] = B(n)
    BY <2>3, <2>4
  <2> QED
    BY <2>2, <2>5 DEF Before, Stream, s
<1>3. Before(fields, 0) = << >>
  <2>1. B(0) = << >>
    OBVIOUS
  <2>2. B(0) \in Seq(Seq(Nat)) /\ Before(fields, 0) = FlattenSeq(B(0))
    <3>1. 0 \in 0 .. Len(fields)
      BY <1>0
    <3> QED
      BY <3>1, <1>2, Zenon
  <2> QED
    BY <2>1, <2>2, FlattenType
<1>4. Before(fields, Len(fields)) = Stream(fields)
  BY SubSeqFull DEF Before
<1>5. \A n \in 0 .. Len(fields) : Before(fields, n) \in Seq(Nat)
  BY <1>2, FlattenType
<1>6. ASSUME NEW n \in 0 .. Len(fields) - 1
      PROVE  Before(fields, n + 1) = Before(fields, n) \o FieldBytes(fields[n + 1])
  <2> DEFINE x == FieldBytes(fields[n + 1])
             b == B(n)
             a == B(n + 1)
  <2>1. n \in 0 .. Len(fields) /\ n + 1 \in 0 .. Len(fields) /\ n + 1 \in 1 .. Len(fields)
    BY <1>0
  <2>2. x \in Seq(Nat)
    BY <2>1, <1>1
  <2>3. b \in Seq(Seq(Nat)) /\ a \in Seq(Seq(Nat))
    BY <2>1, <1>2
  <2>4. n \in Nat /\ Len(b) = n /\ Len(a) = n + 1
    BY <2>1
  <2>5. \A i \in 1 .. n : a[i] = b[i]
    BY <2>1
  <2>6. a[n + 1] = x
    BY <2>1
  <2> HIDE DEF a, b, x
  <2>7. a = Append(b, x)
    <3> DEFINE t == Append(b, x)
    <3>1. /\ t \in Seq(Seq(Nat)) /\ Len(t) = n + 1 /\ t[n + 1] = x
          /\ \A i \in 1 .. n : t[i] = b[i]
      BY <2>2, <2>3, <2>4, AppendProperties
    <3> HIDE DEF t
    <3>2. \A i \in 1 .. Len(a) : a[i] = t[i]
      <4> SUFFICES ASSUME NEW i \in 1 .. Len(a) PROVE a[i] = t[i]
        OBVIOUS
      <4>1. i \in 1 .. n \/ i = n + 1
        BY <2>4
      <4> QED
        BY <4>1, <3>1, <2>5, <2>6
    <3>3. a = t
      BY <3>1, <3>2, <2>3, <2>4, SeqEqual
    <3> QED
      BY <3>3 DEF t
  <2>8. FlattenSeq(a) = FlattenSeq(b) \o x
    BY <2>2, <2>3, <2>7, FlattenAppend
  <2>9. Before(fields, n) = FlattenSeq(b) /\ Before(fields, n + 1) = FlattenSeq(a)
    BY <2>1, <1>2 DEF a, b
  <2> QED
    BY <2>8, <2>9 DEF x
<1> QED
  BY <1>3, <1>4, <1>5, <1>6

\* From byte pos on, buf shows c, or as much of it as there is.
Shows(buf, pos, c) ==
    /\ buf \in Seq(Nat) /\ c \in Seq(Nat)
    /\ pos \in 0 .. Len(buf)
    /\ \A j \in 1 .. Len(c) : pos + j <= Len(buf) => buf[pos + j] = c[j]

\* What shows two sequences shows the first, and the second after it.
LEMMA ShowsParts ==
    ASSUME NEW buf, NEW pos, NEW c \in Seq(Nat), NEW d \in Seq(Nat), Shows(buf, pos, c \o d)
    PROVE  /\ Len(c \o d) = Len(c) + Len(d)
           /\ Shows(buf, pos, c)
           /\ pos + Len(c) <= Len(buf) => Shows(buf, pos + Len(c), d)
<1>1. /\ c \o d \in Seq(Nat)
      /\ Len(c \o d) = Len(c) + Len(d)
      /\ \A i \in 1 .. Len(c) + Len(d) :
            (c \o d)[i] = IF i <= Len(c) THEN c[i] ELSE d[i - Len(c)]
  BY ConcatProperties
<1>2. Len(c) \in Nat /\ Len(d) \in Nat /\ Len(buf) \in Nat /\ pos \in Nat /\ pos <= Len(buf)
  BY DEF Shows
<1>3. \A j \in 1 .. Len(c) : pos + j <= Len(buf) => buf[pos + j] = c[j]
  <2> SUFFICES ASSUME NEW j \in 1 .. Len(c), pos + j <= Len(buf) PROVE buf[pos + j] = c[j]
    OBVIOUS
  <2>1. j \in 1 .. Len(c \o d) /\ (c \o d)[j] = c[j]
    BY <1>1, <1>2
  <2> QED
    BY <2>1 DEF Shows
<1>4. ASSUME NEW j \in 1 .. Len(d), pos + Len(c) + j <= Len(buf)
      PROVE  buf[pos + Len(c) + j] = d[j]
  <2> DEFINE i == Len(c) + j
  <2>1. /\ i \in 1 .. Len(c) + Len(d) /\ ~(i <= Len(c)) /\ i - Len(c) = j
        /\ pos + i = pos + Len(c) + j
    BY <1>2
  <2> HIDE DEF i
  <2>2. (c \o d)[i] = d[j]
    BY <1>1, <2>1
  <2>3. pos + i <= Len(buf) => buf[pos + i] = (c \o d)[i]
    BY <1>1, <2>1 DEF Shows
  <2> QED
    BY <1>4, <2>1, <2>2, <2>3
<1> QED
  BY <1>1, <1>2, <1>3, <1>4 DEF Shows

(***************************************************************************)
(* Reading what a buffer shows.                                            *)
(***************************************************************************)

\* Min and Max.
LEMMA MinMax ==
    ASSUME NEW T \in SUBSET Int, NEW x \in T
    PROVE  /\ (\A y \in T : x <= y) => Min(T) = x
           /\ (\A y \in T : y <= x) => Max(T) = x
<1>1. ASSUME \A y \in T : x <= y PROVE Min(T) = x
  <2>1. \A z \in T : (\A y \in T : z <= y) => z = x
    BY <1>1
  <2>2. Min(T) \in T /\ \A y \in T : Min(T) <= y
    BY <1>1 DEF Min
  <2> QED
    BY <2>1, <2>2
<1>2. ASSUME \A y \in T : y <= x PROVE Max(T) = x
  <2>1. \A z \in T : (\A y \in T : y <= z) => z = x
    BY <1>2
  <2>2. \A y \in T : x >= y
    BY <1>2
  <2>3. Max(T) \in T /\ \A y \in T : Max(T) >= y
    BY <2>2 DEF Max
  <2>4. \A y \in T : y <= Max(T)
    BY <2>3
  <2> QED
    BY <2>1, <2>3, <2>4
<1> QED
  BY <1>1, <1>2

\* How many bytes of a varint 64 bits take.
LEMMA Bits64Bound ==
    ASSUME NEW k \in Int
    PROVE  /\ TooLong(k) <=> ~Bits64(k)
           /\ \A m \in Int : k <= m /\ Bits64(m) => Bits64(k)
           /\ k <= 0 => Bits64(k)
<1> DEFINE bits == ByteBits - 1
           most == 8 * ByteBits
<1>1. bits \in Nat /\ most \in Nat /\ most > 0
  BY ReaderAssumption
<1>2. \A m : (Bits64(m) <=> m * bits < most) /\ (TooLong(m) <=> m * bits >= most)
  BY DEF Bits64, TooLong
<1> HIDE DEF bits, most
<1>3. \A m \in Int : m * bits \in Int
  BY <1>1
<1>4. \A m \in Int : k <= m => k * bits <= m * bits
  <2> SUFFICES ASSUME NEW m \in Int, k <= m PROVE k * bits <= m * bits
    OBVIOUS
  <2>1. (m - k) * bits >= 0
    BY <1>1
  <2>2. (m - k) * bits = m * bits - k * bits
    BY <1>1
  <2> QED
    BY <2>1, <2>2, <1>3
<1>5. k <= 0 => k * bits <= 0 * bits /\ 0 * bits = 0
  BY <1>1, <1>4
<1> QED
  BY <1>1, <1>2, <1>3, <1>4, <1>5

\* The slice that shows c is c.
LEMMA SliceIs ==
    ASSUME NEW buf \in Seq(Nat), NEW pos \in Nat, NEW c \in Seq(Nat),
           pos + Len(c) <= Len(buf), \A j \in 1 .. Len(c) : buf[pos + j] = c[j]
    PROVE  SubSeq(buf, pos + 1, pos + Len(c)) = c
<1>1. PICK n \in Nat : n = Len(c)
  OBVIOUS
<1> DEFINE s == SubSeq(buf, pos + 1, pos + n)
<1>2. \A i \in pos + 1 .. pos + n : buf[i] \in Nat
  <2>1. \A i \in pos + 1 .. pos + n : i \in 1 .. Len(buf)
    BY <1>1
  <2> QED
    BY <2>1
<1>3. s \in Seq(Nat) /\ Len(s) = n /\ \A i \in 1 .. n : s[i] = buf[pos + 1 + i - 1]
  <2>1. /\ pos + 1 \in Int /\ pos + n \in Int /\ pos + n - (pos + 1) + 1 = n
        /\ pos + 1 <= pos + n <=> n # 0
    OBVIOUS
  <2>2. /\ s \in Seq(Nat)
        /\ Len(s) = IF pos + 1 <= pos + n THEN pos + n - (pos + 1) + 1 ELSE 0
        /\ \A i \in 1 .. pos + n - (pos + 1) + 1 : s[i] = buf[pos + 1 + i - 1]
    <3> HIDE <1>1
    <3> QED
      BY <2>1, <1>2, SubSeqProperties
  <2> HIDE DEF s
  <2> QED
    BY <2>1, <2>2
<1> HIDE DEF s
<1>4. \A i \in 1 .. n : s[i] = c[i]
  <2> SUFFICES ASSUME NEW i \in 1 .. n PROVE s[i] = c[i]
    OBVIOUS
  <2>1. pos + 1 + i - 1 = pos + i
    OBVIOUS
  <2> QED
    BY <2>1, <1>1, <1>3
<1> QED
  BY <1>1, <1>3, <1>4, SeqEqual DEF s

\* A varint is read whole, unless it is longer than 64 bits or cut off.
LEMMA VarintShown ==
    ASSUME NEW buf, NEW pos, NEW c, Shows(buf, pos, c), IsVarint(c)
    PROVE  ReadVarintAt(buf, pos) =
             IF ~Bits64(Len(c) - 1) /\ ~Bits64(Len(buf) - pos)
             THEN Err("VarintOverflow")
             ELSE IF pos + Len(c) <= Len(buf) THEN At(pos + Len(c), c) ELSE Err("Truncated")
<1>0. buf \in Seq(Nat) /\ c \in Seq(Nat) /\ Len(c) \in Nat /\ Len(buf) \in Nat /\ Len(c) # 0
  BY DEF Shows, IsVarint
<1>1. PICK n \in Nat, all \in Nat : n = Len(c) /\ all = Len(buf)
  BY <1>0
<1> DEFINE ends == {i \in pos + 1 .. all : buf[i] < More}
           end == Min(ends)
<1>2. pos \in Nat /\ pos <= all /\ n # 0
  BY <1>0, <1>1 DEF Shows
<1>3. \A j \in 1 .. n : pos + j <= all => buf[pos + j] = c[j]
  BY <1>1 DEF Shows
<1>4. \A j \in 1 .. n : c[j] < More <=> j = n
  BY <1>0, <1>1 DEF IsVarint
<1>5. ReadVarintAt(buf, pos) =
        CASE ends # {} /\ ~TooLong(end - pos - 1) -> At(end, SubSeq(buf, pos + 1, end))
          [] TooLong(all - pos) /\ (ends = {} \/ TooLong(end - pos - 1)) ->
                Err("VarintOverflow")
          [] OTHER -> Err("Truncated")
  BY <1>1 DEF ReadVarintAt
<1>6. \A i \in pos + 1 .. all : i <= pos + n => (buf[i] < More <=> i = pos + n)
  <2> SUFFICES ASSUME NEW i \in pos + 1 .. all, i <= pos + n
               PROVE  buf[i] < More <=> i = pos + n
    OBVIOUS
  <2>1. PICK j \in 1 .. n : pos + j = i
    <3>1. i - pos \in 1 .. n /\ pos + (i - pos) = i
      BY <1>2
    <3> QED
      BY <3>1
  <2>2. buf[i] = c[j]
    BY <2>1, <1>3
  <2>3. j = n <=> i = pos + n
    BY <2>1, <1>2
  <2> QED
    BY <2>2, <2>3, <1>4
<1>7. TooLong(all - pos) <=> ~Bits64(all - pos)
  BY <1>2, Bits64Bound
<1>8. CASE pos + n <= all
  <2>1. ends \in SUBSET Int /\ pos + n \in ends /\ \A y \in ends : pos + n <= y
    <3>1. pos + n \in pos + 1 .. all
      BY <1>2, <1>8
    <3>2. buf[pos + n] < More
      BY <3>1, <1>6
    <3>3. \A y \in pos + 1 .. all : buf[y] < More => pos + n <= y
      BY <1>2, <1>6
    <3>4. ends \in SUBSET Int
      BY <1>2
    <3> QED
      BY <3>1, <3>2, <3>3, <3>4
  <2>2. end = pos + n /\ ends # {}
    <3> HIDE DEF ends
    <3> QED
      BY <2>1, MinMax
  <2> HIDE DEF ends, end
  <2>3. SubSeq(buf, pos + 1, end) = c
    <3>1. \A j \in 1 .. Len(c) : buf[pos + j] = c[j]
      BY <1>1, <1>2, <1>3, <1>8
    <3> QED
      BY <3>1, <2>2, <1>0, <1>1, <1>2, <1>8, SliceIs
  <2>4. end - pos - 1 = n - 1 /\ n - 1 \in Int /\ all - pos \in Int /\ n - 1 <= all - pos
    BY <2>2, <1>2, <1>8
  <2>5. TooLong(end - pos - 1) <=> ~Bits64(n - 1)
    BY <2>4, Bits64Bound
  <2>6. ~Bits64(n - 1) => ~Bits64(all - pos)
    BY <2>4, Bits64Bound
  <2>7. CASE Bits64(n - 1)
    BY <2>7, <2>2, <2>3, <2>5, <1>1, <1>5, <1>8
  <2>8. CASE ~Bits64(n - 1)
    BY <2>8, <2>2, <2>5, <2>6, <1>1, <1>5, <1>7
  <2> QED
    BY <2>7, <2>8
<1>9. CASE ~(pos + n <= all)
  <2>1. ends = {}
    <3>1. \A i \in pos + 1 .. all : i <= pos + n /\ i # pos + n
      BY <1>2, <1>9
    <3> QED
      BY <3>1, <1>6
  <2> HIDE DEF ends, end
  <2>2. all - pos \in Int /\ n - 1 \in Int /\ all - pos <= n - 1
    BY <1>2, <1>9
  <2>3. ~Bits64(all - pos) => ~Bits64(n - 1)
    BY <2>2, Bits64Bound
  <2> QED
    BY <2>1, <2>3, <1>1, <1>5, <1>7, <1>9
<1> QED
  BY <1>8, <1>9

\* A slice is read whole, unless it is cut off.
LEMMA SliceShown ==
    ASSUME NEW buf, NEW pos, NEW c, Shows(buf, pos, c)
    PROVE  ReadSlice(buf, pos, Len(c)) =
             IF pos + Len(c) <= Len(buf) THEN At(pos + Len(c), c) ELSE Err("Truncated")
<1>1. buf \in Seq(Nat) /\ c \in Seq(Nat) /\ pos \in Nat
  BY DEF Shows
<1>2. PICK n \in Nat, all \in Nat : n = Len(c) /\ all = Len(buf)
  BY <1>1
<1>3. CASE pos + n <= all
  <2>1. \A j \in 1 .. Len(c) : buf[pos + j] = c[j]
    <3>1. \A j \in 1 .. n : pos + j <= all
      BY <1>1, <1>3
    <3> QED
      BY <3>1, <1>2 DEF Shows
  <2>2. SubSeq(buf, pos + 1, pos + Len(c)) = c
    BY <2>1, <1>1, <1>2, <1>3, SliceIs
  <2>3. pos + Len(c) <= Len(buf) /\ ~(pos + Len(c) > Len(buf))
    BY <1>1, <1>2, <1>3
  <2>4. ReadSlice(buf, pos, Len(c)) = At(pos + Len(c), SubSeq(buf, pos + 1, pos + Len(c)))
    BY <2>3, Zenon DEF ReadSlice
  <2> QED
    BY <2>2, <2>3, <2>4, Zenon
<1>4. CASE ~(pos + n <= all)
  BY <1>1, <1>2, <1>4 DEF ReadSlice
<1> QED
  BY <1>3, <1>4

\* The error with which a field f ends the loop, of whose bytes and whatever
\* follows them n have arrived.
FailsAs(f, n) ==
    IF ~InSchema(f) /\ Len(Tag(f)) <= n
    THEN "InvalidWireType"
    ELSE IF InSchema(f) /\ Overlong(f) /\ ~Bits64(n - Len(Tag(f)))
         THEN "VarintOverflow"
         ELSE "Truncated"

\* What a read returns.
LEMMA Results ==
    /\ \A p, c : At(p, c).ok /\ At(p, c).v.c = c /\ At(p, c).v.pos = p
    /\ \A e : ~Err(e).ok /\ Err(e).e = e
  BY DEF At, Ok, Err

\* A tag is read whole and taken if its number fits.
LEMMA TagShown ==
    ASSUME NEW f \in Fields, IsField(f), NEW buf, NEW pos, Shows(buf, pos, Tag(f))
    PROVE  ReadTag(buf, pos) =
             IF pos + Len(Tag(f)) <= Len(buf)
             THEN IF f.n < Range2(4)
                  THEN At(pos + Len(Tag(f)), 8 * f.n + f.wire)
                  ELSE Err("InvalidWireType")
             ELSE Err("Truncated")
<1> DEFINE v == 8 * f.n + f.wire
           t == Tag(f)
           read == ReadVarintAt(buf, pos)
<1>1. v \in Nat /\ v < Range2(8) /\ t = WriteVarint(v)
  BY FieldBytesType DEF IsField, Tag
<1>2. t \in Seq(Nat) /\ IsVarint(t) /\ ReadVarint(t) = v /\ Bits64(Len(t) - 1)
  <2> HIDE DEF v, t
  <2> QED
    BY <1>1, VarintRoundTrip, VarintFits
<1>3. v \div 8 = f.n /\ f.n \in Nat
  <2>1. f.n \in Nat /\ f.wire \in 0 .. 7
    BY DEF Fields
  <2>2. \A n \in Nat, w \in 0 .. 7 : (8 * n + w) \div 8 = n
    OBVIOUS
  <2> QED
    BY <2>1, <2>2, Zenon
<1>4. Shows(buf, pos, t)
  OBVIOUS
<1> HIDE DEF v, t
<1>5. read = IF pos + Len(t) <= Len(buf) THEN At(pos + Len(t), t) ELSE Err("Truncated")
  BY <1>2, <1>4, VarintShown
<1>6. CASE pos + Len(t) <= Len(buf)
  <2>1. read.ok /\ read.v.c = t /\ read.v.pos = pos + Len(t)
    BY <1>5, <1>6, Results
  <2>2. ReadTag(buf, pos) = IF v \div 8 >= Range2(4) THEN Err("InvalidWireType")
                            ELSE At(pos + Len(t), v)
    <3> HIDE DEF read
    <3>1. ReadTag(buf, pos) = IF ReadVarint(read.v.c) \div 8 >= Range2(4)
                              THEN Err("InvalidWireType")
                              ELSE At(read.v.pos, ReadVarint(read.v.c))
      BY <2>1 DEF ReadTag, AndThen, read
    <3> QED
      BY <3>1, <2>1, <1>2
  <2>3. Range2(4) \in Nat
    BY Power2Type, ReaderAssumption DEF Range2
  <2>4. v \div 8 >= Range2(4) <=> ~(f.n < Range2(4))
    BY <1>3, <2>3
  <2> QED
    BY <1>6, <2>2, <2>4 DEF t, v
<1>7. CASE ~(pos + Len(t) <= Len(buf))
  <2>1. read = Err("Truncated")
    BY <1>5, <1>7
  <2>2. ~read.ok
    BY <2>1, Results
  <2> HIDE DEF read
  <2>3. ReadTag(buf, pos) = read
    BY <2>2 DEF ReadTag, AndThen, read
  <2> QED
    BY <1>7, <2>1, <2>3 DEF t
<1> QED
  BY <1>6, <1>7

\* The bytes of a field after its tag.
Body(f) == (IF f.wire = WireLen THEN WriteVarint(Len(f.c)) ELSE << >>) \o f.c

\* A content is read whole and taken for what was written.
LEMMA ContentShown ==
    ASSUME NEW f \in Fields, IsField(f), NEW buf, NEW pos, Shows(buf, pos, Body(f))
    PROVE  ReadContent(buf, pos, f.wire) =
             IF f.wire \notin SchemaWires
             THEN Err("InvalidWireType")
             ELSE IF Overlong(f) /\ ~Bits64(Len(buf) - pos)
             THEN Err("VarintOverflow")
             ELSE IF pos + Len(Body(f)) <= Len(buf)
             THEN At(pos + Len(Body(f)), f.c)
             ELSE Err("Truncated")
<1>1. f.c \in Seq(Nat) /\ Len(f.c) \in Nat
  BY FieldBytesType
<1>2. f.wire # WireLen => Body(f) = f.c
  <2>1. << >> \o f.c = f.c
    BY <1>1, ConcatEmptySeq
  <2> QED
    BY <2>1 DEF Body
<1>3. WireVarint = 0 /\ WireI64 = 1 /\ WireLen = 2 /\ WireI32 = 5
  BY DEF WireVarint, WireI64, WireLen, WireI32
<1>4. CASE f.wire \notin SchemaWires
  <2>1. f.wire # WireVarint /\ f.wire # WireI64 /\ f.wire # WireLen /\ f.wire # WireI32
    BY <1>4 DEF SchemaWires
  <2> QED
    BY <1>4, <2>1 DEF ReadContent
<1>5. CASE f.wire = WireVarint
  <2>1. f.wire # WireI64 /\ f.wire # WireLen /\ f.wire # WireI32 /\ f.wire \in SchemaWires
    BY <1>3, <1>5 DEF SchemaWires
  <2>2. ReadContent(buf, pos, f.wire) = ReadVarintAt(buf, pos)
    BY <1>5, <2>1 DEF ReadContent
  <2>3. IsVarint(f.c) /\ Shows(buf, pos, f.c) /\ Body(f) = f.c
    BY <1>2, <1>5, <2>1 DEF IsField
  <2>4. Overlong(f) <=> ~Bits64(Len(f.c) - 1)
    BY <1>5 DEF Overlong
  <2>5. ReadVarintAt(buf, pos) =
           IF ~Bits64(Len(f.c) - 1) /\ ~Bits64(Len(buf) - pos)
           THEN Err("VarintOverflow")
           ELSE IF pos + Len(f.c) <= Len(buf) THEN At(pos + Len(f.c), f.c)
           ELSE Err("Truncated")
    BY <2>3, VarintShown
  <2> QED
    BY <2>1, <2>2, <2>3, <2>4, <2>5
<1>6. CASE f.wire \in {WireI64, WireI32}
  <2>1. f.wire # WireVarint /\ f.wire # WireLen /\ f.wire \in SchemaWires
    BY <1>3, <1>6 DEF SchemaWires
  <2>2. ReadContent(buf, pos, f.wire) = ReadSlice(buf, pos, Len(f.c))
    BY <1>3, <1>6, <2>1 DEF ReadContent, IsField
  <2>3. Shows(buf, pos, f.c) /\ Body(f) = f.c
    BY <1>2, <2>1
  <2>4. ~Overlong(f)
    BY <2>1 DEF Overlong
  <2>5. ReadSlice(buf, pos, Len(f.c)) =
           IF pos + Len(f.c) <= Len(buf) THEN At(pos + Len(f.c), f.c) ELSE Err("Truncated")
    BY <2>3, SliceShown
  <2> QED
    BY <2>1, <2>2, <2>3, <2>4, <2>5
<1>7. CASE f.wire = WireLen
  <2> DEFINE size == WriteVarint(Len(f.c))
             read == ReadVarintAt(buf, pos)
  <2>1. /\ f.wire # WireVarint /\ f.wire # WireI64 /\ f.wire # WireI32
        /\ f.wire \in SchemaWires
    BY <1>3, <1>7 DEF SchemaWires
  <2>2. ~Overlong(f)
    BY <2>1 DEF Overlong
  <2>3. Body(f) = size \o f.c
    BY <1>7 DEF Body
  <2>4. /\ size \in Seq(Nat) /\ IsVarint(size) /\ ReadVarint(size) = Len(f.c)
        /\ Bits64(Len(size) - 1)
    <3>1. Len(f.c) < Range2(8)
      BY <1>7 DEF IsField
    <3> QED
      BY <3>1, <1>1, VarintRoundTrip, VarintFits
  <2> HIDE DEF size
  <2>5. /\ Len(Body(f)) = Len(size) + Len(f.c)
        /\ Shows(buf, pos, size)
        /\ pos + Len(size) <= Len(buf) => Shows(buf, pos + Len(size), f.c)
    <3>1. size \in Seq(Nat) /\ f.c \in Seq(Nat) /\ Shows(buf, pos, size \o f.c)
      BY <2>3, <2>4, <1>1
    <3>2. /\ Len(size \o f.c) = Len(size) + Len(f.c)
          /\ Shows(buf, pos, size)
          /\ pos + Len(size) <= Len(buf) => Shows(buf, pos + Len(size), f.c)
      BY <3>1, ShowsParts
    <3> QED
      BY <2>3, <3>2
  <2>6. read = IF pos + Len(size) <= Len(buf) THEN At(pos + Len(size), size)
               ELSE Err("Truncated")
    BY <2>4, <2>5, VarintShown
  <2>7. ReadContent(buf, pos, f.wire) = ReadLenSlice(buf, pos)
    BY <1>7, <2>1 DEF ReadContent
  <2>8. pos \in Nat /\ Len(buf) \in Nat /\ Len(size) \in Nat
    BY <2>4 DEF Shows
  <2>9. CASE pos + Len(size) <= Len(buf)
    <3>1. read.ok /\ read.v.c = size /\ read.v.pos = pos + Len(size)
      BY <2>6, <2>9, Results
    <3>2. ReadLenSlice(buf, pos) = ReadSlice(buf, pos + Len(size), Len(f.c))
      <4> HIDE DEF read
      <4>1. ReadLenSlice(buf, pos) = ReadSlice(buf, read.v.pos, ReadVarint(read.v.c))
        BY <3>1 DEF ReadLenSlice, AndThen, read
      <4> QED
        BY <4>1, <3>1, <2>4
    <3>3. ReadSlice(buf, pos + Len(size), Len(f.c)) =
             IF pos + Len(size) + Len(f.c) <= Len(buf)
             THEN At(pos + Len(size) + Len(f.c), f.c) ELSE Err("Truncated")
      BY <2>5, <2>9, SliceShown
    <3>4. pos + Len(size) + Len(f.c) = pos + Len(Body(f))
      <4>1. PICK a \in Nat, b \in Nat, c \in Nat : a = pos /\ b = Len(size) /\ c = Len(f.c)
        BY <1>1, <2>8
      <4>2. Len(Body(f)) = b + c
        BY <4>1, <2>5
      <4>3. a + b + c = a + (b + c)
        OBVIOUS
      <4> QED
        BY <4>1, <4>2, <4>3, Zenon
    <3> QED
      BY <3>2, <3>3, <3>4, <2>1, <2>2, <2>7
  <2>10. CASE ~(pos + Len(size) <= Len(buf))
    <3>1. read = Err("Truncated")
      BY <2>6, <2>10
    <3>2. ~read.ok
      BY <3>1, Results
    <3> HIDE DEF read
    <3>3. ReadLenSlice(buf, pos) = read
      BY <3>2 DEF ReadLenSlice, AndThen, read
    <3>4. ~(pos + Len(Body(f)) <= Len(buf))
      BY <1>1, <2>5, <2>8, <2>10
    <3> QED
      BY <3>1, <3>3, <3>4, <2>1, <2>2, <2>7
  <2> QED
    BY <2>9, <2>10
<1> QED
  BY <1>4, <1>5, <1>6, <1>7 DEF SchemaWires

\* A field is read as it was written, or the loop ends with its error.
LEMMA FieldShown ==
    ASSUME NEW f \in Fields, IsField(f), NEW buf, NEW pos, Shows(buf, pos, FieldBytes(f))
    PROVE  ReadField(buf, pos) =
             IF InSchema(f) /\ ~Overlong(f) /\ pos + Len(FieldBytes(f)) <= Len(buf)
             THEN At(pos + Len(FieldBytes(f)), f)
             ELSE Err(FailsAs(f, Len(buf) - pos))
<1> DEFINE t == Tag(f)
           b == Body(f)
           v == 8 * f.n + f.wire
           tag == ReadTag(buf, pos)
           content == ReadContent(buf, tag.v.pos, tag.v.c % 8)
<1>1. t \in Seq(Nat) /\ b \in Seq(Nat) /\ FieldBytes(f) = t \o b
  <2> DEFINE c == f.c
             size == IF f.wire = WireLen THEN WriteVarint(Len(c)) ELSE << >>
  <2>1. t \in Seq(Nat) /\ c \in Seq(Nat) /\ << >> \in Seq(Nat)
    BY FieldBytesType
  <2> HIDE DEF c
  <2>2. size \in Seq(Nat)
    <3>1. Len(c) \in Nat
      BY <2>1
    <3>2. WriteVarint(Len(c)) \in Seq(Nat)
      BY <3>1, VarintRoundTrip, Zenon
    <3> QED
      BY <2>1, <3>2, Zenon
  <2>3. FieldBytes(f) = (t \o size) \o c /\ b = size \o c
    BY DEF Body, FieldBytes, c
  <2> HIDE DEF size, t, b
  <2>4. size \o c \in Seq(Nat)
    BY <2>1, <2>2, Joined
  <2>5. (t \o size) \o c = t \o (size \o c)
    BY <2>1, <2>2
  <2> QED
    BY <2>1, <2>3, <2>4, <2>5
<1>2. f.n \in Nat /\ f.wire \in 0 .. 7 /\ v % 8 = f.wire /\ v \div 8 = f.n
  <2>1. f.n \in Nat /\ f.wire \in 0 .. 7
    BY DEF Fields
  <2>2. \A n \in Nat, w \in 0 .. 7 : (8 * n + w) % 8 = w /\ (8 * n + w) \div 8 = n
    OBVIOUS
  <2> QED
    BY <2>1, <2>2, Zenon
<1>3. f = [n |-> f.n, wire |-> f.wire, c |-> f.c]
  BY DEF Fields
<1>4. tag = IF pos + Len(t) <= Len(buf)
            THEN IF f.n < Range2(4) THEN At(pos + Len(t), v) ELSE Err("InvalidWireType")
            ELSE Err("Truncated")
  <2>1. Shows(buf, pos, t)
    <3> HIDE DEF t, b
    <3> QED
      BY <1>1, ShowsParts
  <2> QED
    BY <2>1, TagShown
<1> HIDE DEF t, b, v
<1>5. /\ Len(FieldBytes(f)) = Len(t) + Len(b)
      /\ pos + Len(t) <= Len(buf) => Shows(buf, pos + Len(t), b)
  <2>1. Shows(buf, pos, t \o b)
    BY <1>1
  <2>2. Len(t \o b) = Len(t) + Len(b)
    BY <1>1, ConcatProperties
  <2>3. pos + Len(t) <= Len(buf) => Shows(buf, pos + Len(t), b)
    BY <2>1, <1>1, ShowsParts, Zenon
  <2> QED
    BY <2>2, <2>3, <1>1
<1>6. ReadField(buf, pos) =
        IF ~tag.ok THEN tag
        ELSE IF ~content.ok THEN content
        ELSE At(content.v.pos, [n |-> tag.v.c \div 8, wire |-> tag.v.c % 8, c |-> content.v.c])
  <2> HIDE DEF tag
  <2> QED
    BY DEF ReadField, AndThen, tag
<1>7. PICK all \in Nat, lt \in Nat, lb \in Nat, p \in Nat :
         all = Len(buf) /\ lt = Len(t) /\ lb = Len(b) /\ p = pos
  BY <1>1 DEF Shows
<1> DEFINE n == all - p
<1>8. FailsAs(f, n) = IF ~InSchema(f) /\ lt <= n
                      THEN "InvalidWireType"
                      ELSE IF InSchema(f) /\ Overlong(f) /\ ~Bits64(n - lt)
                           THEN "VarintOverflow"
                           ELSE "Truncated"
  BY <1>7 DEF FailsAs, t
<1>9. lt <= n <=> p + lt <= all
  OBVIOUS
<1>10. CASE ~(p + lt <= all)
  <2>1. tag = Err("Truncated")
    BY <1>4, <1>7, <1>10
  <2>2. ReadField(buf, pos) = Err("Truncated")
    BY <1>6, <2>1, Results
  <2>3. n - lt \in Int /\ n - lt <= 0
    BY <1>10
  <2>4. Bits64(n - lt)
    BY <2>3, Bits64Bound
  <2>5. FailsAs(f, n) = "Truncated"
    BY <1>8, <1>9, <1>10, <2>4
  <2>6. ~(p + (lt + lb) <= all)
    BY <1>10
  <2> QED
    BY <2>2, <2>5, <2>6, <1>5, <1>7
<1>11. CASE p + lt <= all /\ ~(f.n < Range2(4))
  <2>1. tag = Err("InvalidWireType")
    BY <1>4, <1>7, <1>11
  <2>2. ReadField(buf, pos) = Err("InvalidWireType")
    BY <1>6, <2>1, Results
  <2>3. ~InSchema(f)
    BY <1>11 DEF InSchema
  <2>4. FailsAs(f, n) = "InvalidWireType"
    BY <1>8, <1>9, <1>11, <2>3
  <2> QED
    BY <2>2, <2>3, <2>4, <1>7
<1>12. CASE p + lt <= all /\ f.n < Range2(4)
  <2>1. tag = At(p + lt, v)
    BY <1>4, <1>7, <1>12
  <2>2. tag.ok /\ tag.v.c = v /\ tag.v.pos = p + lt
    BY <2>1, Results
  <2>3. Shows(buf, p + lt, b)
    BY <1>5, <1>7, <1>12
  <2>4. content = IF f.wire \notin SchemaWires
                  THEN Err("InvalidWireType")
                  ELSE IF Overlong(f) /\ ~Bits64(all - (p + lt))
                  THEN Err("VarintOverflow")
                  ELSE IF p + lt + lb <= all
                  THEN At(p + lt + lb, f.c)
                  ELSE Err("Truncated")
    <3>1. content = ReadContent(buf, p + lt, f.wire)
      BY <2>2, <1>2
    <3> QED
      BY <3>1, <2>3, <1>7, ContentShown DEF b
  <2>5. InSchema(f) <=> f.wire \in SchemaWires
    BY <1>12 DEF InSchema
  <2>6. /\ all - (p + lt) = n - lt
        /\ p + lt + lb <= all <=> p + (lt + lb) <= all
        /\ p + lt + lb = p + (lt + lb)
    OBVIOUS
  <2>7. Overlong(f) /\ p + lt + lb <= all => ~Bits64(n - lt)
    <3> SUFFICES ASSUME Overlong(f), p + lt + lb <= all PROVE ~Bits64(n - lt)
      OBVIOUS
    <3>1. f.wire = WireVarint /\ ~Bits64(Len(f.c) - 1)
      BY DEF Overlong
    <3>2. f.c \in Seq(Nat) /\ f.wire # WireLen
      BY <3>1, FieldBytesType DEF WireVarint, WireLen
    <3>3. b = f.c
      BY <3>2, ConcatEmptySeq DEF b, Body
    <3>4. ~Bits64(lb - 1)
      BY <3>1, <3>3, <1>7
    <3>5. lb - 1 \in Int /\ n - lt \in Int /\ lb - 1 <= n - lt
      OBVIOUS
    <3> QED
      BY <3>4, <3>5, Bits64Bound
  <2>8. CASE ~InSchema(f)
    <3>1. content = Err("InvalidWireType")
      BY <2>4, <2>5, <2>8
    <3>2. ReadField(buf, pos) = Err("InvalidWireType")
      BY <1>6, <2>2, <3>1, Results
    <3>3. FailsAs(f, n) = "InvalidWireType"
      BY <1>8, <1>9, <1>12, <2>8
    <3> QED
      BY <3>2, <3>3, <2>8, <1>7
  <2>9. CASE InSchema(f) /\ Overlong(f) /\ ~Bits64(n - lt)
    <3>1. content = Err("VarintOverflow")
      BY <2>4, <2>5, <2>6, <2>9
    <3>2. ReadField(buf, pos) = Err("VarintOverflow")
      BY <1>6, <2>2, <3>1, Results
    <3>3. FailsAs(f, n) = "VarintOverflow"
      BY <1>8, <2>9
    <3> QED
      BY <3>2, <3>3, <2>9, <1>7
  <2>10. CASE InSchema(f) /\ ~(Overlong(f) /\ ~Bits64(n - lt)) /\ p + lt + lb <= all
    <3>1. content = At(p + lt + lb, f.c)
      BY <2>4, <2>5, <2>6, <2>10
    <3>2. content.ok /\ content.v.c = f.c /\ content.v.pos = p + lt + lb
      BY <3>1, Results
    <3>3. ReadField(buf, pos) = At(p + lt + lb, f)
      <4> HIDE DEF tag, content
      <4> QED
        BY <1>2, <1>3, <1>6, <2>2, <3>2
    <3>4. ~Overlong(f)
      BY <2>7, <2>10
    <3> QED
      BY <3>3, <3>4, <2>6, <2>10, <1>5, <1>7
  <2>11. CASE InSchema(f) /\ ~(Overlong(f) /\ ~Bits64(n - lt)) /\ ~(p + lt + lb <= all)
    <3>1. content = Err("Truncated")
      BY <2>4, <2>5, <2>6, <2>11
    <3>2. ReadField(buf, pos) = Err("Truncated")
      BY <1>6, <2>2, <3>1, Results
    <3>3. FailsAs(f, n) = "Truncated"
      BY <1>8, <2>11
    <3> QED
      BY <3>2, <3>3, <2>6, <2>11, <1>5, <1>7
  <2> QED
    BY <2>8, <2>9, <2>10, <2>11
<1> QED
  BY <1>10, <1>11, <1>12

(***************************************************************************)
(* The loop.                                                               *)
(***************************************************************************)

\* What is written.
LEMMA WrittenType ==
    ASSUME NEW fields \in Written
    PROVE  /\ fields \in Seq(Fields) /\ Len(fields) \in Nat
           /\ \A i \in 1 .. Len(fields) : fields[i] \in Fields /\ IsField(fields[i])
<1>1. fields \in Seq(Fields) /\ \A i \in DOMAIN fields : IsField(fields[i])
  BY ReaderAssumption
<1> QED
  BY <1>1

\* The first elements of a sequence.
LEMMA PrefixOf ==
    ASSUME NEW T, NEW s \in Seq(T), NEW k \in 0 .. Len(s)
    PROVE  /\ SubSeq(s, 1, k) \in Seq(T)
           /\ Len(SubSeq(s, 1, k)) = k
           /\ \A i \in 1 .. k : SubSeq(s, 1, k)[i] = s[i]
<1>1. \A i \in 1 .. k : s[i] \in T
  OBVIOUS
<1>2. 1 \in Int /\ k \in Int /\ k - 1 + 1 = k
  OBVIOUS
<1>3. /\ SubSeq(s, 1, k) \in Seq(T)
      /\ Len(SubSeq(s, 1, k)) = IF 1 <= k THEN k - 1 + 1 ELSE 0
      /\ \A i \in 1 .. k - 1 + 1 : SubSeq(s, 1, k)[i] = s[1 + i - 1]
  BY <1>1, <1>2, SubSeqProperties
<1> DEFINE t == SubSeq(s, 1, k)
<1> HIDE DEF t
<1>4. t \in Seq(T) /\ Len(t) = k /\ \A i \in 1 .. k : t[i] = s[i]
  BY <1>2, <1>3 DEF t
<1> QED
  BY <1>4 DEF t

\* More fields have more bytes, the same ones first.
LEMMA StreamPrefix ==
    ASSUME NEW fields \in Seq(Fields), NEW n \in 0 .. Len(fields)
    PROVE  \A m \in n .. Len(fields) :
              /\ Len(Before(fields, n)) <= Len(Before(fields, m))
              /\ n # m => Len(Before(fields, n)) < Len(Before(fields, m))
              /\ \A i \in 1 .. Len(Before(fields, n)) :
                    Before(fields, m)[i] = Before(fields, n)[i]
<1> DEFINE B(m) == Before(fields, m)
           Extends(m) == /\ Len(B(n)) <= Len(B(m))
                         /\ n # m => Len(B(n)) < Len(B(m))
                         /\ \A i \in 1 .. Len(B(n)) : B(m)[i] = B(n)[i]
           S == {m \in Nat : m \in n .. Len(fields) => Extends(m)}
<1>0. Len(fields) \in Nat /\ n \in Nat
  OBVIOUS
<1>1. ASSUME NEW m \in Nat, \A k \in 0 .. m - 1 : k \in S PROVE m \in S
  <2> SUFFICES ASSUME m \in n .. Len(fields) PROVE Extends(m)
    OBVIOUS
  <2>1. CASE m = n
    <3>1. B(n) \in Seq(Nat)
      BY StreamGrows
    <3>2. Len(B(n)) \in Nat
      BY <3>1
    <3> QED
      BY <2>1, <3>2
  <2>2. CASE m # n
    <3> DEFINE k == m - 1
               x == FieldBytes(fields[k + 1])
    <3>1. /\ k \in 0 .. m - 1 /\ k \in n .. Len(fields) /\ k \in 0 .. Len(fields) - 1
          /\ k + 1 = m /\ k \in Nat /\ k + 1 \in 1 .. Len(fields)
      BY <1>0, <2>2
    <3> HIDE DEF k
    <3>2. k \in S
      BY <3>1, <1>1
    <3>3. Extends(k)
      <4> HIDE DEF Extends
      <4> QED
        BY <3>1, <3>2
    <3>4. fields[k + 1] \in Fields
      BY <3>1
    <3>5. x \in Seq(Nat) /\ Len(x) >= 1
      BY <3>4, FieldBytesType
    <3>6. B(n) \in Seq(Nat) /\ B(k) \in Seq(Nat) /\ B(m) = B(k) \o x
      <4>1. k \in 0 .. Len(fields)
        BY <3>1
      <4> QED
        BY <4>1, <3>1, StreamGrows
    <3> HIDE DEF x, B
    <3>7. /\ Len(B(m)) = Len(B(k)) + Len(x)
          /\ \A i \in 1 .. Len(B(k)) + Len(x) :
                B(m)[i] = IF i <= Len(B(k)) THEN B(k)[i] ELSE x[i - Len(B(k))]
      BY <3>5, <3>6, ConcatProperties
    <3>8. PICK p \in Nat, q \in Nat, r \in Nat : p = Len(B(n)) /\ q = Len(B(k)) /\ r = Len(x)
      BY <3>5, <3>6
    <3>9. p <= q /\ r >= 1 /\ Len(B(m)) = q + r
      BY <3>3, <3>5, <3>7, <3>8
    <3>10. p < q + r
      BY <3>9
    <3>11. ASSUME NEW i \in 1 .. p PROVE B(m)[i] = B(n)[i]
      <4>1. i \in 1 .. q + r /\ i <= q
        BY <3>9
      <4>2. B(m)[i] = B(k)[i]
        BY <4>1, <3>7, <3>8
      <4>3. B(k)[i] = B(n)[i]
        BY <3>3, <3>8
      <4> QED
        BY <4>2, <4>3
    <3> QED
      BY <3>8, <3>9, <3>10, <3>11
  <2> QED
    BY <2>1, <2>2
<1> HIDE DEF S
<1>2. \A m \in Nat : m \in S
  BY <1>1, Induction
<1>3. \A m \in n .. Len(fields) : Extends(m)
  <2> HIDE DEF Extends
  <2>1. \A m \in n .. Len(fields) : m \in Nat
    BY <1>0
  <2> QED
    BY <2>1, <1>2 DEF S
<1> QED
  BY <1>3

\* Where the fields before it end, the stream shows a field, or what has arrived of it.
LEMMA FieldArrives ==
    ASSUME NEW fields \in Seq(Fields), NEW k \in 0 .. Len(Stream(fields)), NEW buf,
           buf = SubSeq(Stream(fields), 1, k), NEW n \in 0 .. Len(fields) - 1,
           Len(Before(fields, n)) <= Len(buf)
    PROVE  /\ Shows(buf, Len(Before(fields, n)), FieldBytes(fields[n + 1]))
           /\ Len(Before(fields, n + 1)) =
                 Len(Before(fields, n)) + Len(FieldBytes(fields[n + 1]))
<1> DEFINE b == Before(fields, n)
           c == Before(fields, n + 1)
           s == Stream(fields)
           x == FieldBytes(fields[n + 1])
<1>1. n \in 0 .. Len(fields) /\ n + 1 \in 0 .. Len(fields) /\ n + 1 \in 1 .. Len(fields)
      /\ Len(fields) \in n + 1 .. Len(fields) /\ Len(fields) \in 0 .. Len(fields)
  OBVIOUS
<1>2. x \in Seq(Nat)
  <2>1. fields[n + 1] \in Fields
    BY <1>1
  <2> QED
    BY <2>1, FieldBytesType
<1>3. b \in Seq(Nat) /\ s \in Seq(Nat) /\ c \in Seq(Nat) /\ c = b \o x
  BY <1>1, StreamGrows
<1>4. Len(c) <= Len(s) /\ \A i \in 1 .. Len(c) : s[i] = c[i]
  BY <1>1, StreamGrows, StreamPrefix
<1>5. k \in 0 .. Len(s) /\ buf = SubSeq(s, 1, k) /\ Len(b) <= Len(buf)
  OBVIOUS
<1> HIDE DEF b, c, s, x
<1>6. PICK p \in Nat, q \in Nat, all \in Nat : p = Len(b) /\ q = Len(x) /\ all = Len(s)
  BY <1>2, <1>3
<1>7. k \in Nat /\ k <= all
  BY <1>5, <1>6
<1>8. buf \in Seq(Nat) /\ Len(buf) = k /\ \A i \in 1 .. k : buf[i] = s[i]
  <2>1. /\ SubSeq(s, 1, k) \in Seq(Nat) /\ Len(SubSeq(s, 1, k)) = k
        /\ \A i \in 1 .. k : SubSeq(s, 1, k)[i] = s[i]
    BY <1>3, <1>5, PrefixOf
  <2> QED
    BY <1>5, <2>1, Zenon
<1>9. /\ Len(c) = p + q
      /\ \A i \in 1 .. p + q : c[i] = IF i <= p THEN b[i] ELSE x[i - p]
  BY <1>2, <1>3, <1>6, ConcatProperties
<1>10. ASSUME NEW j \in 1 .. q, p + j <= k PROVE buf[p + j] = x[j]
  <2>1. p + j \in 1 .. k /\ p + j \in 1 .. p + q /\ ~(p + j <= p) /\ p + j - p = j
    BY <1>10
  <2>2. buf[p + j] = s[p + j] /\ s[p + j] = c[p + j]
    BY <2>1, <1>4, <1>8, <1>9
  <2>3. c[p + j] = x[j]
    BY <2>1, <1>9
  <2> QED
    BY <2>2, <2>3
<1>11. p \in 0 .. Len(buf)
  BY <1>5, <1>6, <1>8
<1>12. Shows(buf, p, x)
  BY <1>2, <1>6, <1>8, <1>10, <1>11 DEF Shows
<1> QED
  BY <1>6, <1>9, <1>12 DEF b, c, x

\* The first n fields are read, and one that can not be read whole follows if an
\* error was met.
HasRead(n) ==
    /\ Whole(n)
    /\ found.pos = Len(Stream(SubSeq(sent, 1, n)))
    /\ found.fields = SubSeq(sent, 1, n)
    /\ found.error # "none" =>
          /\ found.pos < Len(stream)
          /\ ~Whole(n + 1)
          /\ found.error = FailsAs(sent[n + 1], Len(stream) - found.pos)

\* Strengthening of FieldsAsWritten, for a loop that has not finished.
ReaderInv ==
    /\ found = [pos |-> found.pos, fields |-> found.fields, error |-> found.error]
    /\ sent = << >> => found.error = "none" /\ found.pos = 0 /\ found.fields = << >>
                       /\ stream = << >>
    /\ sent # << >> =>
          /\ sent \in Written
          /\ \E k \in 0 .. Len(Stream(sent)) : stream = SubSeq(Stream(sent), 1, k)
          /\ \E n \in 0 .. Len(sent) : HasRead(n)

\* One field more is whole if its bytes have arrived and it can be read.
LEMMA WholeNext ==
    ASSUME NEW n \in Nat, Whole(n),
           Len(Before(sent, n)) <= Len(stream)
    PROVE  Whole(n + 1) <=> /\ Len(Before(sent, n + 1)) <= Len(stream)
                            /\ InSchema(sent[n + 1]) /\ ~Overlong(sent[n + 1])
<1> DEFINE Good(i) == InSchema(sent[i]) /\ ~Overlong(sent[i])
<1>1. \A m : Whole(m) <=> /\ Len(Before(sent, m)) <= Len(stream)
                          /\ \A i \in 1 .. m : Good(i)
  BY DEF Whole, Before
<1>2. \A i \in 1 .. n : Good(i)
  BY <1>1
<1> HIDE DEF Good
<1>3. (\A i \in 1 .. n + 1 : Good(i)) <=> Good(n + 1)
  <2>1. \A i \in 1 .. n + 1 : i \in 1 .. n \/ i = n + 1
    OBVIOUS
  <2>2. n + 1 \in 1 .. n + 1
    OBVIOUS
  <2> QED
    BY <2>1, <2>2, <1>2
<1> QED
  BY <1>1, <1>3 DEF Good

\* The stream of what was written.
LEMMA StreamType ==
    ASSUME NEW fields \in Seq(Fields)
    PROVE  /\ Stream(fields) \in Seq(Nat)
           /\ \A n \in 0 .. Len(fields) : Len(Before(fields, n)) \in Nat
           /\ fields = << >> => Stream(fields) = << >>
<1>1. Len(fields) \in 0 .. Len(fields)
  OBVIOUS
<1>2. Stream(fields) \in Seq(Nat)
  BY <1>1, StreamGrows
<1>3. ASSUME NEW n \in 0 .. Len(fields) PROVE Len(Before(fields, n)) \in Nat
  <2>1. Before(fields, n) \in Seq(Nat)
    BY StreamGrows
  <2> QED
    BY <2>1
<1>4. ASSUME fields = << >> PROVE Stream(fields) = << >>
  <2>1. Len(fields) = 0
    BY <1>4
  <2> QED
    BY <2>1, StreamGrows
<1> QED
  BY <1>2, <1>3, <1>4

\* Sending preserves the invariant.
LEMMA SendReaderInv ==
    ASSUME ReaderInv, NEW fields \in Written, NEW k \in 0 .. Len(Stream(fields)),
           Send(fields, k)
    PROVE  ReaderInv'
<1>1. /\ sent = << >> /\ sent' = fields /\ found' = found
      /\ stream' = SubSeq(Stream(fields), 1, k)
  BY DEF Send
<1>2. /\ found = [pos |-> found.pos, fields |-> found.fields, error |-> found.error]
      /\ found.error = "none" /\ found.pos = 0 /\ found.fields = << >>
  BY <1>1 DEF ReaderInv
<1>3. fields \in Seq(Fields) /\ Len(fields) \in Nat
  BY WrittenType
<1>4. Stream(fields) \in Seq(Nat) /\ (fields = << >> => Stream(fields) = << >>)
  BY <1>3, StreamType
<1> DEFINE s == Stream(fields)
<1>5. s \in Seq(Nat) /\ k \in 0 .. Len(s) /\ stream' = SubSeq(s, 1, k)
  BY <1>1, <1>4
<1> HIDE DEF s
<1>6. stream' \in Seq(Nat) /\ Len(stream') = k
  BY <1>5, PrefixOf, Zenon
<1>7. k \in Nat
  <2>1. Len(s) \in Nat
    BY <1>5
  <2> QED
    BY <2>1 DEF s
<1>8. CASE fields = << >>
  <2>1. Len(s) = 0
    BY <1>4, <1>8 DEF s
  <2>2. k = 0
    BY <2>1, <1>5, <1>7
  <2>3. stream' = << >>
    BY <2>2, <1>6
  <2> QED
    BY <2>3, <1>1, <1>2, <1>8 DEF ReaderInv
<1>9. CASE fields # << >>
  <2>1. SubSeq(fields, 1, 0) = << >>
    BY <1>3, SubSeqEmpty
  <2>2. Before(fields, 0) = << >>
    BY <1>3, StreamGrows
  <2>3. Len(Stream(SubSeq(fields, 1, 0))) = 0
    BY <2>2 DEF Before
  <2>4. Whole(0)'
    <3>1. \A i \in 1 .. 0 : FALSE
      OBVIOUS
    <3>2. 0 <= k
      BY <1>7
    <3> QED
      BY <3>1, <3>2, <2>3, <1>1, <1>6 DEF Whole
  <2>5. HasRead(0)'
    BY <2>1, <2>3, <2>4, <1>1, <1>2 DEF HasRead
  <2>6. 0 \in 0 .. Len(fields)
    BY <1>3
  <2> QED
    BY <2>5, <2>6, <1>1, <1>2, <1>9 DEF ReaderInv
<1> QED
  BY <1>8, <1>9

\* Reading preserves the invariant.
LEMMA ReadReaderInv ==
    ASSUME ReaderInv, Read
    PROVE  ReaderInv'
<1>1. /\ found.error = "none" /\ ~(found.pos >= Len(stream))
      /\ sent' = sent /\ stream' = stream
  BY DEF Read, Finished
<1>2. sent # << >>
  BY <1>1 DEF ReaderInv
<1>3. sent \in Written /\ sent \in Seq(Fields) /\ Len(sent) \in Nat
  BY <1>2, WrittenType DEF ReaderInv
<1>4. PICK k \in 0 .. Len(Stream(sent)) : stream = SubSeq(Stream(sent), 1, k)
  BY <1>2 DEF ReaderInv
<1>5. PICK n \in 0 .. Len(sent) : HasRead(n)
  BY <1>2 DEF ReaderInv
<1>6. /\ Whole(n) /\ found.pos = Len(Before(sent, n)) /\ found.fields = SubSeq(sent, 1, n)
      /\ Len(Before(sent, n)) <= Len(stream)
  BY <1>5 DEF HasRead, Whole, Before
<1> DEFINE f == sent[n + 1]
           p == Len(Before(sent, n))
           next == ReadField(stream, found.pos)
<1>7. Stream(sent) \in Seq(Nat) /\ Len(stream) = k /\ p \in Nat /\ k \in Nat
      /\ k <= Len(Stream(sent))
  <2>1. Stream(sent) \in Seq(Nat) /\ p \in Nat
    BY <1>3, StreamType
  <2>2. Len(stream) = k
    BY <1>4, <2>1, PrefixOf
  <2>3. Len(Stream(sent)) \in Nat
    BY <2>1
  <2>4. k \in Nat /\ k <= Len(Stream(sent))
    BY <2>3
  <2> QED
    BY <2>1, <2>2, <2>4
<1>8. n \in 0 .. Len(sent) - 1 /\ n \in Nat /\ n + 1 \in 0 .. Len(sent) /\ n + 1 \in 1 .. Len(sent)
  <2>1. n # Len(sent)
    <3>1. n = Len(sent) => Before(sent, n) = Stream(sent)
      BY <1>3, StreamGrows
    <3>2. p < k
      BY <1>1, <1>6, <1>7
    <3> QED
      BY <3>1, <3>2, <1>7
  <2> QED
    BY <2>1, <1>3
<1>9. f \in Fields /\ IsField(f)
  BY <1>3, <1>8, WrittenType
<1>10. /\ Shows(stream, p, FieldBytes(f))
       /\ Len(Before(sent, n + 1)) = p + Len(FieldBytes(f))
  BY <1>3, <1>4, <1>6, <1>8, FieldArrives
<1>11. next = IF InSchema(f) /\ ~Overlong(f) /\ Len(Before(sent, n + 1)) <= Len(stream)
              THEN At(Len(Before(sent, n + 1)), f)
              ELSE Err(FailsAs(f, Len(stream) - p))
  <2>1. ReadField(stream, p) =
             IF InSchema(f) /\ ~Overlong(f) /\ p + Len(FieldBytes(f)) <= Len(stream)
             THEN At(p + Len(FieldBytes(f)), f)
             ELSE Err(FailsAs(f, Len(stream) - p))
    BY <1>9, <1>10, FieldShown
  <2> QED
    BY <2>1, <1>6, <1>10
<1>12. Whole(n + 1) <=> InSchema(f) /\ ~Overlong(f) /\ Len(Before(sent, n + 1)) <= Len(stream)
  BY <1>6, <1>8, WholeNext
<1>13. found' = IF next.ok
                THEN [found EXCEPT !.pos = next.v.pos, !.fields = Append(@, next.v.c)]
                ELSE [found EXCEPT !.error = next.e]
  BY DEF Read
<1>14. found = [pos |-> found.pos, fields |-> found.fields, error |-> found.error]
  BY DEF ReaderInv
<1> HIDE DEF f, p, next
<1>15. \A m : Whole(m)' <=> Whole(m)
  BY <1>1 DEF Whole
<1>16. CASE Whole(n + 1)
  <2>1. next = At(Len(Before(sent, n + 1)), f)
    BY <1>11, <1>12, <1>16
  <2>2. next.ok /\ next.v.c = f /\ next.v.pos = Len(Before(sent, n + 1))
    BY <2>1, Results
  <2>3. found' = [found EXCEPT !.pos = Len(Before(sent, n + 1)), !.fields = Append(@, f)]
    BY <2>2, <1>13
  <2>4. /\ found' = [pos |-> found'.pos, fields |-> found'.fields, error |-> found'.error]
        /\ found'.pos = Len(Before(sent, n + 1))
        /\ found'.fields = Append(SubSeq(sent, 1, n), f)
        /\ found'.error = "none"
    BY <2>3, <1>1, <1>6, <1>14
  <2>5. Append(SubSeq(sent, 1, n), f) = SubSeq(sent, 1, n + 1)
    <3> DEFINE s == SubSeq(sent, 1, n)
               t == SubSeq(sent, 1, n + 1)
               a == Append(s, f)
    <3>1. s \in Seq(Fields) /\ Len(s) = n /\ \A i \in 1 .. n : s[i] = sent[i]
      BY <1>3, PrefixOf
    <3>2. /\ t \in Seq(Fields) /\ Len(t) = n + 1
          /\ \A i \in 1 .. n + 1 : t[i] = sent[i]
      BY <1>3, <1>8, PrefixOf
    <3> HIDE DEF s, t
    <3>3. /\ a \in Seq(Fields) /\ Len(a) = n + 1 /\ a[n + 1] = f
          /\ \A i \in 1 .. n : a[i] = s[i]
      BY <3>1, <1>9, AppendProperties
    <3> HIDE DEF a
    <3>4. \A i \in 1 .. n + 1 : a[i] = t[i]
      <4>1. \A i \in 1 .. n + 1 : i \in 1 .. n \/ i = n + 1
        BY <1>8
      <4>2. \A i \in 1 .. n : a[i] = t[i]
        <5>1. \A i \in 1 .. n : i \in 1 .. n + 1
          BY <1>8
        <5> QED
          BY <5>1, <3>1, <3>2, <3>3
      <4>3. a[n + 1] = t[n + 1]
        <5>1. n + 1 \in 1 .. n + 1
          BY <1>8
        <5> QED
          BY <5>1, <3>2, <3>3 DEF f
      <4> QED
        BY <4>1, <4>2, <4>3
    <3>5. a = t
      BY <3>2, <3>3, <3>4, SeqEqual
    <3> QED
      BY <3>5 DEF a, s, t
  <2>6. HasRead(n + 1)'
    BY <2>4, <2>5, <1>1, <1>15, <1>16 DEF HasRead, Before
  <2>7. \E m \in 0 .. Len(sent) : HasRead(m)'
    BY <2>6, <1>8
  <2> QED
    BY <2>4, <2>7, <1>1, <1>2, <1>3, <1>4 DEF ReaderInv
<1>17. CASE ~Whole(n + 1)
  <2> DEFINE error == FailsAs(f, Len(stream) - p)
  <2>1. next = Err(error)
    BY <1>11, <1>12, <1>17
  <2>2. ~next.ok /\ next.e = error
    BY <2>1, Results
  <2>3. found' = [found EXCEPT !.error = error]
    BY <2>2, <1>13
  <2> HIDE DEF error
  <2>4. /\ found' = [pos |-> found'.pos, fields |-> found'.fields, error |-> found'.error]
        /\ found'.pos = p
        /\ found'.fields = SubSeq(sent, 1, n)
        /\ found'.error = error
    BY <2>3, <1>6, <1>14 DEF p
  <2>5. p < Len(stream)
    BY <1>1, <1>6, <1>7 DEF p
  <2>6. HasRead(n)'
    BY <2>4, <2>5, <1>1, <1>6, <1>15, <1>17 DEF HasRead, Before, error, p, f
  <2>7. \E m \in 0 .. Len(sent) : HasRead(m)'
    BY <2>6
  <2> QED
    BY <2>4, <2>7, <1>1, <1>2, <1>3, <1>4 DEF ReaderInv
<1> QED
  BY <1>16, <1>17

\* What the invariant says of a loop that has finished.
LEMMA FinishedIsWritten ==
    ASSUME ReaderInv
    PROVE  FieldsAsWritten
<1> SUFFICES ASSUME sent # << >>, Finished PROVE FieldsAsWritten
  BY DEF FieldsAsWritten
<1>1. sent \in Written /\ sent \in Seq(Fields) /\ Len(sent) \in Nat
  BY WrittenType DEF ReaderInv
<1>2. PICK k \in 0 .. Len(Stream(sent)) : stream = SubSeq(Stream(sent), 1, k)
  BY DEF ReaderInv
<1>3. PICK n \in 0 .. Len(sent) : HasRead(n)
  BY DEF ReaderInv
<1> DEFINE p == Len(Before(sent, n))
           all == Len(stream)
<1>4. /\ Whole(n) /\ found.pos = p /\ found.fields = SubSeq(sent, 1, n) /\ p <= all
      /\ found.error # "none" =>
            p < all /\ ~Whole(n + 1) /\ found.error = FailsAs(sent[n + 1], all - p)
  BY <1>3 DEF HasRead, Whole, Before
<1>5. Stream(sent) \in Seq(Nat) /\ stream \in Seq(Nat) /\ p \in Nat /\ all \in Nat
  <2>1. Stream(sent) \in Seq(Nat) /\ p \in Nat
    BY <1>1, StreamType
  <2>2. stream \in Seq(Nat)
    BY <1>2, <2>1, PrefixOf
  <2> QED
    BY <2>1, <2>2
<1>6. found.error = "none" => p = all
  <2>1. found.error = "none" => p >= all
    BY <1>4 DEF Finished
  <2> HIDE DEF p, all
  <2> QED
    BY <2>1, <1>4, <1>5
<1>7. \A m \in n + 1 .. Len(sent) : ~Whole(m)
  <2> SUFFICES ASSUME NEW m \in n + 1 .. Len(sent), Whole(m) PROVE FALSE
    OBVIOUS
  <2>1. /\ n \in 0 .. Len(sent) /\ n + 1 \in 0 .. Len(sent) /\ m \in 0 .. Len(sent)
        /\ m \in n .. Len(sent) /\ m \in n + 1 .. Len(sent) /\ n # m /\ n \in Nat
        /\ \A i \in 1 .. n + 1 : i \in 1 .. m
    BY <1>1
  <2>2. Len(Before(sent, m)) <= all
    BY DEF Whole, Before
  <2>3. Len(Before(sent, n)) < Len(Before(sent, m)) /\ Len(Before(sent, m)) \in Nat
    BY <2>1, <1>1, StreamPrefix, StreamType
  <2>4. CASE found.error = "none"
    <3> DEFINE q == Len(Before(sent, m))
    <3>1. q <= all /\ p < q /\ q \in Nat /\ p = all
      BY <2>2, <2>3, <2>4, <1>6
    <3> HIDE DEF p, q, all
    <3> QED
      BY <3>1, <1>5
  <2>5. CASE found.error # "none"
    <3> DEFINE q == Len(Before(sent, m))
               r == Len(Before(sent, n + 1))
    <3>1. r <= q /\ r \in Nat /\ q \in Nat /\ q <= all
      BY <2>1, <2>2, <2>3, <1>1, StreamPrefix, StreamType
    <3>2. \A i \in 1 .. n + 1 : InSchema(sent[i]) /\ ~Overlong(sent[i])
      BY <2>1 DEF Whole
    <3>3. r <= all
      <4> HIDE DEF q, r, all
      <4> QED
        BY <3>1, <1>5
    <3>4. Whole(n + 1)
      BY <3>2, <3>3 DEF Whole, Before
    <3> QED
      BY <3>4, <2>5, <1>4
  <2> QED
    BY <2>4, <2>5
<1>8. Max({m \in 0 .. Len(sent) : Whole(m)}) = n
  <2> DEFINE T == {m \in 0 .. Len(sent) : Whole(m)}
  <2>1. T \in SUBSET Int /\ n \in T
    BY <1>1, <1>4
  <2>2. \A y \in T : y <= n
    <3>1. \A y \in 0 .. Len(sent) : y <= n \/ y \in n + 1 .. Len(sent)
      BY <1>1
    <3> QED
      BY <3>1, <1>7
  <2> HIDE DEF T
  <2>3. Max(T) = n
    BY <2>1, <2>2, MinMax
  <2> QED
    BY <2>3 DEF T
<1>9. Arrived = SubSeq(sent, 1, n) /\ Len(Arrived) = n /\ Stream(Arrived) = Before(sent, n)
  <2>1. Arrived = SubSeq(sent, 1, n)
    BY <1>8 DEF Arrived
  <2>2. Len(SubSeq(sent, 1, n)) = n
    BY <1>1, PrefixOf
  <2> QED
    BY <2>1, <2>2 DEF Before
<1> DEFINE rest == SubSeq(stream, Len(Stream(Arrived)) + 1, Len(stream))
           next == sent[Len(Arrived) + 1]
<1>10. rest \in Seq(Nat) /\ Len(rest) = all - p
  <2>1. rest = SubSeq(stream, p + 1, all)
    BY <1>9
  <2>2. \A i \in p + 1 .. all : stream[i] \in Nat
    <3>1. \A i \in p + 1 .. all : i \in 1 .. Len(stream)
      BY <1>5
    <3>2. \A i \in 1 .. Len(stream) : stream[i] \in Nat
      <4>1. stream \in Seq(Nat)
        BY <1>5
      <4> QED
        BY <4>1
    <3> QED
      BY <3>1, <3>2, Zenon
  <2>3. /\ SubSeq(stream, p + 1, all) \in Seq(Nat)
        /\ Len(SubSeq(stream, p + 1, all)) = IF p + 1 <= all THEN all - (p + 1) + 1 ELSE 0
    <3>1. p + 1 \in Int /\ all \in Int
      BY <1>5
    <3> HIDE DEF p, all
    <3> QED
      BY <3>1, <2>2, SubSeqProperties
  <2>4. (IF p + 1 <= all THEN all - (p + 1) + 1 ELSE 0) = all - p
    <3> HIDE DEF p, all
    <3> QED
      BY <1>4, <1>5
  <2> QED
    BY <2>1, <2>3, <2>4
<1>11. next = sent[n + 1]
  BY <1>9
<1>12. rest = << >> <=> p = all
  <2> HIDE DEF rest, p, all
  <2>1. rest = << >> <=> Len(rest) = 0
    <3>1. rest \in Seq(Nat)
      BY <1>10
    <3> QED
      BY <3>1
  <2>2. all - p = 0 <=> p = all
    BY <1>5
  <2> QED
    BY <2>1, <2>2, <1>10
<1> DEFINE error ==
             CASE rest = << >> -> "none"
               [] rest # << >> /\ ~InSchema(next) /\ Len(rest) >= Len(Tag(next)) ->
                     "InvalidWireType"
               [] rest # << >> /\ InSchema(next) /\ Overlong(next)
                     /\ ~Bits64(Len(rest) - Len(Tag(next))) ->
                     "VarintOverflow"
               [] OTHER -> "Truncated"
<1>13. found.error = error
  <2>1. CASE found.error = "none"
    <3>1. rest = << >>
      BY <2>1, <1>6, <1>12
    <3> HIDE DEF rest
    <3> QED
      BY <3>1, <2>1
  <2>2. CASE found.error # "none"
    <3> DEFINE size == Len(rest)
               tag == Len(Tag(next))
    <3>1. p < all /\ n + 1 \in 1 .. Len(sent)
      <4>1. n # Len(sent)
        <5>1. n = Len(sent) => Before(sent, n) = Stream(sent)
          BY <1>1, StreamGrows
        <5>2. Len(stream) = k
          BY <1>2, <1>5, PrefixOf
        <5>3. Len(Stream(sent)) \in Nat /\ k <= Len(Stream(sent))
          BY <1>5
        <5>4. p < all
          BY <2>2, <1>4
        <5> QED
          BY <5>1, <5>2, <5>3, <5>4
      <4> QED
        BY <4>1, <2>2, <1>1, <1>4
    <3>2. rest # << >>
      BY <3>1, <1>5, <1>12
    <3>3. next \in Fields
      BY <3>1, <1>1, <1>11
    <3>4. tag \in Nat /\ size \in Nat
      <4>1. Tag(next) \in Seq(Nat)
        BY <3>3, FieldBytesType
      <4> QED
        BY <4>1, <1>10
    <3>5. found.error = FailsAs(next, size)
      BY <2>2, <1>4, <1>10, <1>11
    <3>6. FailsAs(next, size) =
            IF ~InSchema(next) /\ tag <= size
            THEN "InvalidWireType"
            ELSE IF InSchema(next) /\ Overlong(next) /\ ~Bits64(size - tag)
                 THEN "VarintOverflow"
                 ELSE "Truncated"
      BY DEF FailsAs
    <3>7. tag <= size <=> size >= tag
      <4> HIDE DEF tag, size
      <4> QED
        BY <3>4
    <3> HIDE DEF rest, next
    <3> QED
      BY <3>2, <3>5, <3>6, <3>7
  <2> QED
    BY <2>1, <2>2
<1> QED
  BY <1>4, <1>9, <1>13 DEF FieldsAsWritten

\* Strengthening, kept by every step.
LEMMA ReaderInvHolds == ReaderSpec => []ReaderInv
<1>1. ReaderInit => ReaderInv
  BY DEF ReaderInit, ReaderInv
<1>2. ReaderInv /\ [ReaderNext]_readerVars => ReaderInv'
  <2> SUFFICES ASSUME ReaderInv, [ReaderNext]_readerVars PROVE ReaderInv'
    OBVIOUS
  <2>1. ASSUME NEW fields \in Written, NEW k \in 0 .. Len(Stream(fields)), Send(fields, k)
        PROVE  ReaderInv'
    BY <2>1, SendReaderInv
  <2>2. CASE Read
    BY <2>2, ReadReaderInv
  <2>3. CASE UNCHANGED readerVars
    BY <2>3 DEF readerVars, ReaderInv, HasRead, Whole
  <2> QED
    BY <2>1, <2>2, <2>3 DEF ReaderNext
<1> QED
  BY <1>1, <1>2, PTL DEF ReaderSpec

\* Whatever an encoder may write, of which schema and cut where it may: the reader
\* finds the fields up to the cut as they were written, and ends with the error that
\* is right for the next one (Reader, Writer).
THEOREM FieldsAsWrittenHolds == ReaderSpec => []FieldsAsWritten
  BY ReaderInvHolds, FinishedIsWritten, PTL

(***************************************************************************)
(* Arrays.                                                                 *)
(***************************************************************************)

\* Quotient and remainder are unique.
LEMMA DivUnique ==
    ASSUME NEW b \in Nat \ {0}, NEW q \in Int, NEW r \in 0 .. b - 1
    PROVE  (b * q + r) \div b = q /\ (b * q + r) % b = r
<1> DEFINE a == b * q + r
           p == a \div b
           s == a % b
<1>1. a \in Int /\ p \in Int /\ s \in 0 .. b - 1 /\ a = b * p + s
  OBVIOUS
<1>2. a = b * q + r
  OBVIOUS
<1> HIDE DEF a, p, s
<1>3. b * (p - q) = r - s
  BY <1>1, <1>2
<1>4. ~(p - q >= 1)
  <2>1. p - q >= 1 => b * (p - q) >= b
    BY <1>1
  <2> QED
    BY <2>1, <1>1, <1>3
<1>5. ~(q - p >= 1)
  <2>1. q - p >= 1 => b * (q - p) >= b
    BY <1>1
  <2>2. b * (q - p) = s - r
    BY <1>1, <1>3
  <2> QED
    BY <2>1, <2>2, <1>1
<1>6. p = q
  BY <1>1, <1>4, <1>5
<1>7. s = r
  BY <1>1, <1>2, <1>6
<1> QED
  BY <1>6, <1>7 DEF a, p, s

\* Dividing twice is dividing by the product.
LEMMA DivTwice ==
    ASSUME NEW a \in Nat, NEW b \in Nat \ {0}, NEW c \in Nat \ {0}
    PROVE  /\ a \div b \in Nat
           /\ (a \div b) \div c = a \div (b * c)
<1> DEFINE q == a \div b
           r == a % b
           p == q \div c
           s == q % c
<1>1. q \in Nat /\ r \in 0 .. b - 1 /\ a = b * q + r
  OBVIOUS
<1> HIDE DEF q, r
<1>2. p \in Nat /\ s \in 0 .. c - 1 /\ q = c * p + s
  BY <1>1
<1> HIDE DEF p, s
<1> DEFINE m == b * c
           t == b * s + r
<1>3. m \in Nat \ {0} /\ t \in Nat
  BY <1>1, <1>2
<1>4. t <= m - 1
  <2>1. b * s <= b * (c - 1)
    BY <1>2
  <2>2. b * (c - 1) = m - b
    OBVIOUS
  <2> QED
    BY <2>1, <2>2, <1>1, <1>2
<1>5. a = m * p + t
  <2>1. a = b * (c * p + s) + r
    BY <1>1, <1>2
  <2>2. b * (c * p + s) = m * p + b * s
    BY <1>2
  <2> QED
    BY <2>1, <2>2, <1>1, <1>2
<1> HIDE DEF m, t
<1>6. a \div m = p
  BY <1>2, <1>3, <1>4, <1>5, DivUnique
<1> QED
  BY <1>1, <1>6 DEF q, p, m

\* Division with a remainder.
LEMMA DivRest ==
    ASSUME NEW a \in Nat, NEW b \in Nat \ {0}
    PROVE  a \div b \in Nat /\ a % b \in 0 .. b - 1 /\ a = b * (a \div b) + (a % b)
OBVIOUS

\* The ranges of the widths.
LEMMA RangeType == \A n \in Nat : Range2(n) \in Nat \ {0}
<1>1. \A n \in Nat : n * ByteBits \in Nat
  BY ReaderAssumption
<1> QED
  BY <1>1, Power2Type DEF Range2

\* The range of no byte, and of one.
LEMMA RangeBase == Range2(0) = 1 /\ Range2(1) \in Nat /\ Range2(1) >= 2
<1>1. ByteBits \in Nat /\ ByteBits >= 1 /\ 0 * ByteBits = 0 /\ 1 * ByteBits = ByteBits
  BY ReaderAssumption
<1>2. Power2(1) = 2 /\ Power2(0) = 1
  BY Power2Equation
<1>3. Power2(1) <= Power2(ByteBits) /\ Power2(ByteBits) \in Nat
  BY <1>1, Power2Grows, Power2Type
<1> QED
  BY <1>1, <1>2, <1>3 DEF Range2

\* The range of a width more.
LEMMA RangeSum ==
    ASSUME NEW m \in Nat, NEW n \in Nat
    PROVE  Range2(m + n) = Range2(m) * Range2(n)
<1>1. ByteBits \in Nat
  BY ReaderAssumption
<1>2. m * ByteBits \in Nat /\ n * ByteBits \in Nat
      /\ (m + n) * ByteBits = m * ByteBits + n * ByteBits
  BY <1>1
<1> QED
  BY <1>2, Power2Sum DEF Range2

\* The equation of FromBytes.
LEMMA FromBytesEquation ==
    ASSUME NEW c \in Seq(Nat)
    PROVE  FromBytes(c) = IF c = << >> THEN 0
                          ELSE Head(c) + Range2(1) * FromBytes(Tail(c))
<1> DEFINE Eq(p) == p = [s \in Seq(Nat) |->
                           IF s = << >> THEN 0 ELSE Head(s) + Range2(1) * p[Tail(s)]]
           down == [s \in Seq(Nat) |-> IF s = << >> THEN << >> ELSE Tail(s)]
           rank == [s \in Seq(Nat) |-> Len(s)]
           base == [s \in Seq(Nat) |-> 0]
           step == [x \in Seq(Nat) \X Nat |->
                      IF x[1] = << >> THEN 0 ELSE Head(x[1]) + Range2(1) * x[2]]
           Stop == {s \in Seq(Nat) : s = << >>}
<1>0. \A s \in Seq(Nat) : s # << >> =>
         Head(s) \in Nat /\ Tail(s) \in Seq(Nat) /\ Len(Tail(s)) = Len(s) - 1
  BY HeadTailProperties
<1>1. Descends(Seq(Nat), Nat, rank, Stop, base, down, step)
  <2>1. rank \in [Seq(Nat) -> Nat] /\ Stop \in SUBSET Seq(Nat) /\ base \in [Seq(Nat) -> Nat]
    OBVIOUS
  <2>2. down \in [Seq(Nat) -> Seq(Nat)]
    BY <1>0
  <2>3. \A s \in Seq(Nat) \ Stop : rank[down[s]] < rank[s]
    BY <1>0, <2>2
  <2>4. step \in [Seq(Nat) \X Nat -> Nat]
    <3>1. ASSUME NEW s \in Seq(Nat), NEW n \in Nat, s # << >>
          PROVE  Head(s) + Range2(1) * n \in Nat
      <4>1. Head(s) \in Nat /\ Range2(1) \in Nat
        BY <3>1, <1>0, RangeBase
      <4>2. \A h, b \in Nat : h + b * n \in Nat
        OBVIOUS
      <4> QED
        BY <4>1, <4>2
    <3>2. \A x \in Seq(Nat) \X Nat : \E s \in Seq(Nat), n \in Nat : x = <<s, n>>
      OBVIOUS
    <3>3. \A x \in Seq(Nat) \X Nat :
             x[1] # << >> => Head(x[1]) + Range2(1) * x[2] \in Nat
      BY <3>1, <3>2
    <3> QED
      BY <3>3
  <2> QED
    BY <2>1, <2>2, <2>3, <2>4 DEF Descends
<1>2. \A s \in Seq(Nat) :
         base[s] = 0 /\ (s # << >> => down[s] = Tail(s)) /\ (s \in Stop <=> s = << >>)
  OBVIOUS
<1>3. \A s \in Seq(Nat), n \in Nat : s # << >> =>
         step[<<s, n>>] = Head(s) + Range2(1) * n
  OBVIOUS
<1> HIDE DEF rank, down, base, step, Stop
<1>4. PICK w \in [Seq(Nat) -> Nat] : Solves(w, Seq(Nat), Stop, base, down, step)
  BY <1>1, Recursion
<1>5. ASSUME NEW s \in Seq(Nat)
      PROVE  w[s] = IF s = << >> THEN 0 ELSE Head(s) + Range2(1) * w[Tail(s)]
  <2>1. CASE s = << >>
    BY <2>1, <1>2, <1>4 DEF Solves
  <2>2. CASE s # << >>
    <3>1. w[Tail(s)] \in Nat /\ w[s] = step[<<s, w[Tail(s)]>>]
      BY <2>2, <1>0, <1>2, <1>4 DEF Solves
    <3> QED
      BY <3>1, <2>2, <1>3
  <2> QED
    BY <2>1, <2>2
<1>6. Eq(w)
  BY <1>5
<1> HIDE DEF Eq
<1>7. Eq(CHOOSE p : Eq(p))
  BY <1>6
<1> USE DEF Eq
<1>8. FromBytes(c) = (CHOOSE p : Eq(p))[c]
  BY DEF FromBytes
<1>9. FromBytes(Tail(c)) = (CHOOSE p : Eq(p))[Tail(c)]
  BY DEF FromBytes
<1> QED
  BY <1>7, <1>8, <1>9

\* The bytes of a number that fits in them.
LEMMA BytesBack ==
    ASSUME NEW w \in Nat, NEW u \in Nat, u < Range2(w)
    PROVE  /\ Bytes(u, w) \in Seq(Nat)
           /\ Len(Bytes(u, w)) = w
           /\ FromBytes(Bytes(u, w)) = u
<1>1. ASSUME NEW n \in Nat, NEW a \in Nat
      PROVE  /\ Bytes(a, n) \in Seq(Nat)
             /\ Len(Bytes(a, n)) = n
             /\ \A i \in 1 .. n : Bytes(a, n)[i] = (a \div Range2(i - 1)) % Range2(1)
  <2>1. \A i \in 1 .. n : (a \div Range2(i - 1)) % Range2(1) \in Nat
    <3> SUFFICES ASSUME NEW i \in 1 .. n PROVE (a \div Range2(i - 1)) % Range2(1) \in Nat
      OBVIOUS
    <3>1. i - 1 \in Nat /\ Range2(i - 1) \in Nat \ {0} /\ Range2(1) \in Nat \ {0}
      BY RangeType
    <3>2. a \div Range2(i - 1) \in Nat
      BY <3>1, DivRest
    <3>3. \A x \in Nat, y \in Nat \ {0} : x % y \in Nat
      OBVIOUS
    <3> QED
      BY <3>1, <3>2, <3>3
  <2> QED
    BY <2>1 DEF Bytes
<1> DEFINE S == {n \in Nat : \A a \in Nat : a < Range2(n) => FromBytes(Bytes(a, n)) = a}
<1>2. ASSUME NEW n \in Nat, \A k \in 0 .. n - 1 : k \in S PROVE n \in S
  <2> SUFFICES ASSUME NEW a \in Nat, a < Range2(n) PROVE FromBytes(Bytes(a, n)) = a
    OBVIOUS
  <2> DEFINE c == Bytes(a, n)
             base == Range2(1)
  <2>0. c \in Seq(Nat) /\ Len(c) = n
        /\ \A i \in 1 .. n : c[i] = (a \div Range2(i - 1)) % base
    BY <1>1
  <2>1. CASE n = 0
    <3>1. c = << >> /\ a = 0
      <4>1. c = << >>
        BY <2>0, <2>1
      <4> QED
        BY <4>1, <2>1, RangeBase
    <3> QED
      BY <2>0, <3>1, FromBytesEquation
  <2>2. CASE n # 0
    <3> DEFINE q == a \div base
               d == Bytes(q, n - 1)
    <3>1. n - 1 \in Nat /\ 1 \in Nat /\ base \in Nat \ {0} /\ Range2(n - 1) \in Nat \ {0}
          /\ Range2(n) = base * Range2(n - 1) /\ Range2(0) = 1
      <4>1. n - 1 \in Nat /\ 1 \in Nat /\ 1 + (n - 1) = n
        BY <2>2
      <4>2. Range2(1 + (n - 1)) = Range2(1) * Range2(n - 1)
        BY <4>1, RangeSum
      <4> QED
        BY <4>1, <4>2, RangeType, RangeBase
    <3>2. q \in Nat /\ a = base * q + (a % base) /\ a % base \in 0 .. base - 1
      BY <3>1, DivRest
    <3>3. q < Range2(n - 1)
      <4> DEFINE rr == Range2(n - 1)
                 bb == base
                 rest == a % base
      <4>1. /\ bb \in Nat \ {0} /\ q \in Nat /\ rr \in Nat /\ rest \in Nat
            /\ a = bb * q + rest /\ a < bb * rr
        BY <3>1, <3>2
      <4> HIDE DEF rr, bb, rest, q
      <4>2. q >= rr => bb * q >= bb * rr
        BY <4>1
      <4>3. bb * q \in Nat /\ bb * rr \in Nat
        BY <4>1
      <4>4. q < rr
        BY <4>1, <4>2, <4>3
      <4> QED
        BY <4>4 DEF rr
    <3>4. /\ d \in Seq(Nat) /\ Len(d) = n - 1
          /\ \A i \in 1 .. n - 1 : d[i] = (q \div Range2(i - 1)) % base
      BY <1>1, <3>1, <3>2
    <3>5. c # << >> /\ Head(c) \in Nat /\ Tail(c) \in Seq(Nat) /\ Len(Tail(c)) = n - 1
          /\ \A i \in 1 .. n - 1 : Tail(c)[i] = c[i + 1]
      BY <2>0, <2>2, HeadTailProperties
    <3>6. Head(c) = a % base
      <4>1. Head(c) = c[1] /\ 1 - 1 = 0 /\ 1 \in 1 .. n
        BY <2>0, <2>2, <3>5
      <4>2. a \div 1 = a
        OBVIOUS
      <4> QED
        BY <4>1, <4>2, <2>0, <3>1
    <3>7. \A i \in 1 .. n - 1 : Tail(c)[i] = d[i]
      <4> SUFFICES ASSUME NEW i \in 1 .. n - 1 PROVE Tail(c)[i] = d[i]
        OBVIOUS
      <4>1. i - 1 \in Nat /\ i + 1 \in 1 .. n /\ (i + 1) - 1 = 1 + (i - 1)
        BY <3>1
      <4>2. Range2(1 + (i - 1)) = base * Range2(i - 1) /\ Range2(i - 1) \in Nat \ {0}
        BY <4>1, RangeType, RangeSum
      <4>3. q \div Range2(i - 1) = a \div Range2(1 + (i - 1))
        <5>1. \A x \in Nat, y, z \in Nat \ {0} : (x \div y) \div z = x \div (y * z)
          BY DivTwice
        <5> QED
          BY <5>1, <4>2, <3>1
      <4>4. c[i + 1] = (a \div Range2(1 + (i - 1))) % base
        BY <4>1, <2>0
      <4> QED
        BY <4>3, <4>4, <3>4, <3>5
    <3>8. Tail(c) = d
      BY <3>4, <3>5, <3>7, SeqEqual
    <3>9. FromBytes(d) = q
      <4>1. n - 1 \in S
        BY <2>2, <1>2
      <4> QED
        BY <4>1, <3>2, <3>3
    <3>10. FromBytes(c) = Head(c) + base * FromBytes(Tail(c))
      BY <2>0, <3>5, FromBytesEquation
    <3> HIDE DEF c, d, q, base
    <3>11. FromBytes(c) = (a % base) + base * q
      BY <3>6, <3>8, <3>9, <3>10
    <3>12. FromBytes(c) = a
      BY <3>1, <3>2, <3>11
    <3> QED
      BY <3>12 DEF c
  <2> QED
    BY <2>1, <2>2
<1> HIDE DEF S
<1>3. \A n \in Nat : n \in S
  BY <1>2, Induction
<1> QED
  BY <1>1, <1>3 DEF S

\* The numbers of a type: two's complement, or all bit patterns.
Numbers(type) ==
    LET range == Range2(WidthOf(type)) IN
    {v \in Int : IF type \in SignedTypes
                 THEN -range <= 2 * v /\ 2 * v < range
                 ELSE 0 <= v /\ v < range}

\* A bit pattern is the number it was made of.
LEMMA NarrowBack ==
    ASSUME NEW type, NEW v \in Numbers(type)
    PROVE  LET w == WidthOf(type) IN
           /\ AsUnsigned(v, w) \in Nat
           /\ AsUnsigned(v, w) < Range2(w)
           /\ Narrow(type, AsUnsigned(v, w)) = v
<1> DEFINE w == WidthOf(type)
           range == Range2(w)
           u == AsUnsigned(v, w)
<1>1. w \in Nat
  BY DEF WidthOf
<1>2. range \in Nat \ {0}
  BY <1>1, RangeType
<1>3. v \in Int /\ (type \in SignedTypes => -range <= 2 * v /\ 2 * v < range)
      /\ (type \notin SignedTypes => 0 <= v /\ v < range)
  BY DEF Numbers
<1>4. u = v % range /\ AsUnsigned(u, w) = u % range
      /\ AsSigned(u, w) = IF 2 * (u % range) >= range THEN (u % range) - range ELSE u % range
  BY DEF AsUnsigned, AsSigned
<1>5. Narrow(type, u) = IF type \in SignedTypes THEN AsSigned(u, w) ELSE AsUnsigned(u, w)
  BY DEF Narrow
<1> HIDE DEF range, u, w
<1>6. CASE v >= 0
  <2>1. v < range /\ v \in 0 .. range - 1
    BY <1>2, <1>3, <1>6
  <2>2. range * 0 + v = v
    BY <1>2, <1>3
  <2>3. \A r \in 0 .. range - 1 : (range * 0 + r) % range = r
    BY <1>2, DivUnique
  <2>4. v % range = v
    BY <2>1, <2>2, <2>3
  <2> QED
    BY <2>1, <2>4, <1>2, <1>3, <1>4, <1>5, <1>6 DEF range, u, w
<1>7. CASE v < 0
  <2> DEFINE r == v + range
  <2>1. type \in SignedTypes /\ r \in 0 .. range - 1 /\ 2 * r >= range
    BY <1>2, <1>3, <1>7
  <2>2. range * (-1) + r = v /\ range * 0 + r = r
    BY <1>2, <1>3
  <2>3. (range * (-1) + r) % range = r /\ (range * 0 + r) % range = r
    <3>1. \A q \in Int : (range * q + r) % range = r
      BY <1>2, <2>1, DivUnique
    <3>2. -1 \in Int /\ 0 \in Int
      OBVIOUS
    <3> QED
      BY <3>1, <3>2
  <2>4. v % range = r /\ r % range = r
    BY <2>2, <2>3
  <2>5. r - range = v
    BY <1>2, <1>3
  <2> HIDE DEF r
  <2>6. u = r /\ Narrow(type, u) = r - range
    BY <2>1, <2>4, <1>4, <1>5
  <2>7. u \in Nat /\ u < range /\ Narrow(type, u) = v
    BY <1>2, <2>1, <2>5, <2>6
  <2> QED
    BY <2>7 DEF range, u, w
<1> QED
  BY <1>3, <1>6, <1>7

\* Pieces of the same length are found again at its multiples.
LEMMA FlattenPieces ==
    ASSUME NEW ss \in Seq(Seq(Nat)), NEW w \in Nat,
           \A i \in 1 .. Len(ss) : Len(ss[i]) = w
    PROVE  /\ Len(FlattenSeq(ss)) = w * Len(ss)
           /\ \A i \in 1 .. Len(ss) :
                 SubSeq(FlattenSeq(ss), (i - 1) * w + 1, i * w) = ss[i]
<1> DEFINE L == Len(ss)
<1>0. L \in Nat /\ \A i \in 1 .. L : ss[i] \in Seq(Nat) /\ Len(ss[i]) = w
  OBVIOUS
<1>1. CASE ss = << >>
  <2>1. FlattenSeq(ss) = << >>
    BY <1>1, FlattenType
  <2>2. Len(<< >>) = 0 /\ w * 0 = 0 /\ L = 0
    BY <1>1
  <2> QED
    BY <2>1, <2>2
<1>2. CASE ss # << >>
  <2>1. PICK f : Joins(f, ss) /\ FlattenSeq(ss) = f[L]
    BY <1>2, FlattenEquation
  <2>2. \A n \in 1 .. L : f[n] \in Seq(Nat)
                          /\ f[n] = IF n = 1 THEN ss[n] ELSE f[n - 1] \o ss[n]
    BY <2>1 DEF Joins
  <2> DEFINE Pieces(n) ==
               /\ Len(f[n]) = w * n
               /\ \A i \in 1 .. n : \A j \in 1 .. w : f[n][w * (i - 1) + j] = ss[i][j]
             S == {n \in Nat : n \in 1 .. L => Pieces(n)}
  <2>3. ASSUME NEW n \in Nat, \A k \in 0 .. n - 1 : k \in S PROVE n \in S
    <3> SUFFICES ASSUME n \in 1 .. L PROVE Pieces(n)
      OBVIOUS
    <3>1. CASE n = 1
      <4>1. f[n] = ss[n] /\ Len(f[n]) = w
        BY <3>1, <2>2, <1>0
      <4>2. w * 1 = w /\ \A j \in 1 .. w : w * (1 - 1) + j = j
        OBVIOUS
      <4>3. \A i \in 1 .. n : i = 1
        BY <3>1
      <4> QED
        BY <3>1, <4>1, <4>2, <4>3
    <3>2. CASE n # 1
      <4> DEFINE m == n - 1
                 c == f[m]
                 d == ss[n]
      <4>1. m \in 1 .. L /\ m \in 0 .. n - 1 /\ m \in Nat /\ n = m + 1
        BY <3>2, <1>0
      <4>2. m \in S
        BY <4>1, <2>3
      <4>3. Pieces(m)
        BY <4>1, <4>2
      <4>4. c \in Seq(Nat) /\ d \in Seq(Nat) /\ Len(d) = w /\ f[n] = c \o d
        BY <4>1, <3>2, <2>2, <1>0
      <4>5. Len(c) = w * m
            /\ \A i \in 1 .. m : \A j \in 1 .. w : c[w * (i - 1) + j] = ss[i][j]
        BY <4>3
      <4>6. /\ Len(f[n]) = Len(c) + Len(d)
            /\ \A i \in 1 .. Len(c) + Len(d) :
                  f[n][i] = IF i <= Len(c) THEN c[i] ELSE d[i - Len(c)]
        <5> HIDE DEF c, d
        <5>1. /\ Len(c \o d) = Len(c) + Len(d)
              /\ \A i \in 1 .. Len(c) + Len(d) :
                    (c \o d)[i] = IF i <= Len(c) THEN c[i] ELSE d[i - Len(c)]
          BY <4>4, Joined
        <5> QED
          BY <4>4, <5>1, Zenon
      <4>7. w * m \in Nat /\ w * n = w * m + w
        BY <4>1
      <4> DEFINE o == w * m
      <4>9. o \in Nat /\ o = w * m /\ w * n = o + w /\ Len(c) = o
        BY <4>5, <4>7
      <4>11. o \in Nat /\ Len(c) = o /\ Len(d) = w
        BY <4>4, <4>9
      <4> HIDE DEF c, d, m, o
      <4>8. ASSUME NEW i \in 1 .. n, NEW j \in 1 .. w
            PROVE  f[n][w * (i - 1) + j] = ss[i][j]
        <5>1. CASE i = n
          <6>1. w * (i - 1) + j = o + j
            BY <5>1, <4>9 DEF m
          <6>2. o + j \in 1 .. Len(c) + Len(d) /\ ~(o + j <= Len(c)) /\ (o + j) - Len(c) = j
            BY <4>11
          <6> QED
            BY <5>1, <6>1, <6>2, <4>6 DEF d
        <5>2. CASE i # n
          <6>1. i \in 1 .. m /\ i \in Nat
            BY <5>2, <4>1
          <6>2. w * (i - 1) + w <= o /\ w * (i - 1) \in Nat
            <7>1. w * i <= w * m
              BY <6>1, <4>1
            <7>2. w * i = w * (i - 1) + w
              BY <6>1
            <7>3. w * (i - 1) \in Nat
              BY <6>1
            <7> QED
              BY <7>1, <7>2, <7>3, <4>9
          <6> DEFINE a == w * (i - 1)
          <6>3. a + j \in 1 .. Len(c) + Len(d) /\ a + j <= Len(c)
            <7>1. a \in Nat /\ a + w <= o
              BY <6>2
            <7> HIDE DEF a
            <7> QED
              BY <7>1, <4>11
          <6> QED
            BY <6>1, <6>3, <4>5, <4>6
        <5> QED
          BY <5>1, <5>2
      <4>10. Len(f[n]) = w * n
        BY <4>4, <4>6, <4>9
      <4> QED
        BY <4>8, <4>10
    <3> QED
      BY <3>1, <3>2
  <2> HIDE DEF S
  <2>4. \A n \in Nat : n \in S
    BY <2>3, Induction
  <2>5. L \in 1 .. L
    BY <1>0, <1>2
  <2> DEFINE s == f[L]
  <2>6. s \in Seq(Nat) /\ Len(s) = w * L
        /\ \A i \in 1 .. L : \A j \in 1 .. w : s[w * (i - 1) + j] = ss[i][j]
    <3>1. L \in S
      BY <1>0, <2>4
    <3>2. Pieces(L)
      BY <2>5, <3>1 DEF S
    <3> QED
      BY <2>2, <2>5, <3>2
  <2> HIDE DEF s
  <2>7. ASSUME NEW i \in 1 .. L
        PROVE  SubSeq(s, (i - 1) * w + 1, i * w) = ss[i]
    <3> DEFINE a == (i - 1) * w + 1
               b == i * w
               t == SubSeq(s, a, b)
    <3>1. /\ a = w * (i - 1) + 1 /\ b = w * (i - 1) + w
          /\ w * (i - 1) \in Nat /\ w * (i - 1) + w <= w * L
      <4>1. w * i <= w * L /\ w * i = w * (i - 1) + w
        <5>1. \A l \in Nat : \A k \in 1 .. l : w * k <= w * l /\ w * k = w * (k - 1) + w
          OBVIOUS
        <5> QED
          BY <5>1, <1>0
      <4>2. w * (i - 1) \in Nat
        BY <1>0
      <4>3. i * w = w * i /\ (i - 1) * w = w * (i - 1)
        BY <1>0
      <4> QED
        BY <4>1, <4>2, <4>3
    <3> DEFINE o == w * (i - 1)
    <3>2. a \in Int /\ b \in Int /\ a = o + 1 /\ b = o + w /\ o \in Nat /\ o + w <= w * L
      BY <3>1
    <3>3. \A j \in 1 .. w : s[o + j] = ss[i][j]
      BY <2>6
    <3> HIDE DEF a, b, o
    <3>4. \A j \in a .. b : s[j] \in Nat
      BY <2>6, <3>2
    <3>5. /\ t \in Seq(Nat)
          /\ Len(t) = IF a <= b THEN b - a + 1 ELSE 0
          /\ \A j \in 1 .. b - a + 1 : t[j] = s[a + j - 1]
      BY <3>2, <3>4, SubSeqProperties
    <3>6. Len(t) = w
      BY <3>2, <3>5
    <3>7. \A j \in 1 .. w : t[j] = ss[i][j]
      <4> SUFFICES ASSUME NEW j \in 1 .. w PROVE t[j] = ss[i][j]
        OBVIOUS
      <4>1. j \in 1 .. b - a + 1 /\ a + j - 1 = o + j
        BY <3>2
      <4> QED
        BY <4>1, <3>3, <3>5
    <3>8. ss[i] \in Seq(Nat) /\ Len(ss[i]) = w
      BY <1>0
    <3> HIDE DEF t
    <3>9. t = ss[i]
      BY <3>5, <3>6, <3>7, <3>8, SeqEqual
    <3> QED
      BY <3>9 DEF t, a, b
  <2> QED
    BY <2>1, <2>6, <2>7 DEF s
<1> QED
  BY <1>1, <1>2

\* Arrays of numbers and of bit patterns.
LEMMA NumericBack ==
    ASSUME NEW type \in ArrayTypes \ {BooleanArray, StringArray},
           NEW v \in Seq(Numbers(ElementType(type)))
    PROVE  Unpack(type, Pack(type, v)) = Ok(v)
<1> DEFINE e == ElementType(type)
           w == WidthOf(e)
           ss == [i \in DOMAIN v |-> Bytes(AsUnsigned(v[i], w), w)]
           data == FlattenSeq(ss)
           n == Len(v)
<1>1. w \in Nat \ {0}
  BY DEF WidthOf
<1>2. n \in Nat /\ DOMAIN v = 1 .. n /\ \A i \in 1 .. n : v[i] \in Numbers(e)
  OBVIOUS
<1>3. \A i \in 1 .. n : /\ AsUnsigned(v[i], w) \in Nat
                        /\ AsUnsigned(v[i], w) < Range2(w)
                        /\ Narrow(e, AsUnsigned(v[i], w)) = v[i]
  BY <1>2, NarrowBack
<1>4. Pack(type, v) = data
  BY DEF Pack, ArrayTypes
<1>5. Unpack(type, data) = UnpackNumeric(type, data)
  BY DEF Unpack
<1>6. UnpackNumeric(type, data) =
        IF Len(data) % w # 0
        THEN Err("ArrayLength")
        ELSE Ok([i \in 1 .. Len(data) \div w |->
                    Narrow(e, FromBytes(SubSeq(data, (i - 1) * w + 1, i * w)))])
  BY DEF UnpackNumeric
<1> HIDE DEF e, w
<1>7. /\ ss \in Seq(Seq(Nat)) /\ Len(ss) = n
      /\ \A i \in 1 .. n : /\ ss[i] = Bytes(AsUnsigned(v[i], w), w)
                           /\ Len(ss[i]) = w
                           /\ FromBytes(ss[i]) = AsUnsigned(v[i], w)
  <2>1. \A i \in 1 .. n : LET b == Bytes(AsUnsigned(v[i], w), w) IN
           b \in Seq(Nat) /\ Len(b) = w /\ FromBytes(b) = AsUnsigned(v[i], w)
    BY <1>1, <1>3, BytesBack
  <2> QED
    BY <1>2, <2>1
<1> HIDE DEF ss
<1>8. /\ Len(data) = w * n
      /\ \A i \in 1 .. n : SubSeq(data, (i - 1) * w + 1, i * w) = ss[i]
  BY <1>1, <1>7, FlattenPieces
<1> HIDE DEF data
<1>9. Len(data) % w = 0 /\ Len(data) \div w = n
  <2>1. w * n + 0 = w * n /\ 0 \in 0 .. w - 1 /\ n \in Int
    BY <1>1, <1>2
  <2> QED
    BY <2>1, <1>1, <1>8, DivUnique
<1>10. [i \in 1 .. n |-> Narrow(e, FromBytes(SubSeq(data, (i - 1) * w + 1, i * w)))] = v
  <2>1. \A i \in 1 .. n :
           Narrow(e, FromBytes(SubSeq(data, (i - 1) * w + 1, i * w))) = v[i]
    BY <1>3, <1>7, <1>8
  <2>2. v = [i \in 1 .. n |-> v[i]]
    BY <1>2
  <2> QED
    BY <2>1, <2>2
<1> QED
  BY <1>4, <1>5, <1>6, <1>9, <1>10

\* The place of a bit: which byte, and which weight in it.
LEMMA BitPlace ==
    ASSUME NEW i \in Nat, i >= 1
    PROVE  LET place == i - 1 - ByteBits * (ByteOf(i) - 1) IN
           /\ ByteOf(i) \in Nat \ {0}
           /\ place \in 0 .. ByteBits - 1
           /\ Weight(i) = Power2(ByteBits - 1 - place)
           /\ Weight(i) \in Nat \ {0}
<1> DEFINE b == ByteBits
           q == (i - 1) \div b
           r == (i - 1) % b
<1>1. b \in Nat \ {0} /\ i - 1 \in Nat
  BY ReaderAssumption
<1>2. q \in Nat /\ r \in 0 .. b - 1 /\ i - 1 = b * q + r
  BY <1>1, DivRest
<1>3. ByteOf(i) = 1 + q /\ Weight(i) = Power2(b - 1 - r)
  BY DEF ByteOf, Weight
<1> HIDE DEF b, q, r
<1>4. i - 1 - b * (ByteOf(i) - 1) = r
  <2>1. ByteOf(i) - 1 = q /\ b * q \in Nat
    BY <1>1, <1>2, <1>3
  <2> QED
    BY <2>1, <1>1, <1>2
<1>5. b - 1 - r \in Nat
  BY <1>1, <1>2
<1>6. Weight(i) \in Nat \ {0}
  BY <1>3, <1>5, Power2Type
<1> QED
  BY <1>2, <1>3, <1>4, <1>6 DEF b

\* Later bits are in later bytes.
LEMMA BytesInOrder ==
    ASSUME NEW i \in Nat, NEW n \in Nat, i >= 1, i <= n
    PROVE  ByteOf(i) \in 1 .. ByteOf(n) /\ ByteOf(n) \in Nat /\ ByteOf(0) = 0
<1> DEFINE b == ByteBits
           p == ByteOf(i)
           q == ByteOf(n)
           r == i - 1 - b * (p - 1)
           s == n - 1 - b * (q - 1)
<1>1. b \in Nat \ {0}
  BY ReaderAssumption
<1>2. p \in Nat \ {0} /\ r \in 0 .. b - 1 /\ q \in Nat \ {0} /\ s \in 0 .. b - 1
  BY BitPlace
<1>3. ByteOf(0) = 0
  <2>1. b * (-1) + (b - 1) = 0 - 1 /\ b - 1 \in 0 .. b - 1 /\ -1 \in Int
    BY <1>1
  <2>2. (b * (-1) + (b - 1)) \div b = -1
    BY <1>1, <2>1, DivUnique
  <2>3. (0 - 1) \div b = -1
    BY <2>1, <2>2
  <2> QED
    BY <2>3 DEF ByteOf
<1>4. b * (p - 1) + r = i - 1 /\ b * (q - 1) + s = n - 1
  BY <1>1, <1>2
<1> HIDE DEF p, q, r, s, b
<1>5. p > q => b * (p - 1) >= b * (q - 1) + b
  <2>1. p > q => b * (p - 1) >= b * q
    BY <1>1, <1>2
  <2>2. b * q = b * (q - 1) + b
    BY <1>1, <1>2
  <2> QED
    BY <2>1, <2>2
<1>6. b * (p - 1) \in Nat /\ b * (q - 1) \in Nat
  BY <1>1, <1>2
<1>7. p <= q
  BY <1>1, <1>2, <1>4, <1>5, <1>6
<1> QED
  BY <1>2, <1>3, <1>7 DEF p, q

\* In a byte, an earlier bit weighs twice as much as a later one, or more.
LEMMA WeightsFall ==
    ASSUME NEW i \in Nat, NEW n \in Nat, i >= 1, i < n, ByteOf(i) = ByteOf(n)
    PROVE  \E h \in Nat \ {0} : Weight(i) = 2 * Weight(n) * h
<1> DEFINE r == i - 1 - ByteBits * (ByteOf(i) - 1)
           s == n - 1 - ByteBits * (ByteOf(n) - 1)
           k == n - i - 1
           e == ByteBits - 1 - s
<1>1. ByteBits \in Nat
  BY ReaderAssumption
<1>2. /\ r \in 0 .. ByteBits - 1 /\ s \in 0 .. ByteBits - 1
      /\ Weight(i) = Power2(ByteBits - 1 - r) /\ Weight(n) = Power2(ByteBits - 1 - s)
      /\ ByteOf(i) \in Nat
  BY BitPlace
<1>3. s = r + (n - i)
  <2>1. ByteBits * (ByteOf(i) - 1) \in Int
    BY <1>1, <1>2
  <2> QED
    BY <2>1
<1>4. k \in Nat /\ e \in Nat /\ ByteBits - 1 - r = e + (k + 1) /\ k + 1 \in Nat
  BY <1>1, <1>2, <1>3
<1>5. Power2(k + 1) = 2 * Power2(k)
  BY <1>4, Power2Equation
<1>6. Power2(e + (k + 1)) = Power2(e) * Power2(k + 1)
  BY <1>4, Power2Sum
<1>7. Power2(e) \in Nat \ {0} /\ Power2(k) \in Nat \ {0}
  BY <1>4, Power2Type
<1>8. \A x, y \in Nat : x * (2 * y) = 2 * x * y
  OBVIOUS
<1>9. Weight(i) = 2 * Weight(n) * Power2(k)
  BY <1>2, <1>4, <1>5, <1>6, <1>7, <1>8
<1> QED
  BY <1>7, <1>9

\* Setting a bit of a byte whose bits from there on are 0.
LEMMA SetBit ==
    ASSUME NEW w \in Nat \ {0}, NEW q \in Nat
    PROVE  /\ ~IsSet(2 * w * q, w)
           /\ IsSet(2 * w * q + w, w)
           /\ \A h \in Nat \ {0} :
                 IsSet(2 * w * q + w, 2 * w * h) <=> IsSet(2 * w * q, 2 * w * h)
<1>1. (2 * w * q) \div w = 2 * q
  <2>1. w * (2 * q) + 0 = 2 * w * q /\ 2 * q \in Int /\ 0 \in 0 .. w - 1
    OBVIOUS
  <2> QED
    BY <2>1, DivUnique
<1>2. (2 * w * q + w) \div w = 2 * q + 1
  <2>1. w * (2 * q + 1) + 0 = 2 * w * q + w /\ 2 * q + 1 \in Int /\ 0 \in 0 .. w - 1
    OBVIOUS
  <2>2. (w * (2 * q + 1) + 0) \div w = 2 * q + 1
    BY <2>1, DivUnique
  <2> QED
    BY <2>1, <2>2
<1>3. (2 * q) % 2 = 0 /\ (2 * q + 1) % 2 = 1
  OBVIOUS
<1>4. ASSUME NEW h \in Nat \ {0}
      PROVE  (2 * w * q + w) \div (2 * w * h) = (2 * w * q) \div (2 * w * h)
  <2> DEFINE b == 2 * w
             x == b * q
             y == b * q + w
  <2>1. b \in Nat \ {0} /\ w \in 0 .. b - 1 /\ 0 \in 0 .. b - 1 /\ q \in Int
    OBVIOUS
  <2> HIDE DEF b
  <2>2. x \in Nat /\ y \in Nat /\ x = b * q + 0
    BY <2>1
  <2>3. x \div b = q /\ y \div b = q
    <3>1. \A r \in 0 .. b - 1 : (b * q + r) \div b = q
      BY <2>1, DivUnique
    <3> QED
      BY <2>1, <2>2, <3>1
  <2>4. \A a \in Nat : (a \div b) \div h = a \div (b * h)
    BY <2>1, DivTwice
  <2> HIDE DEF x, y
  <2>5. x \div (b * h) = y \div (b * h)
    BY <2>2, <2>3, <2>4
  <2> QED
    BY <2>5 DEF x, y, b
<1>5. ~IsSet(2 * w * q, w) /\ IsSet(2 * w * q + w, w)
  <2>1. (2 * w * q) \div w % 2 = 0 /\ (2 * w * q + w) \div w % 2 = 1
    BY <1>1, <1>2, <1>3
  <2> QED
    BY <2>1 DEF IsSet
<1>6. \A h \in Nat \ {0} :
         IsSet(2 * w * q + w, 2 * w * h) <=> IsSet(2 * w * q, 2 * w * h)
  BY <1>4, Zenon DEF IsSet
<1> QED
  BY <1>5, <1>6

\* The bytes after each of the bits.
Packing(p, v) ==
    /\ p \in [0 .. Len(v) -> [1 .. ByteOf(Len(v)) -> Nat]]
    /\ p[0] = [j \in 1 .. ByteOf(Len(v)) |-> 0]
    /\ \A n \in 1 .. Len(v) :
          p[n] = IF v[n] THEN [p[n - 1] EXCEPT ![ByteOf(n)] = @ + Weight(n)] ELSE p[n - 1]

\* The equation of PackBits.
LEMMA PackBitsEquation ==
    ASSUME NEW v \in Seq(BOOLEAN)
    PROVE  \E p : Packing(p, v) /\ PackBits(v) = p[Len(v)]
<1> DEFINE L == Len(v)
           D == 0 .. L
           T == [1 .. ByteOf(L) -> Nat]
           zero == [j \in 1 .. ByteOf(L) |-> 0]
           With(x, n) == [x EXCEPT ![ByteOf(n)] = @ + Weight(n)]
           Eq(p) == p = [n \in D |-> IF n = 0 THEN zero
                                     ELSE IF v[n] THEN With(p[n - 1], n) ELSE p[n - 1]]
           down == [n \in D |-> IF n = 0 THEN 0 ELSE n - 1]
           rank == [n \in D |-> n]
           base == [n \in D |-> zero]
           step == [x \in D \X T |-> IF x[1] = 0 THEN x[2]
                                     ELSE IF v[x[1]] THEN With(x[2], x[1]) ELSE x[2]]
           Stop == {0}
<1>0. L \in Nat
  OBVIOUS
<1>1. \A n \in 1 .. L : ByteOf(n) \in 1 .. ByteOf(L) /\ Weight(n) \in Nat
  <2> SUFFICES ASSUME NEW n \in 1 .. L
               PROVE  ByteOf(n) \in 1 .. ByteOf(L) /\ Weight(n) \in Nat
    OBVIOUS
  <2>1. n \in Nat /\ n >= 1 /\ n <= L
    BY <1>0
  <2> QED
    BY <2>1, <1>0, BitPlace, BytesInOrder
<1>2. \A x \in T : \A n \in 1 .. L : With(x, n) \in T
  <2> SUFFICES ASSUME NEW x \in T, NEW n \in 1 .. L PROVE With(x, n) \in T
    OBVIOUS
  <2>1. x[ByteOf(n)] + Weight(n) \in Nat
    BY <1>1
  <2> QED
    BY <2>1
<1>3. zero \in T
  OBVIOUS
<1> HIDE DEF With, zero, T
<1>4. Descends(D, T, rank, Stop, base, down, step)
  <2>1. rank \in [D -> Nat] /\ Stop \in SUBSET D /\ base \in [D -> T]
    BY <1>0, <1>3
  <2>2. down \in [D -> D] /\ \A n \in D \ Stop : rank[down[n]] < rank[n]
    BY <1>0
  <2>3. step \in [D \X T -> T]
    <3>1. ASSUME NEW n \in D, NEW x \in T
          PROVE  (IF n = 0 THEN x ELSE IF v[n] THEN With(x, n) ELSE x) \in T
      <4>1. n # 0 => n \in 1 .. L
        BY <1>0
      <4> QED
        BY <4>1, <1>2
    <3>2. \A y \in D \X T : y[1] \in D /\ y[2] \in T
      OBVIOUS
    <3> QED
      BY <3>1, <3>2
  <2> QED
    BY <2>1, <2>2, <2>3 DEF Descends
<1>5. \A n \in D : base[n] = zero /\ (n # 0 => down[n] = n - 1 /\ n - 1 \in D)
                   /\ (n \in Stop <=> n = 0)
  BY <1>0
<1>6. \A n \in D, x \in T : n # 0 =>
         step[<<n, x>>] = IF v[n] THEN With(x, n) ELSE x
  OBVIOUS
<1> HIDE DEF rank, down, base, step, Stop
<1>7. PICK w \in [D -> T] : Solves(w, D, Stop, base, down, step)
  BY <1>4, Recursion
<1>8. ASSUME NEW n \in D
      PROVE  w[n] = IF n = 0 THEN zero ELSE IF v[n] THEN With(w[n - 1], n) ELSE w[n - 1]
  <2>1. CASE n = 0
    BY <2>1, <1>5, <1>7 DEF Solves
  <2>2. CASE n # 0
    <3>1. n - 1 \in D /\ w[n - 1] \in T /\ w[n] = step[<<n, w[n - 1]>>]
      BY <2>2, <1>5, <1>7 DEF Solves
    <3> QED
      BY <3>1, <2>2, <1>6
  <2> QED
    BY <2>1, <2>2
<1>9. Eq(w)
  BY <1>7, <1>8
<1> DEFINE p == CHOOSE f : Eq(f)
<1> HIDE DEF Eq
<1>10. Eq(p)
  BY <1>9
<1>11. PackBits(v) = p[L]
  BY Zenon DEF PackBits, Eq, With, zero
<1> HIDE DEF p
<1>12. /\ p = [n \in D |-> p[n]]
       /\ p[0] = zero
       /\ \A n \in 1 .. L : p[n] = IF v[n] THEN With(p[n - 1], n) ELSE p[n - 1]
  <2>1. \A n \in D : p[n] = IF n = 0 THEN zero
                            ELSE IF v[n] THEN With(p[n - 1], n) ELSE p[n - 1]
    BY <1>10 DEF Eq
  <2>2. 0 \in D /\ \A n \in 1 .. L : n \in D /\ n # 0
    BY <1>0
  <2>3. p = [n \in D |-> p[n]]
    BY <1>10 DEF Eq
  <2> QED
    BY <2>1, <2>2, <2>3
<1> DEFINE S == {n \in Nat : n \in D => p[n] \in T}
<1>13. ASSUME NEW n \in Nat, \A k \in 0 .. n - 1 : k \in S PROVE n \in S
  <2> SUFFICES ASSUME n \in D PROVE p[n] \in T
    OBVIOUS
  <2>1. CASE n = 0
    BY <2>1, <1>3, <1>12
  <2>2. CASE n # 0
    <3>1. n - 1 \in D /\ n - 1 \in 0 .. n - 1 /\ n \in 1 .. L
      BY <2>2, <1>0
    <3>2. p[n - 1] \in T
      BY <3>1, <1>13
    <3>3. With(p[n - 1], n) \in T
      BY <3>1, <3>2, <1>2
    <3> QED
      BY <3>1, <3>2, <3>3, <1>12
  <2> QED
    BY <2>1, <2>2
<1> HIDE DEF S
<1>14. \A n \in Nat : n \in S
  BY <1>13, Induction
<1>15. \A n \in D : p[n] \in T
  BY <1>14 DEF S
<1>16. p \in [D -> T]
  BY <1>12, <1>15
<1>17. Packing(p, v)
  BY <1>12, <1>16 DEF Packing, With, zero, T
<1> QED
  BY <1>11, <1>17

\* Each bit is where it is looked for.
LEMMA BitsShown ==
    ASSUME NEW v \in Seq(BOOLEAN)
    PROVE  /\ PackBits(v) \in Seq(Nat)
           /\ Len(PackBits(v)) = ByteOf(Len(v))
           /\ \A i \in 1 .. Len(v) : IsSet(PackBits(v)[ByteOf(i)], Weight(i)) <=> v[i]
<1> DEFINE L == Len(v)
<1>0. L \in Nat /\ \A i \in 1 .. L : v[i] \in BOOLEAN
  OBVIOUS
<1>1. PICK p : Packing(p, v) /\ PackBits(v) = p[L]
  BY PackBitsEquation
<1>2. /\ \A n \in 0 .. L : p[n] \in [1 .. ByteOf(L) -> Nat]
      /\ \A j \in 1 .. ByteOf(L) : p[0][j] = 0
      /\ \A n \in 1 .. L :
            p[n] = IF v[n] THEN [p[n - 1] EXCEPT ![ByteOf(n)] = @ + Weight(n)] ELSE p[n - 1]
  BY <1>0, <1>1 DEF Packing
<1>3. \A i \in 1 .. L : i \in Nat /\ ByteOf(i) \in 1 .. ByteOf(L) /\ Weight(i) \in Nat \ {0}
  <2> SUFFICES ASSUME NEW i \in 1 .. L
               PROVE  i \in Nat /\ ByteOf(i) \in 1 .. ByteOf(L) /\ Weight(i) \in Nat \ {0}
    OBVIOUS
  <2>1. i \in Nat /\ i >= 1 /\ i <= L
    BY <1>0
  <2> QED
    BY <2>1, <1>0, BitPlace, BytesInOrder
<1> DEFINE Set(n) == \A i \in 1 .. n : IsSet(p[n][ByteOf(i)], Weight(i)) <=> v[i]
           Clear(n) == \A i \in n + 1 .. L :
                          \E q \in Nat : p[n][ByteOf(i)] = 2 * Weight(i) * q
           S == {n \in Nat : n \in 0 .. L => Set(n) /\ Clear(n)}
<1>4. ASSUME NEW n \in Nat, \A k \in 0 .. n - 1 : k \in S PROVE n \in S
  <2> SUFFICES ASSUME n \in 0 .. L PROVE Set(n) /\ Clear(n)
    OBVIOUS
  <2>1. CASE n = 0
    <3>1. Set(n)
      BY <2>1
    <3>2. ASSUME NEW i \in n + 1 .. L
          PROVE  \E q \in Nat : p[n][ByteOf(i)] = 2 * Weight(i) * q
      <4>1. i \in 1 .. L
        BY <3>2, <2>1
      <4>2. p[n][ByteOf(i)] = 0
        BY <4>1, <2>1, <1>2, <1>3
      <4>3. 2 * Weight(i) * 0 = 0
        BY <4>1, <1>3
      <4> QED
        BY <4>2, <4>3
    <3> QED
      BY <3>1, <3>2
  <2>2. CASE n # 0
    <3> DEFINE m == n - 1
               b == ByteOf(n)
               w == Weight(n)
    <3>1. m \in 0 .. L /\ m \in 0 .. n - 1 /\ n \in 1 .. L /\ m + 1 = n /\ m \in Nat
      BY <2>2, <1>0
    <3>2. Set(m) /\ Clear(m)
      <4>1. m \in S
        BY <3>1, <1>4
      <4> QED
        BY <3>1, <4>1
    <3>3. b \in 1 .. ByteOf(L) /\ w \in Nat \ {0}
      BY <3>1, <1>3
    <3>4. PICK q \in Nat : p[m][b] = 2 * w * q
      BY <3>1, <3>2
    <3>5. /\ ~IsSet(2 * w * q, w)
          /\ IsSet(2 * w * q + w, w)
          /\ \A h \in Nat \ {0} : IsSet(2 * w * q + w, 2 * w * h) <=> IsSet(2 * w * q, 2 * w * h)
      BY <3>3, SetBit
    <3>6. \A i \in 1 .. m : i \in 1 .. L /\ i < n
      BY <3>1
    <3>7. \A i \in n + 1 .. L : i \in m + 1 .. L /\ i \in 1 .. L /\ n < i
      BY <3>1
    <3>8. \A i \in 1 .. n : i = n \/ i \in 1 .. m
      BY <3>1
    <3>9. p[m] \in [1 .. ByteOf(L) -> Nat]
      BY <3>1, <1>2
    <3> DEFINE x == p[m]
               y == p[n]
    <3>10. \A k \in 1 .. ByteOf(L) : y[k] = IF v[n] /\ k = b THEN x[k] + w ELSE x[k]
      <4>1. y = IF v[n] THEN [x EXCEPT ![b] = @ + w] ELSE x
        BY <3>1, <1>2
      <4> HIDE DEF x, y, b, w
      <4> QED
        BY <4>1, <3>3, <3>9 DEF x
    <3>11. \A i \in 1 .. m : IsSet(x[ByteOf(i)], Weight(i)) <=> v[i]
      BY <3>2
    <3>12. \A i \in m + 1 .. L : \E k \in Nat : x[ByteOf(i)] = 2 * Weight(i) * k
      BY <3>2
    <3>13. x[b] = 2 * w * q
      BY <3>4
    <3>14. \A i \in 1 .. L : i < n /\ ByteOf(i) = b => \E h \in Nat \ {0} : Weight(i) = 2 * w * h
      <4> SUFFICES ASSUME NEW i \in 1 .. L, i < n, ByteOf(i) = b
                   PROVE  \E h \in Nat \ {0} : Weight(i) = 2 * w * h
        OBVIOUS
      <4>1. i \in Nat /\ i >= 1
        BY <1>0
      <4> QED
        BY <4>1, WeightsFall
    <3>15. \A i \in 1 .. L : n < i /\ ByteOf(i) = b => \E h \in Nat \ {0} : w = 2 * Weight(i) * h
      <4> SUFFICES ASSUME NEW i \in 1 .. L, n < i, ByteOf(i) = b
                   PROVE  \E h \in Nat \ {0} : w = 2 * Weight(i) * h
        OBVIOUS
      <4>1. i \in Nat /\ n >= 1
        BY <1>0, <3>1
      <4> QED
        BY <4>1, WeightsFall
    <3> HIDE DEF x, y, b, w, m
    <3>16. ASSUME NEW i \in 1 .. n
           PROVE  IsSet(y[ByteOf(i)], Weight(i)) <=> v[i]
      <4>1. CASE i = n
        <5>1. ByteOf(i) = b /\ Weight(i) = w
          BY <4>1 DEF b, w
        <5>2. y[b] = IF v[n] THEN 2 * w * q + w ELSE 2 * w * q
          BY <3>3, <3>10, <3>13
        <5>3. v[n] \in BOOLEAN
          BY <3>1, <1>0
        <5> QED
          BY <4>1, <5>1, <5>2, <5>3, <3>5
      <4>2. CASE i \in 1 .. m
        <5>1. i \in 1 .. L /\ i < n /\ ByteOf(i) \in 1 .. ByteOf(L)
          BY <4>2, <3>6, <1>3
        <5>2. IsSet(x[ByteOf(i)], Weight(i)) <=> v[i]
          BY <4>2, <3>11
        <5>3. CASE v[n] /\ ByteOf(i) = b
          <6>1. PICK h \in Nat \ {0} : Weight(i) = 2 * w * h
            BY <5>1, <5>3, <3>14
          <6>2. x[ByteOf(i)] = 2 * w * q /\ y[ByteOf(i)] = 2 * w * q + w
            BY <5>1, <5>3, <3>10, <3>13
          <6>3. IsSet(2 * w * q + w, 2 * w * h) <=> IsSet(2 * w * q, 2 * w * h)
            BY <3>5
          <6> QED
            BY <6>1, <6>2, <6>3, <5>2
        <5>4. CASE ~(v[n] /\ ByteOf(i) = b)
          BY <5>1, <5>2, <5>4, <3>10
        <5> QED
          BY <5>3, <5>4
      <4> QED
        BY <4>1, <4>2, <3>8
    <3>17. ASSUME NEW i \in n + 1 .. L
           PROVE  \E k \in Nat : y[ByteOf(i)] = 2 * Weight(i) * k
      <4>1. i \in m + 1 .. L /\ i \in 1 .. L /\ n < i /\ ByteOf(i) \in 1 .. ByteOf(L)
            /\ Weight(i) \in Nat
        BY <3>7, <1>3
      <4>2. CASE v[n] /\ ByteOf(i) = b
        <5>1. PICK h \in Nat \ {0} : w = 2 * Weight(i) * h
          BY <4>1, <4>2, <3>15
        <5>2. y[ByteOf(i)] = 2 * w * q + w
          BY <4>1, <4>2, <3>10, <3>13
        <5> DEFINE u == Weight(i)
        <5>3. u \in Nat /\ w = 2 * u * h
          BY <4>1, <5>1
        <5> HIDE DEF u
        <5>4. 2 * (2 * u * h) * q + 2 * u * h = 2 * u * (h * (2 * q + 1))
          BY <5>3
        <5>5. h * (2 * q + 1) \in Nat
          OBVIOUS
        <5>6. y[ByteOf(i)] = 2 * u * (h * (2 * q + 1))
          BY <5>2, <5>3, <5>4
        <5> QED
          BY <5>5, <5>6 DEF u
      <4>3. CASE ~(v[n] /\ ByteOf(i) = b)
        <5>1. y[ByteOf(i)] = x[ByteOf(i)]
          BY <4>1, <4>3, <3>10
        <5> QED
          BY <5>1, <4>1, <3>12
      <4> QED
        BY <4>2, <4>3
    <3> QED
      BY <3>16, <3>17 DEF y
  <2> QED
    BY <2>1, <2>2
<1> HIDE DEF S
<1>5. \A n \in Nat : n \in S
  BY <1>4, Induction
<1>6. Set(L)
  BY <1>0, <1>5 DEF S
<1>7. ByteOf(L) \in Nat
  <2>1. CASE L = 0
    <3>1. 1 \in Nat /\ 1 >= 1 /\ 1 <= 1
      OBVIOUS
    <3>2. ByteOf(0) = 0
      BY <3>1, BytesInOrder
    <3> QED
      BY <2>1, <3>2
  <2>2. CASE L # 0
    <3>1. L \in 1 .. L
      BY <2>2, <1>0
    <3>2. L \in Nat /\ L >= 1
      BY <2>2, <1>0
    <3> QED
      BY <3>2, BitPlace
  <2> QED
    BY <2>1, <2>2
<1>8. p[L] \in [1 .. ByteOf(L) -> Nat]
  BY <1>0, <1>2
<1> QED
  BY <1>1, <1>6, <1>7, <1>8

\* Arrays of Booleans.
LEMMA BooleanBack ==
    ASSUME NEW v \in Seq(BOOLEAN), Len(v) < Range2(4)
    PROVE  Unpack(BooleanArray, Pack(BooleanArray, v)) = Ok(v)
<1> DEFINE L == Len(v)
           c == Bytes(AsUnsigned(L, 4), 4)
           d == PackBits(v)
           data == c \o d
           count == FromBytes(SubSeq(data, 1, 4))
<1>0. L \in Nat /\ v = [i \in 1 .. L |-> v[i]] /\ \A i \in 1 .. L : v[i] \in BOOLEAN
  OBVIOUS
<1>1. AsUnsigned(L, 4) = L
  <2>1. Range2(4) \in Nat \ {0}
    BY RangeType
  <2>2. \A r \in 0 .. Range2(4) - 1 : (Range2(4) * 0 + r) % Range2(4) = r
    BY <2>1, DivUnique
  <2>3. L \in 0 .. Range2(4) - 1 /\ Range2(4) * 0 + L = L
    BY <2>1, <1>0
  <2> QED
    BY <2>2, <2>3 DEF AsUnsigned
<1>2. c \in Seq(Nat) /\ Len(c) = 4 /\ FromBytes(c) = L
  BY <1>0, <1>1, BytesBack
<1>3. /\ d \in Seq(Nat)
      /\ Len(d) = ByteOf(L)
      /\ \A i \in 1 .. L : IsSet(d[ByteOf(i)], Weight(i)) <=> v[i]
  BY BitsShown
<1>4. Pack(BooleanArray, v) = data
  BY DEF Pack, BooleanArray, StringArray
<1> HIDE DEF data
<1>5. Unpack(BooleanArray, data) = UnpackBool(data)
  BY DEF Unpack, BooleanArray, StringArray
<1> USE DEF data
<1> HIDE DEF c, d
<1>6. /\ Len(data) = 4 + ByteOf(L) /\ ByteOf(L) \in Nat
      /\ \A i \in 1 .. 4 : data[i] = c[i]
      /\ \A i \in 1 .. ByteOf(L) : data[4 + i] = d[i]
  <2>1. /\ Len(data) = Len(c) + Len(d)
        /\ \A i \in 1 .. Len(c) + Len(d) : data[i] = IF i <= Len(c) THEN c[i] ELSE d[i - Len(c)]
    BY <1>2, <1>3, Joined
  <2> DEFINE n == Len(d)
  <2>2. n \in Nat /\ n = ByteOf(L) /\ Len(c) = 4
    BY <1>2, <1>3
  <2> HIDE DEF data, n
  <2>3. Len(data) = 4 + n /\ \A i \in 1 .. 4 + n : data[i] = IF i <= 4 THEN c[i] ELSE d[i - 4]
    BY <2>1, <2>2 DEF n
  <2>4. \A i \in 1 .. 4 : i \in 1 .. 4 + n /\ i <= 4
    BY <2>2
  <2>5. \A i \in 1 .. n : 4 + i \in 1 .. 4 + n /\ ~(4 + i <= 4) /\ (4 + i) - 4 = i
    BY <2>2
  <2>6. (\A i \in 1 .. 4 : data[i] = c[i]) /\ \A i \in 1 .. n : data[4 + i] = d[i]
    BY <2>3, <2>4, <2>5
  <2> QED
    BY <2>2, <2>3, <2>6
<1> HIDE DEF data
<1>7. SubSeq(data, 1, 4) = c
  <2>1. \A i \in 1 .. 4 : data[i] \in Nat
    <3>1. \A i \in 1 .. 4 : c[i] \in Nat
      BY <1>2, ElementOfSeq
    <3> QED
      BY <3>1, <1>6
  <2> DEFINE t == SubSeq(data, 1, 4)
  <2>2. t \in Seq(Nat) /\ Len(t) = 4 /\ \A i \in 1 .. 4 : t[i] = data[1 + i - 1]
    <3>1. 1 \in Int /\ 4 \in Int /\ 1 <= 4 /\ 4 - 1 + 1 = 4
      OBVIOUS
    <3> QED
      BY <3>1, <2>1, SubSeqProperties
  <2> HIDE DEF t
  <2>3. \A i \in 1 .. 4 : t[i] = c[i]
    <3> SUFFICES ASSUME NEW i \in 1 .. 4 PROVE t[i] = c[i]
      OBVIOUS
    <3>1. 1 + i - 1 = i
      OBVIOUS
    <3> QED
      BY <3>1, <2>2, <1>6
  <2>4. t = c
    BY <1>2, <2>2, <2>3, SeqEqual
  <2> QED
    BY <2>4 DEF t
<1>8. count = L
  BY <1>2, <1>7
<1>9. UnpackBool(data) = Ok([i \in 1 .. L |-> IsSet(data[4 + ByteOf(i)], Weight(i))])
  <2>1. ~(Len(data) < 4 \/ Len(data) < 4 + ByteOf(L))
    BY <1>6
  <2> HIDE DEF count
  <2>2. UnpackBool(data) =
          IF Len(data) < 4 \/ Len(data) < 4 + ByteOf(count)
          THEN Err("Truncated")
          ELSE Ok([i \in 1 .. count |-> IsSet(data[4 + ByteOf(i)], Weight(i))])
    BY Zenon DEF UnpackBool, count
  <2> QED
    BY <2>1, <2>2, <1>8
<1>10. \A i \in 1 .. L : IsSet(data[4 + ByteOf(i)], Weight(i)) = v[i]
  <2> SUFFICES ASSUME NEW i \in 1 .. L PROVE IsSet(data[4 + ByteOf(i)], Weight(i)) = v[i]
    OBVIOUS
  <2>1. i \in Nat /\ i >= 1 /\ i <= L
    BY <1>0
  <2>2. ByteOf(i) \in 1 .. ByteOf(L)
    BY <2>1, <1>0, BytesInOrder
  <2>3. data[4 + ByteOf(i)] = d[ByteOf(i)]
    BY <2>2, <1>6
  <2>4. IsSet(d[ByteOf(i)], Weight(i)) \in BOOLEAN
    BY DEF IsSet
  <2>5. IsSet(d[ByteOf(i)], Weight(i)) = v[i]
    BY <2>4, <1>0, <1>3
  <2> QED
    BY <2>3, <2>5
<1>11. [i \in 1 .. L |-> IsSet(data[4 + ByteOf(i)], Weight(i))] = v
  BY <1>0, <1>10, Zenon
<1> QED
  BY <1>4, <1>5, <1>9, <1>11

\* The equation of Split.
LEMMA SplitEquation ==
    ASSUME NEW d \in Seq(Nat)
    PROVE  Split(d) = IF d = << >>
                      THEN << << >> >>
                      ELSE IF Head(d) = 0
                           THEN << << >> >> \o Split(Tail(d))
                           ELSE << <<Head(d)>> \o Head(Split(Tail(d))) >>
                                  \o Tail(Split(Tail(d)))
<1> DEFINE T == Seq(Seq(Nat)) \ {<< >>}
           More1(h, rest) == IF h = 0
                             THEN << << >> >> \o rest
                             ELSE << <<h>> \o Head(rest) >> \o Tail(rest)
           Eq(p) == p = [s \in Seq(Nat) |->
                           IF s = << >> THEN << << >> >> ELSE More1(Head(s), p[Tail(s)])]
           down == [s \in Seq(Nat) |-> IF s = << >> THEN << >> ELSE Tail(s)]
           rank == [s \in Seq(Nat) |-> Len(s)]
           base == [s \in Seq(Nat) |-> << << >> >>]
           step == [x \in Seq(Nat) \X T |->
                      IF x[1] = << >> THEN x[2] ELSE More1(Head(x[1]), x[2])]
           Stop == {s \in Seq(Nat) : s = << >>}
<1>0. \A s \in Seq(Nat) : s # << >> =>
         Head(s) \in Nat /\ Tail(s) \in Seq(Nat) /\ Len(Tail(s)) = Len(s) - 1
  BY HeadTailProperties
<1>1. \A h \in Nat, rest \in T : More1(h, rest) \in T
  <2> SUFFICES ASSUME NEW h \in Nat, NEW rest \in T PROVE More1(h, rest) \in T
    OBVIOUS
  <2>1. Head(rest) \in Seq(Nat) /\ Tail(rest) \in Seq(Seq(Nat)) /\ rest \in Seq(Seq(Nat))
    BY HeadTailProperties
  <2>2. \A a \in Seq(Nat), b \in Seq(Seq(Nat)) : <<a>> \o b \in T
    BY ByteBefore
  <2>3. << >> \in Seq(Nat) /\ <<h>> \o Head(rest) \in Seq(Nat)
    BY <2>1, ByteBefore
  <2> HIDE DEF T
  <2> QED
    BY <2>1, <2>2, <2>3
<1>2. << << >> >> \in T
  OBVIOUS
<1> HIDE DEF More1, T
<1>3. Descends(Seq(Nat), T, rank, Stop, base, down, step)
  <2>1. rank \in [Seq(Nat) -> Nat] /\ Stop \in SUBSET Seq(Nat) /\ base \in [Seq(Nat) -> T]
    BY <1>2
  <2>2. down \in [Seq(Nat) -> Seq(Nat)]
    BY <1>0
  <2>3. \A s \in Seq(Nat) \ Stop : rank[down[s]] < rank[s]
    BY <1>0, <2>2
  <2>4. step \in [Seq(Nat) \X T -> T]
    <3>1. ASSUME NEW s \in Seq(Nat), NEW x \in T
          PROVE  (IF s = << >> THEN x ELSE More1(Head(s), x)) \in T
      BY <1>0, <1>1
    <3>2. \A y \in Seq(Nat) \X T : y[1] \in Seq(Nat) /\ y[2] \in T
      OBVIOUS
    <3> QED
      BY <3>1, <3>2
  <2> QED
    BY <2>1, <2>2, <2>3, <2>4 DEF Descends
<1>4. \A s \in Seq(Nat) :
         base[s] = << << >> >> /\ (s # << >> => down[s] = Tail(s)) /\ (s \in Stop <=> s = << >>)
  OBVIOUS
<1>5. \A s \in Seq(Nat), x \in T : s # << >> => step[<<s, x>>] = More1(Head(s), x)
  OBVIOUS
<1> HIDE DEF rank, down, base, step, Stop
<1>6. PICK w \in [Seq(Nat) -> T] : Solves(w, Seq(Nat), Stop, base, down, step)
  BY <1>3, Recursion
<1>7. ASSUME NEW s \in Seq(Nat)
      PROVE  w[s] = IF s = << >> THEN << << >> >> ELSE More1(Head(s), w[Tail(s)])
  <2>1. CASE s = << >>
    BY <2>1, <1>4, <1>6 DEF Solves
  <2>2. CASE s # << >>
    <3>1. w[Tail(s)] \in T /\ w[s] = step[<<s, w[Tail(s)]>>]
      BY <2>2, <1>0, <1>4, <1>6 DEF Solves
    <3> QED
      BY <3>1, <2>2, <1>5
  <2> QED
    BY <2>1, <2>2
<1>8. Eq(w)
  BY <1>6, <1>7
<1> DEFINE p == CHOOSE f : Eq(f)
<1> HIDE DEF Eq
<1>9. Eq(p)
  BY <1>8
<1>10. \A s : Split(s) = p[s]
  BY Zenon DEF Split, Eq, More1
<1> HIDE DEF p
<1>11. p[d] = IF d = << >> THEN << << >> >> ELSE More1(Head(d), p[Tail(d)])
  BY <1>9 DEF Eq
<1> QED
  BY <1>10, <1>11, Zenon DEF More1

\* Strings without a zero byte.
ZeroFree == Seq(Nat \ {0})

\* The first of the strings, up to its zero byte.
LEMMA SplitText ==
    ASSUME NEW t \in ZeroFree, NEW r \in Seq(Nat), Split(r) \in Seq(Seq(Nat))
    PROVE  /\ t \in Seq(Nat)
           /\ Append(t, 0) \in Seq(Nat)
           /\ Split(Append(t, 0) \o r) = <<t>> \o Split(r)
<1>1. \A u \in ZeroFree : u \in Seq(Nat) /\ Append(u, 0) \in Seq(Nat)
                       /\ Append(u, 0) = u \o <<0>> /\ Append(u, 0) \o r \in Seq(Nat)
  <2> SUFFICES ASSUME NEW u \in ZeroFree
               PROVE  u \in Seq(Nat) /\ Append(u, 0) \in Seq(Nat)
                      /\ Append(u, 0) = u \o <<0>> /\ Append(u, 0) \o r \in Seq(Nat)
    OBVIOUS
  <2>1. u \in Seq(Nat)
    BY DEF ZeroFree
  <2>2. Append(u, 0) \in Seq(Nat) /\ Append(u, 0) = u \o <<0>>
    BY <2>1, AppendProperties, AppendIsConcat
  <2> QED
    BY <2>1, <2>2, Joined
<1> DEFINE S == {n \in Nat : \A u \in ZeroFree : Len(u) = n =>
                   Split(Append(u, 0) \o r) = <<u>> \o Split(r)}
<1>2. ASSUME NEW n \in Nat, \A k \in 0 .. n - 1 : k \in S PROVE n \in S
  <2> SUFFICES ASSUME NEW u \in ZeroFree, Len(u) = n
               PROVE  Split(Append(u, 0) \o r) = <<u>> \o Split(r)
    OBVIOUS
  <2> DEFINE d == Append(u, 0) \o r
  <2>0. d \in Seq(Nat)
    BY <1>1
  <2>1. CASE u = << >>
    <3>1. d = <<0>> \o r
      <4>1. << >> \o <<0>> = <<0>>
        BY ConcatEmptySeq
      <4>2. Append(u, 0) = << >> \o <<0>>
        BY <2>1, <1>1
      <4> QED
        BY <4>1, <4>2
    <3>2. 0 \in Nat /\ <<0>> \o r # << >> /\ Head(<<0>> \o r) = 0 /\ Tail(<<0>> \o r) = r
      BY ByteBefore
    <3> HIDE DEF d
    <3>3. d # << >> /\ Head(d) = 0 /\ Tail(d) = r
      BY <3>1, <3>2
    <3>4. Split(d) = << << >> >> \o Split(r)
      BY <2>0, <3>3, SplitEquation
    <3> QED
      BY <2>1, <3>4 DEF d
  <2>2. CASE u # << >>
    <3> DEFINE h == Head(u)
               s == Tail(u)
               e == Append(s, 0) \o r
    <3>1. h \in Nat \ {0} /\ s \in ZeroFree /\ Len(s) = n - 1 /\ n - 1 \in 0 .. n - 1
      <4>1. u \in Seq(Nat \ {0})
        BY DEF ZeroFree
      <4>2. h \in Nat \ {0} /\ s \in Seq(Nat \ {0}) /\ Len(s) = Len(u) - 1
        BY <4>1, <2>2, HeadTailProperties
      <4>3. Len(s) \in Nat
        BY <4>2
      <4> QED
        BY <4>2, <4>3 DEF ZeroFree
    <3>2. u = <<h>> \o s
      <4>1. u \in Seq(Nat) /\ Len(s) = Len(u) - 1 /\ \A i \in 1 .. Len(s) : s[i] = u[i + 1]
        BY <2>2, <1>1, HeadTailProperties
      <4>2. h = u[1] /\ h \in Nat /\ s \in Seq(Nat)
        BY <2>2, <1>1, <3>1
      <4> DEFINE c == <<h>> \o s
      <4> HIDE DEF h, s
      <4>3. c \in Seq(Nat) /\ Len(c) = Len(s) + 1 /\ c[1] = h
            /\ \A i \in 1 .. Len(s) : c[i + 1] = s[i]
        BY <4>2, ByteBefore
      <4> HIDE DEF c
      <4>4. \A i \in 1 .. Len(u) : u[i] = c[i]
        <5> SUFFICES ASSUME NEW i \in 1 .. Len(u) PROVE u[i] = c[i]
          OBVIOUS
        <5>1. CASE i = 1
          BY <5>1, <4>2, <4>3
        <5>2. CASE i # 1
          <6>1. i - 1 \in 1 .. Len(s) /\ (i - 1) + 1 = i
            BY <5>2, <4>1
          <6>2. s[i - 1] = u[(i - 1) + 1] /\ c[(i - 1) + 1] = s[i - 1]
            BY <6>1, <4>1, <4>3
          <6> QED
            BY <6>1, <6>2
        <5> QED
          BY <5>1, <5>2
      <4>5. Len(u) = Len(c)
        BY <4>1, <4>2, <4>3
      <4>6. u = c
        BY <4>1, <4>3, <4>4, <4>5, SeqEqual
      <4> QED
        BY <4>6 DEF c
    <3> HIDE DEF h, s
    <3>3. d = <<h>> \o e
      <4>1. <<h>> \in Seq(Nat) /\ <<0>> \in Seq(Nat) /\ s \in Seq(Nat)
        BY <3>1, <1>1
      <4>2. Append(u, 0) = (<<h>> \o s) \o <<0>> /\ Append(s, 0) = s \o <<0>>
        BY <3>1, <3>2, <1>1
      <4>3. Append(u, 0) = <<h>> \o Append(s, 0)
        <5>1. (<<h>> \o s) \o <<0>> = <<h>> \o (s \o <<0>>)
          BY <4>1, Regrouped
        <5> QED
          BY <4>2, <5>1, Zenon
      <4>4. Append(s, 0) \in Seq(Nat)
        BY <3>1, <1>1
      <4>5. (<<h>> \o Append(s, 0)) \o r = <<h>> \o (Append(s, 0) \o r)
        <5>1. \A y \in Seq(Nat) : (<<h>> \o y) \o r = <<h>> \o (y \o r)
          BY <4>1, SMTT(30)
        <5> QED
          BY <5>1, <4>4, Zenon
      <4> QED
        BY <4>3, <4>5
    <3>4. Split(e) = <<s>> \o Split(r)
      <4>1. n - 1 \in S
        BY <3>1, <1>2
      <4> QED
        BY <4>1, <3>1
    <3>5. e \in Seq(Nat) /\ s \in Seq(Nat)
      BY <3>1, <1>1
    <3> HIDE DEF d, e
    <3>6. d # << >> /\ Head(d) = h /\ Tail(d) = e
      <4>1. h \in Nat
        BY <3>1
      <4>2. <<h>> \o e # << >> /\ Head(<<h>> \o e) = h /\ Tail(<<h>> \o e) = e
        BY <4>1, <3>5, Prepended
      <4> QED
        BY <3>3, <4>2
    <3>7. Head(Split(e)) = s /\ Tail(Split(e)) = Split(r)
      <4>1. Head(<<s>> \o Split(r)) = s /\ Tail(<<s>> \o Split(r)) = Split(r)
        BY <3>5, ByteBefore
      <4> QED
        BY <3>4, <4>1
    <3>8. Split(d) = << <<h>> \o s >> \o Split(r)
      BY <2>0, <3>1, <3>6, <3>7, SplitEquation
    <3> QED
      BY <3>2, <3>8 DEF d
  <2> QED
    BY <2>1, <2>2
<1> HIDE DEF S
<1>3. \A n \in Nat : n \in S
  BY <1>2, Induction
<1>4. Len(t) \in Nat
  BY DEF ZeroFree
<1> QED
  BY <1>1, <1>3, <1>4 DEF S

Terminated(v) == [i \in DOMAIN v |-> Append(v[i], 0)]

\* The bytes of one string more.
LEMMA TerminatedAppend ==
    ASSUME NEW v \in Seq(ZeroFree), NEW x \in ZeroFree
    PROVE  /\ Terminated(v) \in Seq(Seq(Nat))
           /\ FlattenSeq(Terminated(v)) \in Seq(Nat)
           /\ Append(x, 0) \in Seq(Nat)
           /\ FlattenSeq(Terminated(Append(v, x))) = FlattenSeq(Terminated(v)) \o Append(x, 0)
<1> DEFINE t == Terminated(v)
           n == Len(v)
           y == Append(x, 0)
           u == Terminated(Append(v, x))
<1>1. \A a \in ZeroFree : a \in Seq(Nat) /\ Append(a, 0) \in Seq(Nat)
  <2> SUFFICES ASSUME NEW a \in ZeroFree PROVE a \in Seq(Nat) /\ Append(a, 0) \in Seq(Nat)
    OBVIOUS
  <2>1. a \in Seq(Nat)
    BY DEF ZeroFree
  <2> QED
    BY <2>1, AppendProperties
<1>2. n \in Nat /\ DOMAIN v = 1 .. n /\ \A i \in 1 .. n : v[i] \in ZeroFree
  OBVIOUS
<1>3. t \in Seq(Seq(Nat)) /\ Len(t) = n /\ \A i \in 1 .. n : t[i] = Append(v[i], 0)
  BY <1>1, <1>2 DEF Terminated
<1> DEFINE a == Append(v, x)
<1>4. a \in Seq(ZeroFree) /\ Len(a) = n + 1 /\ DOMAIN a = 1 .. n + 1
      /\ (\A i \in 1 .. n : a[i] = v[i]) /\ a[n + 1] = x
  BY AppendProperties
<1> HIDE DEF a
<1>5. u = [i \in 1 .. n + 1 |-> Append(a[i], 0)]
  BY <1>4 DEF Terminated, a
<1>6. u \in Seq(Seq(Nat)) /\ Len(u) = n + 1 /\ \A i \in 1 .. n + 1 : u[i] = Append(a[i], 0)
  <2>1. \A i \in 1 .. n + 1 : Append(a[i], 0) \in Seq(Nat)
    BY <1>1, <1>4
  <2> HIDE DEF u
  <2> QED
    BY <1>2, <1>5, <2>1
<1> HIDE DEF t, u
<1>7. y \in Seq(Nat)
  BY <1>1
<1> HIDE DEF y
<1>8. u = Append(t, y)
  <2>1. /\ Append(t, y) \in Seq(Seq(Nat)) /\ Len(Append(t, y)) = n + 1
        /\ (\A i \in 1 .. n : Append(t, y)[i] = t[i]) /\ Append(t, y)[n + 1] = y
    BY <1>3, <1>7, AppendProperties
  <2>2. \A i \in 1 .. n + 1 : u[i] = Append(t, y)[i]
    <3> SUFFICES ASSUME NEW i \in 1 .. n + 1 PROVE u[i] = Append(t, y)[i]
      OBVIOUS
    <3>1. CASE i = n + 1
      BY <3>1, <2>1, <1>4, <1>6 DEF y
    <3>2. CASE i # n + 1
      <4>1. i \in 1 .. n
        BY <3>2, <1>2
      <4> QED
        BY <4>1, <2>1, <1>3, <1>4, <1>6
    <3> QED
      BY <3>1, <3>2
  <2> QED
    BY <2>1, <2>2, <1>6, SeqEqual
<1>9. FlattenSeq(t) \in Seq(Nat)
  BY <1>3, FlattenType
<1>10. FlattenSeq(u) = FlattenSeq(t) \o y
  BY <1>3, <1>7, <1>8, FlattenAppend
<1> QED
  BY <1>3, <1>7, <1>9, <1>10 DEF t, u, y

\* All of the strings.
LEMMA SplitTexts ==
    ASSUME NEW v \in Seq(ZeroFree), NEW r \in Seq(Nat), Split(r) \in Seq(Seq(Nat))
    PROVE  Split(FlattenSeq(Terminated(v)) \o r) = v \o Split(r)
<1> DEFINE S == {n \in Nat : \A w \in Seq(ZeroFree) : Len(w) = n =>
                   \A q \in Seq(Nat) : Split(q) \in Seq(Seq(Nat)) =>
                      Split(FlattenSeq(Terminated(w)) \o q) = w \o Split(q)}
<1>0. \A a \in Seq(ZeroFree) : a \in Seq(Seq(Nat))
  <2>1. ZeroFree \subseteq Seq(Nat)
    BY DEF ZeroFree
  <2> QED
    BY <2>1, SeqMonotonic
<1>1. ASSUME NEW n \in Nat, \A k \in 0 .. n - 1 : k \in S PROVE n \in S
  <2> SUFFICES ASSUME NEW w \in Seq(ZeroFree), Len(w) = n,
                      NEW q \in Seq(Nat), Split(q) \in Seq(Seq(Nat))
               PROVE  Split(FlattenSeq(Terminated(w)) \o q) = w \o Split(q)
    OBVIOUS
  <2>1. CASE w = << >>
    <3>1. Terminated(w) = << >>
      BY <2>1 DEF Terminated
    <3>2. << >> \in Seq(Seq(Nat))
      OBVIOUS
    <3>3. FlattenSeq(<< >>) = << >>
      BY <3>2, FlattenType
    <3>4. << >> \o q = q /\ << >> \o Split(q) = Split(q)
      BY ConcatEmptySeq
    <3> QED
      BY <2>1, <3>1, <3>3, <3>4
  <2>2. CASE w # << >>
    <3>1. PICK a \in Seq(ZeroFree), x \in ZeroFree : w = Append(a, x)
      BY <2>2, SequenceEmptyOrAppend
    <3> DEFINE f == FlattenSeq(Terminated(a))
               y == Append(x, 0)
    <3>2. f \in Seq(Nat) /\ y \in Seq(Nat) /\ FlattenSeq(Terminated(w)) = f \o y
      BY <3>1, TerminatedAppend
    <3>3. Split(y \o q) = <<x>> \o Split(q) /\ x \in Seq(Nat)
      BY SplitText
    <3>4. Len(a) = n - 1 /\ n - 1 \in 0 .. n - 1
      <4>1. Len(w) = Len(a) + 1 /\ Len(a) \in Nat
        BY <3>1, AppendProperties
      <4> QED
        BY <4>1
    <3>5. y \o q \in Seq(Nat)
      BY <3>2, Joined
    <3>6. <<x>> \o Split(q) \in Seq(Seq(Nat)) /\ <<x>> \in Seq(Seq(Nat))
      BY <3>3, ByteBefore
    <3>7. Split(f \o (y \o q)) = a \o (<<x>> \o Split(q))
      <4>1. n - 1 \in S
        BY <3>4, <1>1
      <4> QED
        BY <4>1, <3>3, <3>4, <3>5, <3>6
    <3> HIDE DEF f, y
    <3>8. (f \o y) \o q = f \o (y \o q)
      BY <3>2, Regrouped
    <3>9. a \o (<<x>> \o Split(q)) = (a \o <<x>>) \o Split(q)
      <4>1. a \in Seq(Seq(Nat))
        BY <1>0
      <4>2. <<x>> \in Seq(Seq(Nat))
        BY <3>6
      <4> QED
        BY <4>1, <4>2, StringsRegrouped
    <3>10. a \o <<x>> = w
      BY <3>1, AppendIsConcat
    <3> QED
      BY <3>2, <3>7, <3>8, <3>9, <3>10
  <2> QED
    BY <2>1, <2>2
<1> HIDE DEF S
<1>2. \A n \in Nat : n \in S
  BY <1>1, Induction
<1>3. Len(v) \in Nat
  OBVIOUS
<1> QED
  BY <1>2, <1>3 DEF S

\* Arrays of strings.
LEMMA StringsBack ==
    ASSUME NEW v \in Seq(ZeroFree)
    PROVE  Unpack(StringArray, Pack(StringArray, v)) = Ok(v)
<1> DEFINE data == FlattenSeq(Terminated(v))
<1>1. Pack(StringArray, v) = data
  BY DEF Pack, Terminated, BooleanArray, StringArray
<1> HIDE DEF data
<1>2. Unpack(StringArray, data) = UnpackStrings(data)
  BY DEF Unpack, BooleanArray, StringArray
<1>3. CASE v = << >>
  <2>1. Terminated(v) = << >> /\ << >> \in Seq(Seq(Nat))
    BY <1>3 DEF Terminated
  <2>2. data = << >>
    BY <2>1, FlattenType DEF data
  <2>3. UnpackStrings(data) = Ok(<< >>)
    BY <2>2 DEF UnpackStrings
  <2> QED
    BY <1>1, <1>2, <1>3, <2>3
<1>4. CASE v # << >>
  <2>1. PICK a \in Seq(ZeroFree), x \in ZeroFree : v = Append(a, x)
    BY <1>4, SequenceEmptyOrAppend
  <2> DEFINE f == FlattenSeq(Terminated(a))
             y == Append(x, 0)
  <2>2. f \in Seq(Nat) /\ y \in Seq(Nat) /\ data = f \o y
    BY <2>1, TerminatedAppend DEF data
  <2>3. Len(y) \in Nat \ {0} /\ y[Len(y)] = 0
    <3>1. x \in Seq(Nat) /\ 0 \in Nat
      BY DEF ZeroFree
    <3>2. Len(y) = Len(x) + 1 /\ y[Len(x) + 1] = 0 /\ Len(x) \in Nat
      BY <3>1, AppendProperties
    <3> QED
      BY <3>2
  <2> HIDE DEF f, y
  <2>4. data \in Seq(Nat) /\ Len(data) = Len(f) + Len(y) /\ data[Len(f) + Len(y)] = y[Len(y)]
    <3>1. Len(f) \in Nat
      BY <2>2
    <3>2. /\ f \o y \in Seq(Nat)
          /\ Len(f \o y) = Len(f) + Len(y)
          /\ \A i \in 1 .. Len(f) + Len(y) :
                (f \o y)[i] = IF i <= Len(f) THEN f[i] ELSE y[i - Len(f)]
      BY <2>2, Joined
    <3>3. Len(f) + Len(y) \in 1 .. Len(f) + Len(y) /\ ~(Len(f) + Len(y) <= Len(f))
          /\ (Len(f) + Len(y)) - Len(f) = Len(y)
      BY <2>3, <3>1
    <3> QED
      BY <2>2, <3>2, <3>3
  <2>5. Last(data) = 0 /\ data # << >>
    <3>1. Len(f) \in Nat
      BY <2>2
    <3>2. Len(data) # 0
      BY <2>3, <2>4, <3>1
    <3> QED
      BY <3>2, <2>3, <2>4 DEF Last
  <2>6. Split(data) = v \o << << >> >>
    <3>1. << >> \in Seq(Nat) /\ << << >> >> \in Seq(Seq(Nat))
      OBVIOUS
    <3>2. Split(<< >>) = << << >> >>
      BY <3>1, SplitEquation
    <3>3. Split(data \o << >>) = v \o << << >> >>
      BY <3>1, <3>2, SplitTexts DEF data
    <3>4. data \o << >> = data
      BY <2>4, ConcatEmptySeq
    <3> QED
      BY <3>3, <3>4
  <2>7. Front(v \o << << >> >>) = v
    <3> DEFINE w == v \o << << >> >>
               t == SubSeq(w, 1, Len(v))
    <3>1. v \in Seq(Seq(Nat)) /\ << << >> >> \in Seq(Seq(Nat)) /\ Len(<< << >> >>) = 1
      <4>1. ZeroFree \subseteq Seq(Nat)
        BY DEF ZeroFree
      <4>2. v \in Seq(Seq(Nat))
        BY <4>1, SeqMonotonic
      <4> QED
        BY <4>2
    <3>2. Len(w) = Len(v) + 1 /\ (\A i \in 1 .. Len(v) : w[i] = v[i]) /\ Len(v) \in Nat
      <4>1. /\ Len(w) = Len(v) + Len(<< << >> >>)
            /\ \A i \in 1 .. Len(v) + Len(<< << >> >>) :
                  w[i] = IF i <= Len(v) THEN v[i] ELSE << << >> >>[i - Len(v)]
        BY <3>1, ConcatProperties
      <4>2. Len(v) \in Nat
        BY <3>1
      <4> HIDE DEF w
      <4> QED
        BY <4>1, <4>2, <3>1
    <3>3. Front(w) = t
      <4>1. Len(w) - 1 = Len(v)
        BY <3>2
      <4> QED
        BY <4>1 DEF Front
    <3> HIDE DEF w
    <3>4. t \in Seq(Seq(Nat)) /\ Len(t) = Len(v) /\ \A i \in 1 .. Len(v) : t[i] = w[i]
      <4>1. \A i \in 1 .. Len(v) : w[i] \in Seq(Nat)
        BY <3>1, <3>2, ElementOfSeq
      <4>2. /\ t \in Seq(Seq(Nat))
            /\ Len(t) = IF 1 <= Len(v) THEN Len(v) - 1 + 1 ELSE 0
            /\ \A i \in 1 .. Len(v) - 1 + 1 : t[i] = w[1 + i - 1]
        BY <3>2, <4>1, SubSeqProperties
      <4> HIDE DEF t
      <4> QED
        BY <3>2, <4>2
    <3> HIDE DEF t
    <3>5. t = v
      BY <3>1, <3>2, <3>4, SeqEqual
    <3> QED
      BY <3>3, <3>5 DEF w
  <2>8. UnpackStrings(data) = Ok(v)
    BY <2>5, <2>6, <2>7 DEF UnpackStrings
  <2> QED
    BY <1>1, <1>2, <2>8
<1> QED
  BY <1>3, <1>4

\* As many bits as a u32 counts.
CountedBits == {v \in Seq(BOOLEAN) : Len(v) < Range2(4)}

\* The arrays of a type.
ArrayValues(type) ==
    CASE type = BooleanArray -> CountedBits
      [] type = StringArray -> Seq(ZeroFree)
      [] OTHER -> Seq(Numbers(ElementType(type)))

\* Arrays of every type come back from their bytes, whatever their length and their
\* elements, if no string has a zero byte (pack, unpack).
THEOREM ArrayRoundTrip ==
    \A type \in ArrayTypes : \A v \in ArrayValues(type) :
        Unpack(type, Pack(type, v)) = Ok(v)
<1> SUFFICES ASSUME NEW type \in ArrayTypes, NEW v \in ArrayValues(type)
             PROVE  Unpack(type, Pack(type, v)) = Ok(v)
  OBVIOUS
<1>1. CASE type = BooleanArray
  <2>1. v \in Seq(BOOLEAN) /\ Len(v) < Range2(4)
    <3>1. v \in CountedBits
      BY <1>1 DEF ArrayValues, BooleanArray, StringArray
    <3> QED
      BY <3>1 DEF CountedBits
  <2> QED
    BY <1>1, <2>1, BooleanBack
<1>2. CASE type = StringArray
  <2>1. v \in Seq(ZeroFree)
    BY <1>2 DEF ArrayValues, BooleanArray, StringArray
  <2> QED
    BY <1>2, <2>1, StringsBack
<1>3. CASE type \notin {BooleanArray, StringArray}
  <2>1. v \in Seq(Numbers(ElementType(type)))
    BY <1>3 DEF ArrayValues
  <2> QED
    BY <1>3, <2>1, NumericBack
<1> QED
  BY <1>1, <1>2, <1>3
==============================================================================
