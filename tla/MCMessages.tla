----------------------------- MODULE MCMessages -----------------------------
(***************************************************************************)
(* A message for TLC: its topic (Routing), its payload (Codec), the bytes  *)
(* of a payload's fields (Reader), and a payload in an envelope            *)
(* (Compression).  They share no state, so a behaviour takes up one of     *)
(* them.                                                                   *)
(*                                                                         *)
(* Payloads: every datatype with values at the edges of its width, null    *)
(* values, nesting up to and beyond the limit, and two metrics with one or *)
(* two names and aliases that are published by name or by alias.           *)
(*                                                                         *)
(* Topics: nodes of one name in two groups, a group called STATE, device   *)
(* and host ids that are tokens, host ids that are no identifiers, and     *)
(* foreign topics of up to six parts.                                      *)
(*                                                                         *)
(* Fields: one or two, cut at every byte, with the shortest, longest and   *)
(* overlong varints, empty contents and wire types of other schemas.       *)
(***************************************************************************)
EXTENDS Compression, Routing, Reader, TLC

Names == {<<1>>, <<2>>}

Edges(type) ==
    IF type \in SignedTypes
    THEN {-(Range2(WidthOf(type)) \div 2), -1, Range2(WidthOf(type)) \div 2 - 1}
    ELSE {0, Range2(WidthOf(type)) - 1}

Scalars(type) ==
    CASE type \in IntTypes \cup LongTypes -> Edges(type)
      [] type = Boolean -> BOOLEAN
      [] OTHER -> {<< >>, <<1, 2>>}

Arrays(type) ==
    CASE type = BooleanArray -> UNION {[1 .. n -> BOOLEAN] : n \in 0 .. 4}
      [] type = StringArray -> UNION {[1 .. n -> {<< >>, <<1>>, <<2, 3>>}] : n \in 0 .. 2}
      [] OTHER -> UNION {[1 .. n -> Edges(ElementType(type))] : n \in 0 .. 2}

NoMeta == [n \in 1 .. 8 |-> None]

DataSets ==
    {[columns |-> <<<<1>>, <<2>>>>, types |-> <<Int8, Text>>, rows |-> rows] :
        rows \in {<< >>, <<<<-1, None>>>>, <<<<None, None>>, <<3, << >>>>>>}}
    \cup {[columns |-> << >>, types |-> << >>, rows |-> <<<< >>>>]}

Plain(name, type, v) ==
    [name |-> name, alias |-> None, type |-> type, v |-> v, timestamp |-> None,
     is_historical |-> None, is_transient |-> None, metadata |-> None, properties |-> None]

Udt(metrics) ==
    [version |-> None, template_ref |-> <<1>>, is_definition |-> FALSE,
     metrics |-> metrics, parameters |-> << >>]

Definition ==
    [version |-> <<1>>, template_ref |-> None, is_definition |-> TRUE, metrics |-> << >>,
     parameters |-> <<[name |-> <<1>>, type |-> Int16, v |-> -1],
                      [name |-> <<2>>, type |-> Text, v |-> None]>>]

\* Templates in templates, and property sets in property sets and in lists.
RECURSIVE Udts(_), Sets(_)

Udts(n) ==
    IF n = 0
    THEN {Udt(<< >>), Definition}
    ELSE {Udt(<<Plain(name, Template, t)>>) : name \in {<<1>>, <<3>>}, t \in Udts(n - 1)}
            \cup {Udt(<<Plain(<<3>>, UInt8, 7), Plain(<<1>>, Int8, -1)>>),
                  Udt(<<Plain(<<2>>, UInt8, 7)>>)}

Sets(n) ==
    IF n = 0
    THEN {<< >>}
    ELSE {<<[key |-> <<1>>, value |-> [type |-> PropertySet, v |-> ps]],
            [key |-> <<2>>, value |-> [type |-> Int8, v |-> -4]]>> : ps \in Sets(n - 1)}
         \cup {<<[key |-> <<1>>, value |-> [type |-> PropertySetList, v |-> <<ps, << >>>>]],
                 [key |-> <<1>>, value |-> [type |-> PropertySet, v |-> None]]>> :
                    ps \in Sets(n - 1)}

Values(type) ==
    CASE type \in ArrayTypes -> Arrays(type)
      [] type = DataSet -> DataSets
      [] type = Template -> UNION {Udts(n) : n \in 0 .. 3}
      [] OTHER -> Scalars(type)

MetricTypes == DataTypes \ {0, PropertySet, PropertySetList}

Singles ==
    UNION {{Plain(<<1>>, type, v) : v \in Values(type) \cup {None}} : type \in MetricTypes}

\* The options around a value.
Dressed ==
    {[Plain(<<1>>, Int8, -4) EXCEPT
        !.timestamp = Range2(8) - 1, !.is_historical = h, !.is_transient = ~h,
        !.metadata = md, !.properties = ps] :
        h \in BOOLEAN,
        md \in {None, NoMeta, [NoMeta EXCEPT ![1] = 1, ![2] = << >>, ![4] = 9]},
        ps \in UNION {Sets(n) : n \in 0 .. 3} \cup {None}}

Payload(metrics, seq) ==
    [timestamp |-> None, metrics |-> metrics, seq |-> seq, uuid |-> None, body |-> None]

Pairs ==
    {<<[Plain(<<1>>, t1, None) EXCEPT !.alias = a1], [Plain(name, t2, None) EXCEPT !.alias = a2]>> :
        t1 \in {Int8, UInt8, Template}, t2 \in {Int8, Boolean}, name \in {<<1>>, <<2>>},
        a1 \in {None, 0}, a2 \in {0, 9}}

Bare == [Payload(<< >>, None) EXCEPT !.timestamp = 1, !.uuid = <<1>>, !.body = << >>]

MCBirths ==
    {Payload(<<m>>, 0) : m \in Singles \cup Dressed}
    \cup {Payload(ms, Range2(1) - 1) : ms \in Pairs}
    \cup {Bare}

\* By name, by alias, or both.
Keyed(m) ==
    {m} \cup (IF m.alias = None THEN {} ELSE {[m EXCEPT !.name = None], [m EXCEPT !.alias = None]})

Small(type) == IF type = Template THEN Udts(1) ELSE Scalars(type)

MCDataOf(birth) ==
    IF Len(birth.metrics) # 2
    THEN {}
    ELSE {Payload(<<[k1 EXCEPT !.v = v1], [k2 EXCEPT !.v = v2]>>, 1) :
            k1 \in Keyed(birth.metrics[1]), k2 \in Keyed(birth.metrics[2]),
            v1 \in Small(birth.metrics[1].type) \cup {None},
            v2 \in Small(birth.metrics[2].type)}
-----------------------------------------------------------------------------

MCParts == TypeTokens \cup {Namespace, "g", "k", "e", "d", "h", "", "+", "#"}
MCReserved == {"", "+", "#"}

MCNodes ==
    {[group |-> "g", edge |-> "e", devices |-> {"d", "e"}, primary_host_id |-> Absent],
     [group |-> "k", edge |-> "e", devices |-> {"d"}, primary_host_id |-> <<"h">>],
     [group |-> "g", edge |-> "k", devices |-> {}, primary_host_id |-> <<"NDATA", "e">>],
     [group |-> StateToken, edge |-> "e", devices |-> {"NCMD"}, primary_host_id |-> <<"+">>]}
MCHosts == {<<"h">>, <<"k">>, <<"NDATA", "e">>}
MCGivenIds ==
    {<<"g">>, <<"k">>, <<"e">>, <<"d">>, <<StateToken>>, <<"">>, <<"g", "e">>, <<"+">>}

Some == {Namespace, StateToken, "NDATA", "DDATA", "e", "", "+"}
MCForeign ==
    UNION {[1 .. n -> Some] : n \in 1 .. 3}
      \cup {<<Namespace>> \o text : text \in UNION {[1 .. n -> Some \ {Namespace}] : n \in 3 .. 5}}

WireField(n, wire, c) == [n |-> n, wire |-> wire, c |-> c]

\* The bytes of v, after k bytes that continue without saying anything: longer than
\* need be, or than 64 bits.
Varints ==
    {WriteVarint(v) : v \in {0, More, Range2(8) - 1}}
      \cup {[i \in 1 .. k |-> More] \o <<1>> : k \in {1, 11, 12}}

FieldsOf(n) ==
    {WireField(n, WireVarint, c) : c \in Varints}
      \cup {WireField(n, WireLen, c) : c \in {<< >>, <<7, 7, 7>>, <<7, 0, 1, 2, 3>>}}
      \cup {WireField(n, WireI32, <<7, 0, 7, 1>>),
            WireField(n, WireI64, <<7, 0, 7, 1, 1, 1, 1, 7>>)}

\* A group of protobuf, and a field number beyond 32 bits.
Others == {WireField(1, 3, << >>), WireField(Range2(4), WireLen, <<0>>)}

MCWritten ==
    {<<f>> : f \in FieldsOf(Range2(4) - 1)}
      \cup {<<f1, f2>> : f1 \in FieldsOf(1) \cup Others, f2 \in FieldsOf(2) \cup Others}
-----------------------------------------------------------------------------

MCSentinel == <<5, 5>>
MCAlgorithmName == <<6>>
MCGzip == <<7>>

\* Payloads that are read as births or as data, and births that have a metric called
\* as the envelope's, of the same type or not.
Named(type) == [Plain(MCAlgorithmName, type, None) EXCEPT !.alias = 9]
Inner ==
    {Payload(ms, 0) : ms \in Pairs}
      \cup {Payload(<<[Named(type) EXCEPT !.v = v]>>, 1) :
                type \in {StringType, Text}, v \in {None, << >>, MCGzip}}
      \cup {Payload(<<[Named(Int8) EXCEPT !.v = -1]>>, 1), Bare}

MCJobs ==
    {[payload |-> p, strip |-> FALSE, registry |-> None] : p \in Inner}
      \cup {[payload |-> p, strip |-> s, registry |-> BindBirth(p.metrics)] :
                p \in Inner, s \in BOOLEAN}
      \cup {[payload |-> Envelope(p, FALSE, algo), strip |-> FALSE, registry |-> None] :
                p \in Inner, algo \in Algorithms}
-----------------------------------------------------------------------------

MessagesInit == CodecInit /\ RoutingInit /\ ReaderInit /\ CompressionInit

Idle ==
    /\ payload = Bare
    /\ bytes = None
    /\ topic = Absent
    /\ sent = << >>
    /\ job = None
    /\ opened = None

MessagesNext ==
    \/ /\ bytes = None => payload # Bare \/ Idle
       /\ CodecNext
       /\ UNCHANGED <<routingVars, readerVars, compressionVars>>
    \/ /\ topic # Absent \/ Idle
       /\ RoutingNext
       /\ UNCHANGED <<codecVars, readerVars, compressionVars>>
    \/ /\ sent # << >> \/ Idle
       /\ ReaderNext
       /\ UNCHANGED <<codecVars, routingVars, compressionVars>>
    \/ /\ job # None \/ Idle
       /\ CompressionNext
       /\ UNCHANGED <<codecVars, routingVars, readerVars>>

MessagesSpec ==
    MessagesInit /\ [][MessagesNext]_<<codecVars, routingVars, readerVars, compressionVars>>
=============================================================================
