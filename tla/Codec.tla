------------------------------- MODULE Codec -------------------------------
(***************************************************************************)
(* A payload goes out and comes in: what the encoder writes of it, field   *)
(* by field, and what the decoder makes of the fields, first for a birth   *)
(* and then for data whose datatypes are left to the registry that the     *)
(* birth filled.                                                           *)
(*                                                                         *)
(* A message is a sequence of fields; a field is its number and wire type  *)
(* with its content: bytes, a varint, or a message.  The decoder is given  *)
(* what this encoder writes: truncated bytes, unknown fields and packed    *)
(* column types of other encoders are left out.  An absent option is None. *)
(*                                                                         *)
(* Bound: MaxDepth stands for MAX_DEPTH.                                   *)
(***************************************************************************)
EXTENDS Wire, AliasRegistry

CONSTANTS
    MaxDepth,      \* nesting after which the decoder gives up
    Births,        \* payloads of births
    DataOf(_)      \* payloads of data under a birth: metric i is the birth's metric i

ASSUME CodecAssumption == ByteBits \in Nat \ {0, 1} /\ MaxDepth \in Nat

VARIABLES
    payload,       \* what the application gives to encode
    strip,         \* EncodeOptions.strip_datatypes
    registry,      \* what the receiver has bound, and gives to decode with data
    listed,        \* observer: name, alias and type of the birth's metrics
    bytes,         \* the message between them, or None
    outcome        \* what decode returned, or None

codecVars == <<payload, strip, registry, listed, bytes, outcome>>

-----------------------------------------------------------------------------
(* Fields. *)

Field(n, wire, c) == <<[key |-> <<n, wire>>, c |-> c]>>
Uint(n, v) == Field(n, "varint", WriteVarint(v))
LenField(n, c) == Field(n, "len", c)

IfSome(v, F(_)) == IF v = None THEN << >> ELSE F(v)
ForEach(s, F(_)) == FlattenSeq([i \in DOMAIN s |-> F(s[i])])

Flag(b) == IF b THEN 1 ELSE 0

\* Option::map
Option(v, F(_)) == IF v = None THEN None ELSE F(v)

\* All contents under a key, in order, and the last of them.
GetAll(m, n, wire) ==
    LET fs == SelectSeq(m, LAMBDA f : f.key = <<n, wire>>) IN
    [i \in DOMAIN fs |-> fs[i].c]
Get(m, n, wire) ==
    LET cs == GetAll(m, n, wire) IN IF cs = << >> THEN None ELSE Last(cs)
GetUint(m, n) == Option(Get(m, n, "varint"), ReadVarint)
GetFlag(m, n) == Option(GetUint(m, n), LAMBDA u : u # 0)

-----------------------------------------------------------------------------
(* The value of a type, in the oneof slot of its family.                   *)

\* The slots follow each other in metrics (from field 10), properties and
\* parameters (from 3) and cells (from 1).
ScalarSlot(type) ==
    CASE type \in IntTypes -> 0
      [] type \in LongTypes -> 1
      [] type = Float -> 2
      [] type = Double -> 3
      [] type = Boolean -> 4
      [] type \in StringTypes -> 5

SlotWire(slot) == <<"varint", "varint", "i32", "i64", "varint", "len">>[slot + 1]

ScalarField(base, type, v) ==
    Field(base + ScalarSlot(type), SlotWire(ScalarSlot(type)),
          CASE type \in IntTypes -> WriteVarint(AsUnsigned(v, 4))
            [] type \in LongTypes -> WriteVarint(AsUnsigned(v, 8))
            [] type = Boolean -> WriteVarint(Flag(v))
            [] OTHER -> v)

ScalarValue(base, type, m) ==
    LET c == Get(m, base + ScalarSlot(type), SlotWire(ScalarSlot(type))) IN
    IF c = None
    THEN Err("ValueTypeMismatch")
    ELSE Ok(CASE type \in IntTypes -> Narrow(type, AsUnsigned(ReadVarint(c), 4))
              [] type \in LongTypes -> Narrow(type, ReadVarint(c))
              [] type = Boolean -> ReadVarint(c) # 0
              [] OTHER -> c)

HasScalar(base, m) ==
    \E slot \in 0 .. 5 : Get(m, base + slot, SlotWire(slot)) # None

-----------------------------------------------------------------------------
(* encode *)

\* The eight options of MetaData; is_multi_part, the first, is 0 or 1.
MetaWire == <<"varint", "len", "varint", "varint", "len", "len", "len", "len">>

EncodeMetadata(md) ==
    ForEach([n \in 1 .. 8 |-> n],
            LAMBDA n : IfSome(md[n], LAMBDA v :
                IF MetaWire[n] = "varint" THEN Uint(n, v) ELSE LenField(n, v)))

RECURSIVE EncodePropertySet(_)

EncodePropertyValue(p) ==
    Uint(1, p.type) \o
    (CASE p.v = None -> Uint(2, 1)
       [] p.v # None /\ p.type = PropertySet -> LenField(9, EncodePropertySet(p.v))
       [] p.v # None /\ p.type = PropertySetList ->
             LenField(10, ForEach(p.v, LAMBDA ps : LenField(1, EncodePropertySet(ps))))
       [] OTHER -> ScalarField(3, p.type, p.v))

\* Two parallel lists: the keys, then the values.
EncodePropertySet(ps) ==
    ForEach(ps, LAMBDA e : LenField(1, e.key))
        \o ForEach(ps, LAMBDA e : LenField(2, EncodePropertyValue(e.value)))

EncodeCell(type, cell) == IfSome(cell, LAMBDA v : ScalarField(1, type, v))

EncodeDataSet(ds) ==
    Uint(1, Len(ds.columns))
        \o ForEach(ds.columns, LAMBDA name : LenField(2, name))
        \o ForEach(ds.types, LAMBDA type : Uint(3, type))
        \o ForEach(ds.rows, LAMBDA row :
              LenField(4, FlattenSeq([i \in DOMAIN row |->
                                    LenField(1, EncodeCell(ds.types[i], row[i]))])))

EncodeParameter(p) ==
    LenField(1, p.name) \o Uint(2, p.type)
        \o IfSome(p.v, LAMBDA v : ScalarField(3, p.type, v))

RECURSIVE EncodeTemplate(_, _)

EncodeMetricValue(type, v, stripped) ==
    CASE type \in BytesTypes -> LenField(16, v)
      [] type \in ArrayTypes -> LenField(16, Pack(type, v))
      [] type = DataSet -> LenField(17, EncodeDataSet(v))
      [] type = Template -> LenField(18, EncodeTemplate(v, stripped))
      [] OTHER -> ScalarField(10, type, v)

EncodeMetric(m, stripped) ==
    IfSome(m.name, LAMBDA v : LenField(1, v))
        \o IfSome(m.alias, LAMBDA v : Uint(2, v))
        \o IfSome(m.timestamp, LAMBDA v : Uint(3, v))
        \o (IF stripped THEN << >> ELSE Uint(4, m.type))
        \o IfSome(m.is_historical, LAMBDA v : Uint(5, Flag(v)))
        \o IfSome(m.is_transient, LAMBDA v : Uint(6, Flag(v)))
        \o (IF m.v = None THEN Uint(7, 1) ELSE << >>)
        \o IfSome(m.metadata, LAMBDA v : LenField(8, EncodeMetadata(v)))
        \o IfSome(m.properties, LAMBDA v : LenField(9, EncodePropertySet(v)))
        \o IfSome(m.v, LAMBDA v : EncodeMetricValue(m.type, v, stripped))

EncodeTemplate(t, stripped) ==
    IfSome(t.version, LAMBDA v : LenField(1, v))
        \o ForEach(t.metrics, LAMBDA m : LenField(2, EncodeMetric(m, stripped)))
        \o ForEach(t.parameters, LAMBDA p : LenField(3, EncodeParameter(p)))
        \o IfSome(t.template_ref, LAMBDA v : LenField(4, v))
        \o Uint(5, Flag(t.is_definition))

EncodePayload(p, stripped) ==
    IfSome(p.timestamp, LAMBDA v : Uint(1, v))
        \o ForEach(p.metrics, LAMBDA m : LenField(2, EncodeMetric(m, stripped)))
        \o IfSome(p.seq, LAMBDA v : Uint(3, v))
        \o IfSome(p.uuid, LAMBDA v : LenField(4, v))
        \o IfSome(p.body, LAMBDA v : LenField(5, v))

-----------------------------------------------------------------------------
(* decode.  Where two fields of a message are in error, which of them is   *)
(* reported follows the order in which the encoder writes them.            *)

TooDeep(depth) == depth > MaxDepth

\* DataType::from_u32 of a type field that must be there.
TypeCode(m, n) ==
    LET code == GetUint(m, n) IN
    CASE code = None -> Err("ValueTypeMismatch")
      [] code \in DataTypes -> Ok(code)
      [] OTHER -> Err("UnknownDataType")

DecodeMetadata(m) ==
    [n \in 1 .. 8 |-> IF MetaWire[n] = "varint" THEN GetUint(m, n) ELSE Get(m, n, "len")]

RECURSIVE DecodePropertySet(_, _)

DecodePropertySetList(m, depth) ==
    IF TooDeep(depth)
    THEN Err("RecursionLimit")
    ELSE LET sets == GetAll(m, 1, "len") IN
         Collect([i \in DOMAIN sets |-> DecodePropertySet(sets[i], depth + 1)])

DecodePropertyValue(m, depth) ==
    LET Nested(n, type, Decode(_, _)) ==
            LET c == Get(m, n, "len") IN
            IF c = None
            THEN Err("ValueTypeMismatch")
            ELSE AndThen(Decode(c, depth + 1), LAMBDA v : Ok([type |-> type, v |-> v]))
        Typed(type) ==
            CASE GetFlag(m, 2) = TRUE -> Ok([type |-> type, v |-> None])
              [] type = PropertySet -> Nested(9, type, DecodePropertySet)
              [] type = PropertySetList -> Nested(10, type, DecodePropertySetList)
              [] type \in BasicTypes ->
                    AndThen(ScalarValue(3, type, m), LAMBDA v : Ok([type |-> type, v |-> v]))
              [] OTHER -> Err("ValueTypeMismatch")
    IN IF TooDeep(depth) THEN Err("RecursionLimit") ELSE AndThen(TypeCode(m, 1), Typed)

DecodePropertySet(m, depth) ==
    LET keys == GetAll(m, 1, "len")
        values == GetAll(m, 2, "len")
        decoded == Collect([i \in DOMAIN values |-> DecodePropertyValue(values[i], depth + 1)])
        Zipped(vs) ==
            IF Len(keys) # Len(vs)
            THEN Err("ValueTypeMismatch")
            ELSE Ok([i \in DOMAIN keys |-> [key |-> keys[i], value |-> vs[i]]])
    IN IF TooDeep(depth) THEN Err("RecursionLimit") ELSE AndThen(decoded, Zipped)

DecodeCell(type, m) == IF HasScalar(1, m) THEN ScalarValue(1, type, m) ELSE Ok(None)

DecodeRow(column_types, m) ==
    LET cells == GetAll(m, 1, "len") IN
    Collect([i \in DOMAIN cells |->
        IF i > Len(column_types)
        THEN Err("DataSetShape")
        ELSE DecodeCell(column_types[i], cells[i])])

\* DataSet::new; decoded cells have the type of their column.
NewDataSet(columns, column_types, rows) ==
    IF /\ Len(columns) = Len(column_types)
       /\ \A i \in DOMAIN column_types : column_types[i] \in BasicTypes
       /\ \A i \in DOMAIN rows : Len(rows[i]) = Len(columns)
    THEN Ok([columns |-> columns, types |-> column_types, rows |-> rows])
    ELSE Err("DataSetShape")

DecodeDataSet(m) ==
    LET codes == GetAll(m, 3, "varint")
        rows == GetAll(m, 4, "len")
        column_types == [i \in DOMAIN codes |-> ReadVarint(codes[i])]
    IN IF \E i \in DOMAIN codes : column_types[i] \notin DataTypes
       THEN Err("UnknownDataType")
       ELSE AndThen(Collect([i \in DOMAIN rows |-> DecodeRow(column_types, rows[i])]),
                    LAMBDA rs : NewDataSet(GetAll(m, 2, "len"), column_types, rs))

\* A parameter may have no value.
DecodeParameter(m) ==
    LET Named(type, v) == [name |-> Get(m, 1, "len"), type |-> type, v |-> v]
        Typed(type) ==
            CASE ~HasScalar(3, m) -> Ok(Named(type, None))
              [] HasScalar(3, m) /\ type \in BasicTypes ->
                    AndThen(ScalarValue(3, type, m), LAMBDA v : Ok(Named(type, v)))
              [] OTHER -> Err("ValueTypeMismatch")
    IN IF Get(m, 1, "len") = None THEN Err("ValueTypeMismatch") ELSE AndThen(TypeCode(m, 2), Typed)

\* Fault: the datatypes of aliases are not kept.
RecoverDataType_NamesOnly(reg, name, alias) ==
    IF reg # None /\ name # None /\ DatatypeForName(reg, name) # None
    THEN Ok(DatatypeForName(reg, name))
    ELSE Err("MissingDataType")

RecoverDataType(reg, name, alias) ==
    LET type == CASE reg = None -> None
                  [] reg # None /\ name # None -> DatatypeForName(reg, name)
                  [] OTHER -> DatatypeForAlias(reg, alias)
    IN IF type = None THEN Err("MissingDataType") ELSE Ok(type)

RECURSIVE DecodeTemplate(_, _, _)

BuildMetricValue(type, m, reg, depth) ==
    LET Slot(n, Decode(_)) ==
            LET c == Get(m, n, "len") IN
            IF c = None THEN Err("ValueTypeMismatch") ELSE Decode(c)
    IN CASE type \in BytesTypes -> Slot(16, Ok)
         [] type \in ArrayTypes -> Slot(16, LAMBDA c : Unpack(type, c))
         [] type = DataSet -> Slot(17, DecodeDataSet)
         [] type = Template -> Slot(18, LAMBDA c : DecodeTemplate(c, reg, depth + 1))
         [] type \in BasicTypes \cup StringTypes -> ScalarValue(10, type, m)
         [] OTHER -> Err("ValueTypeMismatch")

DecodeMetric(m, reg, depth) ==
    LET name == Get(m, 1, "len")
        alias == GetUint(m, 2)
        properties == LET c == Get(m, 9, "len") IN
                      IF c = None THEN Ok(None) ELSE DecodePropertySet(c, depth + 1)
        type == IF Get(m, 4, "varint") # None
                THEN TypeCode(m, 4)
                ELSE RecoverDataType(reg, name, alias)
        Value(ty) == IF GetFlag(m, 7) = TRUE THEN Ok(None) ELSE BuildMetricValue(ty, m, reg, depth)
        Metric(ty, v, ps) ==
            [name |-> name, alias |-> alias, type |-> ty, v |-> v,
             timestamp |-> GetUint(m, 3),
             is_historical |-> GetFlag(m, 5), is_transient |-> GetFlag(m, 6),
             metadata |-> Option(Get(m, 8, "len"), DecodeMetadata),
             properties |-> ps]
    IN IF TooDeep(depth)
       THEN Err("RecursionLimit")
       ELSE AndThen(properties, LAMBDA ps :
            AndThen(type, LAMBDA ty :
            AndThen(Value(ty), LAMBDA v : Ok(Metric(ty, v, ps)))))

DecodeMetrics(ms, reg, depth) ==
    Collect([i \in DOMAIN ms |-> DecodeMetric(ms[i], reg, depth)])

\* Fault: a template is not counted.
DecodeTemplate_Uncounted(m, reg, depth) ==
    LET parameters == GetAll(m, 3, "len") IN
    AndThen(DecodeMetrics(GetAll(m, 2, "len"), reg, depth - 1), LAMBDA ms :
    AndThen(Collect([i \in DOMAIN parameters |-> DecodeParameter(parameters[i])]), LAMBDA ps :
        Ok([version |-> Get(m, 1, "len"), template_ref |-> Get(m, 4, "len"),
            is_definition |-> (GetFlag(m, 5) = TRUE),
            metrics |-> ms, parameters |-> ps])))

DecodeTemplate(m, reg, depth) ==
    LET parameters == GetAll(m, 3, "len") IN
    IF TooDeep(depth)
    THEN Err("RecursionLimit")
    ELSE AndThen(DecodeMetrics(GetAll(m, 2, "len"), reg, depth + 1), LAMBDA ms :
         AndThen(Collect([i \in DOMAIN parameters |-> DecodeParameter(parameters[i])]), LAMBDA ps :
            Ok([version |-> Get(m, 1, "len"), template_ref |-> Get(m, 4, "len"),
                is_definition |-> (GetFlag(m, 5) = TRUE),
                metrics |-> ms, parameters |-> ps])))

DecodePayload(m, reg) ==
    AndThen(DecodeMetrics(GetAll(m, 2, "len"), reg, 0), LAMBDA ms :
        Ok([timestamp |-> GetUint(m, 1),
            metrics |-> ms,
            seq |-> Option(GetUint(m, 3), LAMBDA u : AsUnsigned(u, 1)),
            uuid |-> Get(m, 4, "len"),
            body |-> Get(m, 5, "len")]))

-----------------------------------------------------------------------------
(* A birth goes out; the receiver binds its metrics and then reads data.   *)

CodecInit ==
    /\ payload \in Births
    /\ strip = FALSE
    /\ registry = None
    /\ listed = << >>
    /\ bytes = None
    /\ outcome = None

Encode ==
    /\ bytes = None
    /\ bytes' = EncodePayload(payload, strip)
    /\ UNCHANGED <<payload, strip, registry, listed, outcome>>

\* A host completes the names of what it reads.
Decode ==
    /\ bytes # None
    /\ outcome = None
    /\ LET read == DecodePayload(bytes, registry) IN
       outcome' = IF strip
                  THEN AndThen(read, LAMBDA p :
                            Ok([p EXCEPT !.metrics = ResolveNames(registry, @)]))
                  ELSE read
    /\ UNCHANGED <<payload, strip, registry, listed, bytes>>

\* The receiver has bound the birth, unless it refuses an alias of it, and data
\* of the birth's metrics follows, each under its name, its alias, or both.
PublishData ==
    /\ outcome # None
    /\ outcome.ok
    /\ ~strip
    /\ ~DuplicateAlias(outcome.v.metrics)
    /\ payload' \in DataOf(payload)
    /\ strip' = TRUE
    /\ registry' = BindBirth(outcome.v.metrics)
    /\ listed' = [i \in DOMAIN payload.metrics |->
                    LET m == payload.metrics[i] IN
                    [name |-> m.name, alias |-> m.alias, type |-> m.type]]
    /\ bytes' = None
    /\ outcome' = None

CodecNext == Encode \/ Decode \/ PublishData

CodecSpec == CodecInit /\ [][CodecNext]_codecVars
-----------------------------------------------------------------------------
(* Properties. *)

\* How deep a payload nests: a template, a member, a property set, a property
\* and a list of sets count one each.
Deepest(S) == Max({0} \cup S)

RECURSIVE SetLevels(_), TemplateLevels(_), Members(_)

SetLevels(ps) ==
    LET Levels(p) ==
            CASE p.v = None -> 0
              [] p.v # None /\ p.type = PropertySet -> SetLevels(p.v)
              [] p.v # None /\ p.type = PropertySetList ->
                    1 + Deepest({SetLevels(p.v[i]) : i \in DOMAIN p.v})
              [] OTHER -> 0
    IN 1 + Deepest({1 + Levels(ps[i].value) : i \in DOMAIN ps})

IsTemplate(m) == m.type = Template /\ m.v # None

MetricLevels(m) ==
    Deepest((IF m.properties = None THEN {} ELSE {SetLevels(m.properties)})
                \cup (IF IsTemplate(m) THEN {TemplateLevels(m.v)} ELSE {}))

TemplateLevels(t) == 1 + Deepest({1 + MetricLevels(t.metrics[i]) : i \in DOMAIN t.metrics})

Nesting(p) == Deepest({MetricLevels(p.metrics[i]) : i \in DOMAIN p.metrics})

\* The member metrics of all templates among metrics.
Members(metrics) ==
    UNION {ToSet(metrics[i].v.metrics) \cup Members(metrics[i].v.metrics) :
                i \in {j \in DOMAIN metrics : IsTemplate(metrics[j])}}

\* A receiver reads of a birth what was sent, with every type, width and order:
\* the decoder inverts the encoder (encode_payload, decode_payload).
BirthRoundTrip ==
    outcome # None /\ ~strip /\ Nesting(payload) <= MaxDepth => outcome = Ok(payload)

\* The encoder nests without limit; the decoder refuses exactly what is deeper
\* than its limit, however templates and property sets are mixed (MAX_DEPTH).
DepthLimit ==
    outcome # None /\ ~strip =>
        (outcome = Err("RecursionLimit") <=> Nesting(payload) > MaxDepth)

\* The key that data metric i goes out with, the name before the alias, also stands
\* for another metric of the birth, one of another type.
Ambiguous(i) ==
    LET m == payload.metrics[i] IN
    \E j \in DOMAIN listed :
        /\ listed[j].type # listed[i].type
        /\ IF m.name # None THEN listed[j].name = m.name ELSE listed[j].alias = m.alias

\* Data is read as the birth listed it: without datatypes, and by name or by alias,
\* every metric comes back with the name and the type of its birth.  Members of
\* templates are not in the registry: they make the payload unreadable, and never
\* another one as long as none is called like a metric of the birth (try_bind,
\* recover_datatype, decode_template, resolve_names).
DataReadAsBorn ==
    LET meant == [payload EXCEPT !.metrics =
                    [i \in DOMAIN @ |-> [@[i] EXCEPT !.name = listed[i].name]]]
    IN outcome # None /\ strip /\ Nesting(payload) <= MaxDepth =>
        \/ outcome = Ok(meant)
        \/ \E i \in DOMAIN payload.metrics : Ambiguous(i)
        \/ /\ Members(payload.metrics) # {}
           /\ \/ outcome = Err("MissingDataType")
              \/ \E m \in Members(payload.metrics) :
                    \/ m.name \in DOMAIN registry.dt_by_name
                    \/ m.alias \in DOMAIN registry.dt_by_alias
=============================================================================
