-------------------------------- MODULE Wire --------------------------------
(***************************************************************************)
(* Numbers and arrays on the wire: what Writer, Reader and the array       *)
(* packing make of a value, and the way back.                              *)
(*                                                                         *)
(* A byte has ByteBits bits, so that every width is scaled alike: a u32    *)
(* has four bytes, a u64 eight, and a varint carries one bit less than a   *)
(* byte in each of its own.  Floats are bit patterns and strings are       *)
(* sequences of bytes that are valid UTF-8; the way back is taken of what  *)
(* the encoder writes, so nothing is truncated or overlong here.           *)
(***************************************************************************)
EXTENDS Integers, Sequences, SequencesExt

CONSTANTS ByteBits

\* DataType: the code of each type, as from_u32 and as_u32 know it.
DataTypes == 0 .. 34
Int8 == 1
Int16 == 2
Int32 == 3
Int64 == 4
UInt8 == 5
UInt64 == 8
Float == 9
Double == 10
Boolean == 11
Text == 14
DateTime == 13
File == 18
DataSet == 16
Template == 19
PropertySet == 20
PropertySetList == 21
BooleanArray == 32
StringArray == 33

IntTypes == {Int8, Int16, Int32, UInt8, 6, 7}
LongTypes == {Int64, UInt64, DateTime}
SignedTypes == {Int8, Int16, Int32, Int64, DateTime}
StringTypes == {12, Text, 15}
BytesTypes == {17, File}
ArrayTypes == 22 .. 34
BasicTypes == 1 .. 14

Ok(v) == [ok |-> TRUE, v |-> v]
Err(e) == [ok |-> FALSE, e |-> e]

\* The ? operator, and collect::<Result<Vec<_>>>.
AndThen(r, Op(_)) == IF r.ok THEN Op(r.v) ELSE r

Collect(rs) ==
    IF \E i \in DOMAIN rs : ~rs[i].ok
    THEN rs[CHOOSE i \in DOMAIN rs : ~rs[i].ok /\ \A j \in 1 .. i - 1 : rs[j].ok]
    ELSE Ok([i \in DOMAIN rs |-> rs[i].v])

-----------------------------------------------------------------------------
(* Integers of a width in bytes. *)

Power2(n) ==
    LET power[i \in Nat] == IF i = 0 THEN 1 ELSE 2 * power[i - 1]
    IN power[n]

Range2(width) == Power2(width * ByteBits)

\* `as u32`, `as i8` and the like.
AsUnsigned(v, width) == v % Range2(width)

AsSigned(v, width) ==
    LET u == AsUnsigned(v, width) IN
    IF 2 * u >= Range2(width) THEN u - Range2(width) ELSE u

WidthOf(type) ==
    CASE type \in {Int8, UInt8} -> 1
      [] type \in {Int16, 6} -> 2
      [] type \in {Int32, 7, Float} -> 4
      [] OTHER -> 8

\* The value of a type that a bit pattern stands for.
Narrow(type, u) ==
    IF type \in SignedTypes
    THEN AsSigned(u, WidthOf(type))
    ELSE AsUnsigned(u, WidthOf(type))

-----------------------------------------------------------------------------
(* Varints. *)

More == Power2(ByteBits - 1)   \* the continuation bit, 0x80

WriteVarint(v) ==
    LET written[n \in Nat] ==
            IF n < More THEN <<n>> ELSE <<(n % More) + More>> \o written[n \div More]
    IN written[v]

ReadVarint(bytes) ==
    LET read[s \in Seq(Nat)] ==
            IF s = << >> THEN 0 ELSE (Head(s) % More) + More * read[Tail(s)]
    IN read[bytes]

-----------------------------------------------------------------------------
(* Arrays: little-endian elements; a count and bits, most significant first; *)
(* strings that end in a zero byte.                                          *)

ElementType(array) == array - 21

Bytes(u, width) == [i \in 1 .. width |-> (u \div Range2(i - 1)) % Range2(1)]

FromBytes(bytes) ==
    LET sum[s \in Seq(Nat)] ==
            IF s = << >> THEN 0 ELSE Head(s) + Range2(1) * sum[Tail(s)]
    IN sum[bytes]

\* The place of the i-th of an array's bits: its byte, and 128 >> bit there; n bits
\* take ByteOf(n) bytes.
ByteOf(i) == 1 + ((i - 1) \div ByteBits)
Weight(i) == Power2(ByteBits - 1 - ((i - 1) % ByteBits))
IsSet(byte, weight) == (byte \div weight) % 2 = 1

\* The bytes after the first n bits, each `byte |= 128 >> bit'.
PackBits(v) ==
    LET packed[n \in 0 .. Len(v)] ==
            IF n = 0
            THEN [j \in 1 .. ByteOf(Len(v)) |-> 0]
            ELSE LET before == packed[n - 1] IN
                 IF v[n] THEN [before EXCEPT ![ByteOf(n)] = @ + Weight(n)] ELSE before
    IN packed[Len(v)]

Pack(type, v) ==
    CASE type = BooleanArray -> Bytes(AsUnsigned(Len(v), 4), 4) \o PackBits(v)
      [] type = StringArray -> FlattenSeq([i \in DOMAIN v |-> Append(v[i], 0)])
      [] OTHER ->
            LET width == WidthOf(ElementType(type)) IN
            FlattenSeq([i \in DOMAIN v |-> Bytes(AsUnsigned(v[i], width), width)])

UnpackNumeric(type, data) ==
    LET width == WidthOf(ElementType(type)) IN
    IF Len(data) % width # 0
    THEN Err("ArrayLength")
    ELSE Ok([i \in 1 .. Len(data) \div width |->
                Narrow(ElementType(type),
                       FromBytes(SubSeq(data, (i - 1) * width + 1, i * width)))])

\* Fault: the least significant bit first.
UnpackBool_LsbFirst(data) ==
    Ok([i \in 1 .. FromBytes(SubSeq(data, 1, 4)) |->
            IsSet(data[4 + ByteOf(i)], Power2((i - 1) % ByteBits))])

UnpackBool(data) ==
    LET count == FromBytes(SubSeq(data, 1, 4)) IN
    IF Len(data) < 4 \/ Len(data) < 4 + ByteOf(count)
    THEN Err("Truncated")
    ELSE Ok([i \in 1 .. count |-> IsSet(data[4 + ByteOf(i)], Weight(i))])

\* slice::split at the zero bytes.
Split(data) ==
    LET split[s \in Seq(Nat)] ==
            IF s = << >>
            THEN << << >> >>
            ELSE LET rest == split[Tail(s)] IN
                 IF Head(s) = 0
                 THEN << << >> >> \o rest
                 ELSE << <<Head(s)>> \o Head(rest) >> \o Tail(rest)
    IN split[data]

UnpackStrings(data) ==
    IF data = << >>
    THEN Ok(<< >>)
    ELSE Ok(IF Last(data) = 0 THEN Front(Split(data)) ELSE Split(data))

Unpack(type, data) ==
    CASE type = BooleanArray -> UnpackBool(data)
      [] type = StringArray -> UnpackStrings(data)
      [] OTHER -> UnpackNumeric(type, data)
=============================================================================
