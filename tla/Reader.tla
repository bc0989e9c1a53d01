-------------------------------- MODULE Reader --------------------------------
(***************************************************************************)
(* Fields as bytes (wire.rs): what Writer writes of a sequence of fields,  *)
(* and how the loop of every decode function reads them back.  Each of its *)
(* arms, the one for unknown fields included, consumes what the wire type  *)
(* says, so how the bytes fall into fields does not depend on the message. *)
(*                                                                         *)
(* Codec takes a message for the sequence of its fields; this is why it    *)
(* may.  A field is its number and wire code with its content: the bytes   *)
(* of a varint or of a float, or the bytes that follow a length.           *)
(***************************************************************************)
EXTENDS Wire

CONSTANT Written        \* sequences of fields that an encoder may write

WireVarint == 0
WireI64 == 1
WireLen == 2
WireI32 == 5
SchemaWires == {WireVarint, WireI64, WireLen, WireI32}

\* A varint ends with the first byte that has no continuation bit.
IsVarint(c) == c # << >> /\ \A i \in DOMAIN c : c[i] < More <=> i = Len(c)

Fields == [n : Nat, wire : 0 .. 7, c : Seq(Nat)]

\* The content is what the wire code says, and tag and length are u64s.
IsField(f) ==
    /\ 8 * f.n + f.wire < Range2(8)
    /\ f.wire = WireVarint => IsVarint(f.c)
    /\ f.wire = WireI64 => Len(f.c) = 8
    /\ f.wire = WireI32 => Len(f.c) = 4
    /\ f.wire = WireLen => Len(f.c) < Range2(8)

ASSUME ReaderAssumption ==
    /\ ByteBits \in Nat \ {0, 1}
    /\ \A fields \in Written :
          fields \in Seq(Fields) /\ \A i \in DOMAIN fields : IsField(fields[i])

VARIABLES
    sent,               \* observer: the fields that were written
    stream,             \* what arrives of their bytes
    found               \* Reader.pos, the fields the loop has read so far, and its error

readerVars == <<sent, stream, found>>

-----------------------------------------------------------------------------
(* Writer. *)

Tag(f) == WriteVarint(8 * f.n + f.wire)

FieldBytes(f) ==
    Tag(f) \o (IF f.wire = WireLen THEN WriteVarint(Len(f.c)) ELSE << >>) \o f.c

Stream(fields) == FlattenSeq([i \in DOMAIN fields |-> FieldBytes(fields[i])])

-----------------------------------------------------------------------------
(* Reader.  A read takes the bytes from pos, counted from 0, and returns   *)
(* the content and the new pos.                                            *)

At(pos, c) == Ok([c |-> c, pos |-> pos])

\* `shift >= 64', with the shift after k bytes.
\* Fault: the last byte of the largest numbers is one too many.
TooLong_Early(k) == k * (ByteBits - 1) >= 7 * ByteBits
TooLong(k) == k * (ByteBits - 1) >= 8 * ByteBits

ReadVarintAt(buf, pos) ==
    LET ends == {i \in pos + 1 .. Len(buf) : buf[i] < More}
        end == Min(ends)
    IN CASE ends # {} /\ ~TooLong(end - pos - 1) -> At(end, SubSeq(buf, pos + 1, end))
         [] TooLong(Len(buf) - pos) /\ (ends = {} \/ TooLong(end - pos - 1)) ->
                Err("VarintOverflow")
         [] OTHER -> Err("Truncated")

\* read_fixed32, read_fixed64 and the slice of read_len_slice.
ReadSlice(buf, pos, len) ==
    IF pos + len > Len(buf) THEN Err("Truncated") ELSE At(pos + len, SubSeq(buf, pos + 1, pos + len))

ReadLenSlice(buf, pos) ==
    AndThen(ReadVarintAt(buf, pos), LAMBDA len : ReadSlice(buf, len.pos, ReadVarint(len.c)))

ReadTag(buf, pos) ==
    AndThen(ReadVarintAt(buf, pos), LAMBDA key :
        IF ReadVarint(key.c) \div 8 >= Range2(4)
        THEN Err("InvalidWireType")
        ELSE At(key.pos, ReadVarint(key.c)))

\* skip, and the arms of known fields.
ReadContent(buf, pos, wire) ==
    CASE wire = WireVarint -> ReadVarintAt(buf, pos)
      [] wire = WireI64 -> ReadSlice(buf, pos, 8)
      [] wire = WireLen -> ReadLenSlice(buf, pos)
      [] wire = WireI32 -> ReadSlice(buf, pos, 4)
      [] OTHER -> Err("InvalidWireType")

ReadField(buf, pos) ==
    AndThen(ReadTag(buf, pos), LAMBDA tag :
    AndThen(ReadContent(buf, tag.pos, tag.c % 8), LAMBDA content :
        At(content.pos, [n |-> tag.c \div 8, wire |-> tag.c % 8, c |-> content.c])))

-----------------------------------------------------------------------------

ReaderInit ==
    /\ sent = << >>
    /\ stream = << >>
    /\ found = [pos |-> 0, fields |-> << >>, error |-> "none"]

\* The bytes arrive, or only the first n of them.
Send(fields, n) ==
    /\ sent = << >>
    /\ sent' = fields
    /\ stream' = SubSeq(Stream(fields), 1, n)
    /\ UNCHANGED found

\* is_empty, or a `?' that left the loop.
Finished == found.error # "none" \/ found.pos >= Len(stream)

\* One turn of `while !r.is_empty()'.
Read ==
    /\ ~Finished
    /\ LET next == ReadField(stream, found.pos) IN
       found' = IF next.ok
                THEN [found EXCEPT !.pos = next.v.pos, !.fields = Append(@, next.v.c)]
                ELSE [found EXCEPT !.error = next.e]
    /\ UNCHANGED <<sent, stream>>

ReaderNext ==
    \/ \E fields \in Written : \E n \in 0 .. Len(Stream(fields)) : Send(fields, n)
    \/ Read

ReaderSpec == ReaderInit /\ [][ReaderNext]_readerVars
-----------------------------------------------------------------------------
(* Properties. *)

\* What the reader takes: these wire types, 32 bits of field number, and varints
\* that may be longer than need be, but not than 64 bits take.
Bits64(k) == k * (ByteBits - 1) < 8 * ByteBits
Overlong(f) == f.wire = WireVarint /\ ~Bits64(Len(f.c) - 1)
InSchema(f) == f.wire \in SchemaWires /\ f.n < Range2(4)

\* The first n fields arrived whole, and the reader can read them.
Whole(n) ==
    /\ Len(Stream(SubSeq(sent, 1, n))) <= Len(stream)
    /\ \A i \in 1 .. n : InSchema(sent[i]) /\ ~Overlong(sent[i])

Arrived == SubSeq(sent, 1, Max({n \in 0 .. Len(sent) : Whole(n)}))

\* No byte is taken for a part of another field: whatever is cut off, and whatever
\* fields of other schemas are among them, the reader finds the fields up to the
\* cut as they were written, reports a cut inside a field, and gives up at a field
\* whose end it can not know (Reader, Writer).
FieldsAsWritten ==
    sent # << >> /\ Finished =>
        LET rest == SubSeq(stream, Len(Stream(Arrived)) + 1, Len(stream))
            next == sent[Len(Arrived) + 1]
        IN /\ found.fields = Arrived
           /\ found.error =
                CASE rest = << >> -> "none"
                  [] rest # << >> /\ ~InSchema(next) /\ Len(rest) >= Len(Tag(next)) ->
                        "InvalidWireType"
                  [] rest # << >> /\ InSchema(next) /\ Overlong(next)
                        /\ ~Bits64(Len(rest) - Len(Tag(next))) ->
                        "VarintOverflow"
                  [] OTHER -> "Truncated"
=============================================================================
