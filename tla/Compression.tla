----------------------------- MODULE Compression -----------------------------
(***************************************************************************)
(* The compression envelope (compress.rs): a payload whose body is the     *)
(* compressed bytes of another one.  A metric called `algorithm' tells     *)
(* GZIP from DEFLATE, and travels like every metric: with its datatype, or *)
(* without it when the envelope is encoded as data.                        *)
(*                                                                         *)
(* Compressed bytes are opaque: which algorithm made them, and of what.    *)
(***************************************************************************)
EXTENDS Codec

CONSTANTS
    Sentinel,          \* COMPRESSED_PAYLOAD_UUID
    AlgorithmName,     \* "algorithm"
    Gzip,              \* "GZIP", in any case
    Jobs               \* payload, strip and registry of what is sent compressed

VARIABLES
    job,               \* observer: the payload that was wrapped, with its options
    carried,           \* bytes of the envelope
    opened             \* what decode and decompress returned

compressionVars == <<job, carried, opened>>

Algorithms == {"Deflate", "Gzip"}
StringType == 12

AlgorithmMetric ==
    [name |-> AlgorithmName, alias |-> None, type |-> StringType, v |-> Gzip, timestamp |-> None,
     is_historical |-> None, is_transient |-> None, metadata |-> None, properties |-> None]

\* compress
Envelope(p, stripped, algo) ==
    [timestamp |-> None,
     metrics |-> IF algo = "Gzip" THEN <<AlgorithmMetric>> ELSE << >>,
     seq |-> p.seq,
     uuid |-> Sentinel,
     body |-> <<algo, EncodePayload(p, stripped)>>]

\* Fault: a metric called `algorithm' means GZIP, whatever it says.
Names_Unread(m) == m.name = AlgorithmName

NamesGzip(m) == m.name = AlgorithmName /\ m.type = StringType /\ m.v = Gzip

Chosen(e) == IF \E i \in DOMAIN e.metrics : NamesGzip(e.metrics[i]) THEN "Gzip" ELSE "Deflate"

\* decompress
Opened(e, reg) ==
    CASE e.uuid # Sentinel \/ e.body = None -> Err("ValueTypeMismatch")
      [] e.uuid = Sentinel /\ e.body # None /\ e.body[1] # Chosen(e) -> Err("Io")
      [] OTHER -> DecodePayload(e.body[2], reg)

-----------------------------------------------------------------------------

CompressionInit == job = None /\ carried = None /\ opened = None

\* The envelope is a payload like others: it may be encoded as a birth or as data.
Wrap(j, algo, outer) ==
    /\ job = None
    /\ opened = None
    /\ job' = [payload |-> j.payload, strip |-> j.strip, registry |-> j.registry,
               algo |-> algo, outer |-> outer]
    /\ carried' = EncodePayload(Envelope(j.payload, j.strip, algo), outer)
    /\ UNCHANGED opened

\* A payload that is no envelope is taken for one.
Mistake(p) ==
    /\ p.uuid # Sentinel
    /\ job = None
    /\ opened = None
    /\ opened' = Opened(p, None)
    /\ UNCHANGED <<job, carried>>

Unwrap ==
    /\ carried # None
    /\ opened = None
    /\ opened' = AndThen(DecodePayload(carried, job.registry),
                         LAMBDA e : Opened(e, job.registry))
    /\ UNCHANGED <<job, carried>>

CompressionNext ==
    \/ \E j \in Jobs :
          \/ Mistake(j.payload)
          \/ \E algo \in Algorithms, outer \in BOOLEAN : Wrap(j, algo, outer)
    \/ Unwrap

CompressionSpec == CompressionInit /\ [][CompressionNext]_compressionVars
-----------------------------------------------------------------------------
(* Properties. *)

\* What comes out of an envelope is what the payload would have been read as without
\* it, in whatever algorithm and encoding each of them travels.  Only an envelope
\* that names GZIP and has lost the datatype of that metric is an error, unless the
\* registry has it, and no payload is taken for an envelope (compress, decompress).
OpenedAsSent ==
    opened # None =>
        IF /\ job # None
           /\ \/ ~job.outer
              \/ job.algo = "Deflate"
              \/ job.registry # None /\ DatatypeForName(job.registry, AlgorithmName) = StringType
        THEN opened = DecodePayload(EncodePayload(job.payload, job.strip), job.registry)
        ELSE ~opened.ok
=============================================================================
