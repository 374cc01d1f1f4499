---------------------------------- MODULE Oed ----------------------------------
(***************************************************************************)
(* Octet-Encoded Data: the encoder and the decoder of lib/oed.js, those of *)
(* lib/oed_lite.js that the TLS transport frames its messages with, and    *)
(* the marshalling of uFork values in vm/js/awp_dev.js on top of them.     *)
(*                                                                         *)
(* A value is written, and read again from all that was written or from a  *)
(* part of it, as from a stream that is cut into chunks.                   *)
(***************************************************************************)
EXTENDS Integers, Sequences, FiniteSets, SequencesExt

CONSTANTS
    Values,     \* the JavaScript values that are written
    Raws        \* the uFork values that are marshalled

VARIABLES
    writer, value,      \* who wrote, and what
    octets,
    reader, cut,        \* who read, and how many of the octets
    result

codec == <<writer, value, octets, reader, cut, result>>

(* Kinds of values.  A number is an integer, or coefficient * 2^exponent   *)
(* with an odd coefficient; a string is a sequence of code points.         *)
Null == [k |-> "null"]
True == [k |-> "true"]
False == [k |-> "false"]
Undefined == [k |-> "undefined"]
Garbage == [k |-> "garbage"]    \* made of octets that are not there
JsInt(n) == [k |-> "int", n |-> n]
Ratio(c, e) == [k |-> "ratio", c |-> c, e |-> e]
Str(s) == [k |-> "string", s |-> s]
Blob(d) == [k |-> "blob", d |-> d]
Arr(a) == [k |-> "array", a |-> a]
Obj(m) == [k |-> "object", m |-> m]                \* of [key, value] pairs
Ext(meta, d) == [k |-> "ext", meta |-> meta, d |-> d]

OutOfBounds == "offset out-of-bounds"
Ok(v, p) == [error |-> "none", value |-> v, end |-> p]
Failed(error) == [error |-> error, value |-> Undefined, end |-> 0]
IsOk(d) == d.error = "none"

Abs(n) == IF n < 0 THEN -n ELSE n
CeilDiv(n, d) == (n + d - 1) \div d

(* What TextEncoder and TextDecoder do, below U+10000.                     *)
Utf8(c) ==
    IF c < 128 THEN <<c>>
    ELSE IF c < 2048 THEN <<192 + c \div 64, 128 + (c % 64)>>
    ELSE <<224 + c \div 4096, 128 + ((c \div 64) % 64), 128 + (c % 64)>>

(* The octets from the i-th on that make up a character, and all of them.  *)
Character(d, i) ==
    IF d[i] < 128 THEN d[i]
    ELSE IF d[i] < 224 THEN (d[i] - 192) * 64 + d[i + 1] - 128
    ELSE (d[i] - 224) * 4096 + (d[i + 1] - 128) * 64 + d[i + 2] - 128
Text(d) ==
    LET first == SelectSeq([i \in DOMAIN d |-> i], LAMBDA i : d[i] \notin 128..191)
    IN  [j \in DOMAIN first |-> Character(d, first[j])]

InitCodec ==
    /\ \/ writer \in {"oed", "lite"} /\ value \in Values
       \/ writer = "awp" /\ value \in Raws
    /\ octets = <<>> /\ reader = "none" /\ cut = 0 /\ result = Failed("none yet")

-----------------------------------------------------------------------------
(* Encoding.                                                               *)
RECURSIVE Digits(_), Significant(_)
Digits(n) == IF n = 0 THEN <<>> ELSE <<n % 256>> \o Digits(n \div 256)
Significant(n) == IF n = 0 THEN 0 ELSE 1 + Significant(n \div 2)

Small(n) == n \in -112..127
SmallOctet(n) == <<n % 256>>

(* encode_integer of oed.js counts the significant bits,                   *)
EncodeInteger(n) ==
    IF Small(n) THEN SmallOctet(n)
    ELSE <<IF n < 0 THEN 131 ELSE 130>>
         \o SmallOctet(Significant(Abs(n))) \o Digits(Abs(n))

(* and that of oed_lite.js whole octets.                                   *)
LiteInteger(n) ==
    IF Small(n) THEN SmallOctet(n)
    ELSE <<IF n < 0 THEN 131 ELSE 130, 8 * Len(Digits(Abs(n)))>> \o Digits(Abs(n))

EncodeRational(c, e) ==
    <<IF c < 0 THEN 135 ELSE 134>> \o EncodeInteger(2) \o EncodeInteger(e)
    \o EncodeInteger(Significant(Abs(c))) \o Digits(Abs(c))

(* encode_number keeps the sign in the coefficient as well as the prefix:  *)
(* a small negative one is two's complement.                               *)
LiteRational(c, e) ==
    <<IF c < 0 THEN 135 ELSE 134>> \o LiteInteger(2) \o LiteInteger(e)
    \o (IF Small(c) THEN <<8>> \o SmallOctet(c) ELSE Tail(LiteInteger(c)))

(* buffer, and the fields of the compound values; w is the writer.         *)
IntegerBy(w, n) == IF w = "lite" THEN LiteInteger(n) ELSE EncodeInteger(n)

EncodeString(w, s) ==
    IF s = <<>> THEN <<140, 0>>
    ELSE LET data == FlattenSeq([i \in DOMAIN s |-> Utf8(s[i])])
         IN  <<140>> \o IntegerBy(w, Len(s)) \o IntegerBy(w, Len(data)) \o data

EncodeBlob(w, d) == <<138>> \o IntegerBy(w, Len(d)) \o d

(* An array or an object: its length, its size and its parts.              *)
\* Mutant of Compound: the size is that of the elements' count.
CompoundLength(w, prefix, length, parts) ==
    IF length = 0 THEN <<prefix, 0>>
    ELSE LET data == FlattenSeq(parts)
         IN  <<prefix>> \o IntegerBy(w, length) \o IntegerBy(w, length) \o data

Compound(w, prefix, length, parts) ==
    IF length = 0 THEN <<prefix, 0>>
    ELSE LET data == FlattenSeq(parts)
         IN  <<prefix>> \o IntegerBy(w, length) \o IntegerBy(w, Len(data)) \o data

Supported(v) == v.k # "undefined"

(* encode_value, encode.  An element that is not supported becomes null; a *)
(* property with such a value is left out.                                 *)
RECURSIVE Encode(_, _)
EncodeArray(w, a) ==
    Compound(w, 136, Len(a),
             [i \in DOMAIN a |-> IF Supported(a[i]) THEN Encode(w, a[i]) ELSE <<143>>])

EncodeObject(w, m) ==
    LET kept == SelectSeq(m, LAMBDA p : Supported(p[1]) /\ Supported(p[2]))
    IN  Compound(w, 137, Len(kept),
                 [i \in DOMAIN kept |-> Encode(w, kept[i][1]) \o Encode(w, kept[i][2])])

EncodeExtension(w, meta, d) ==
    <<139>> \o (IF Supported(meta) THEN Encode(w, meta) ELSE <<143>>)
    \o IntegerBy(w, Len(d)) \o d

Encode(w, v) ==
    CASE v.k = "null" -> <<143>>
      [] v.k = "false" -> <<128>>
      [] v.k = "true" -> <<129>>
      [] v.k = "int" -> IntegerBy(w, v.n)
      [] v.k = "ratio" -> IF w = "lite" THEN LiteRational(v.c, v.e)
                          ELSE EncodeRational(v.c, v.e)
      [] v.k = "string" -> EncodeString(w, v.s)
      [] v.k = "blob" -> EncodeBlob(w, v.d)
      [] v.k = "array" -> EncodeArray(w, v.a)
      [] v.k = "object" -> EncodeObject(w, v.m)
      [] v.k = "ext" -> EncodeExtension(w, v.meta, v.d)

-----------------------------------------------------------------------------
(* Decoding: from octets o at position p, the value and where it ends, or  *)
(* an error.  r is the reader: lite does not check that the octets of a    *)
(* number and of a string are there, and awp keeps extensions.             *)

RECURSIVE Natural(_)
Natural(d) == IF d = <<>> THEN 0 ELSE d[1] + 256 * Natural(Tail(d))

(* What is decoded from d on, if d is no error.                            *)
Then(d, next(_)) == IF IsOk(d) THEN next(d) ELSE d

(* consume_integer, consume_magnitude, decode_natual: a small integer, or  *)
(* one with a size, which is not negative.                                 *)
RECURSIVE Integer(_, _, _)
Magnitude(r, o, p) ==
    Then(Integer(r, o, p), LAMBDA d : IF d.value.n < 0 THEN Failed("not a magnitude") ELSE d)

Octets(o, size) == SubSeq(o, size.end, size.end + size.value.n - 1)

SizedNatural(r, sign, o, p) ==
    Then(Magnitude(r, o, p), LAMBDA size :
        LET end == size.end + CeilDiv(size.value.n, 8)
        IN  IF end <= Len(o) + 1
            THEN Ok(JsInt(sign * Natural(SubSeq(o, size.end, end - 1))), end)
            ELSE IF r = "lite" THEN Ok(Garbage, end) ELSE Failed(OutOfBounds))

Sign(o, p) == IF o[p] \in {131, 135} THEN -1 ELSE 1

Integer(r, o, p) ==
    IF p > Len(o) THEN Failed(OutOfBounds)
    ELSE IF o[p] <= 127 THEN Ok(JsInt(o[p]), p + 1)
    ELSE IF o[p] >= 144 THEN Ok(JsInt(o[p] - 256), p + 1)
    ELSE IF o[p] \in {130, 131}
    THEN Then(SizedNatural(r, Sign(o, p), o, p + 1), LAMBDA d :
            IF d.value = Garbage THEN Failed("integer value required") ELSE d)
    ELSE Failed("not an integer")

(* consume_rational, decode_number.                                        *)
Rational(r, o, p) ==
    Then(Magnitude(r, o, p + 1), LAMBDA base :
    Then(Integer(r, o, base.end), LAMBDA exp :
    Then(SizedNatural(r, Sign(o, p), o, exp.end), LAMBDA coef :
        IF coef.value = Garbage THEN coef
        ELSE Ok(Ratio(coef.value.n, exp.value.n), coef.end))))

(* consume, decode_blob: a size and its octets.                            *)
Sized(r, o, p) ==
    Then(Magnitude(r, o, p), LAMBDA size :
        IF size.end + size.value.n > Len(o) + 1 THEN Failed(OutOfBounds)
        ELSE Ok(Octets(o, size), size.end + size.value.n))

(* consume_string, decode_string: lite takes what there is.                *)
LiteString(o, p) ==
    Then(Magnitude("lite", o, p), LAMBDA size :
        LET end == size.end + size.value.n
        IN  Ok(IF end > Len(o) + 1 THEN Garbage ELSE Str(Text(Octets(o, size))), end))
String(r, o, p) ==
    Then(Magnitude(r, o, p + 1), LAMBDA length :
        IF length.value.n = 0 THEN Ok(Str(<<>>), length.end)
        ELSE IF r = "lite" THEN LiteString(o, length.end)
        ELSE Then(Sized(r, o, length.end), LAMBDA data :
            IF Len(Text(data.value)) # length.value.n THEN Failed("String length mismatch")
            ELSE Ok(Str(Text(data.value)), data.end)))

(* consume_value, decode, and the parts of an array or object in order.    *)
RECURSIVE Decode(_, _, _), Several(_, _, _, _)
Several(r, o, p, n) ==
    IF n = 0 THEN Ok(<<>>, p)
    ELSE Then(Decode(r, o, p), LAMBDA first :
         Then(Several(r, o, first.end, n - 1), LAMBDA rest :
            Ok(<<first.value>> \o rest.value, rest.end)))

Parts(r, o, p, each) ==
    Then(Magnitude(r, o, p + 1), LAMBDA length :
        IF length.value.n = 0 THEN Ok(<<>>, length.end)
        ELSE Then(Magnitude(r, o, length.end), LAMBDA size :
             Then(Several(r, o, size.end, each * length.value.n), LAMBDA parts :
                IF parts.end # size.end + size.value.n THEN Failed("Expected size") ELSE parts)))

(* consume_value, decode_string: an extension is a string to lite, which   *)
(* takes what octets of it there are.                                      *)
LiteExtension(o, p, q) ==
    Then(Magnitude("lite", o, q), LAMBDA size :
        LET end == size.end + size.value.n
        IN  Ok(IF end > Len(o) + 1 THEN Garbage ELSE Str(SubSeq(o, p, end - 1)), end))
Extension(r, o, p) ==
    Then(Decode(r, o, p + 1), LAMBDA meta :
        IF r = "lite" THEN LiteExtension(o, p, meta.end)
        ELSE Then(Sized(r, o, meta.end), LAMBDA data :
            Ok(IF r = "oed" THEN Undefined ELSE Ext(meta.value, data.value), data.end)))

Members(s) == [i \in 1..(Len(s) \div 2) |-> <<s[2 * i - 1], s[2 * i]>>]

Decode(r, o, p) ==
    IF p > Len(o) THEN Failed(OutOfBounds)
    ELSE CASE o[p] = 143 -> Ok(Null, p + 1)
           [] o[p] = 128 -> Ok(False, p + 1)
           [] o[p] = 129 -> Ok(True, p + 1)
           [] o[p] \in {134, 135} -> Rational(r, o, p)
           [] o[p] = 136 -> Then(Parts(r, o, p, 1), LAMBDA d : Ok(Arr(d.value), d.end))
           [] o[p] = 137 -> Then(Parts(r, o, p, 2), LAMBDA d : Ok(Obj(Members(d.value)), d.end))
           [] o[p] = 138 -> Then(Sized(r, o, p + 1), LAMBDA d : Ok(Blob(d.value), d.end))
           [] o[p] = 139 -> Extension(r, o, p)
           [] o[p] = 140 -> String(r, o, p)
           [] o[p] \in {130, 131} /\ r = "lite" -> SizedNatural(r, Sign(o, p), o, p + 1)
           [] OTHER -> Integer(r, o, p)

-----------------------------------------------------------------------------
(* marshall and unmarshall: the uFork values and the JSON-like values they *)
(* travel as.  A capability is the acquaintance it lives at, 0 for self,   *)
(* and a Swiss number; the proxies that stand for it are AwpDevice's.      *)
Fix(n) == [k |-> "fix", n |-> n]
RawNil == [k |-> "nil"]
RawPair(x, y) == [k |-> "pair", x |-> x, y |-> y]
Cap(peer, swiss) == [k |-> "cap", peer |-> peer, swiss |-> swiss]

Acquaintance(peer) == Obj(<<<<Str(<<110>>), JsInt(peer)>>>>)

RECURSIVE Marshall(_), Unmarshall(_)
Marshall(raw) ==
    CASE raw.k = "undefined" -> Null
      [] raw.k = "true" -> True
      [] raw.k = "false" -> False
      [] raw.k = "nil" -> Arr(<<>>)
      [] raw.k = "fix" -> JsInt(raw.n)
      [] raw.k = "pair" -> Arr(<<Marshall(raw.x), Marshall(raw.y)>>)
      [] raw.k = "cap" -> Ext(Acquaintance(raw.peer), raw.swiss)

Unmarshall(v) ==
    CASE v.k = "null" -> Undefined
      [] v.k \in {"true", "false"} -> v
      [] v.k = "array" /\ Len(v.a) = 2 -> RawPair(Unmarshall(v.a[1]), Unmarshall(v.a[2]))
      [] v.k = "array" /\ v.a = <<>> -> RawNil
      [] v.k = "int" -> Fix(v.n)
      [] v.k = "ext" -> Cap(v.meta.m[1][2].n, v.d)

-----------------------------------------------------------------------------
Write ==
    /\ octets = <<>>
    /\ octets' = Encode(writer, IF writer = "awp" THEN Marshall(value) ELSE value)
    /\ UNCHANGED <<writer, value, reader, cut, result>>

(* decode: oed.js takes one value, and no octet after it.                  *)
Received(r, o) ==
    Then(Decode(r, o, 1), LAMBDA d :
        IF r # "lite" /\ d.end <= Len(o) THEN Failed("Unexpected octet")
        ELSE IF r = "awp" THEN Ok(Unmarshall(d.value), d.end)
        ELSE d)

Read ==
    /\ octets # <<>> /\ reader = "none"
    /\ reader' \in IF writer = "awp" THEN {"awp"} ELSE {"oed", "lite"}
    /\ cut' \in 0..Len(octets)
    /\ result' = Received(reader', SubSeq(octets, 1, cut'))
    /\ UNCHANGED <<writer, value, octets>>

NextCodec == Write \/ Read

SpecCodec == InitCodec /\ [][NextCodec]_codec

-----------------------------------------------------------------------------
(* The default decoding of a value: what is not supported is null in an    *)
(* array and is left out of an object, and an extension is undefined to    *)
(* oed and a string to lite.                                               *)
RECURSIVE Canonical(_, _)
Canonical(r, v) ==
    CASE v.k = "array" ->
             Arr([i \in DOMAIN v.a |-> IF Supported(v.a[i]) THEN Canonical(r, v.a[i]) ELSE Null])
      [] v.k = "object" ->
             LET kept == SelectSeq(v.m, LAMBDA p : Supported(p[2]))
             IN  Obj([i \in DOMAIN kept |-> <<kept[i][1], Canonical(r, kept[i][2])>>])
      [] v.k = "ext" -> IF r = "lite" THEN Str(Encode(writer, v)) ELSE Undefined
      [] OTHER -> v

Whole == cut = Len(octets)

(* What is written is read as it was, by either decoder, whatever the      *)
(* other encoder makes of the sizes of its integers; and no part of it is  *)
(* taken for a value.  (Lite writes no negative ratio that it could read,  *)
(* and reads parts: LiteRatios and FramesWait below.)                      *)
RECURSIVE NegativeRatio(_)
NegativeRatio(v) ==
    \/ v.k = "ratio" /\ v.c < 0
    \/ v.k = "array" /\ \E i \in DOMAIN v.a : NegativeRatio(v.a[i])
    \/ v.k = "object" /\ \E i \in DOMAIN v.m : NegativeRatio(v.m[i][2])

Restored ==
    /\ result.error = "none"
    /\ result.value = IF reader = "awp" THEN value ELSE Canonical(reader, value)

CodecRight ==
    reader # "none" =>
        /\ Whole /\ ~(writer = "lite" /\ NegativeRatio(value)) => Restored
        /\ ~Whole /\ reader # "lite" => result.error # "none"

(* Every number is restored by lite too.  False: -0.5 is read as -127.5.   *)
LiteRatios == (reader # "none" /\ Whole) => Restored

(* A part of a frame is waited for: make_consumer, node_tls_transport.js,  *)
(* takes any other error for a bad frame, and severs the connection.       *)
FramesWait ==
    (reader = "lite" /\ value.k = "blob" /\ ~Whole) => result.error = OutOfBounds
=============================================================================
