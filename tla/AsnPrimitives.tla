---------------------------- MODULE AsnPrimitives ----------------------------
(***************************************************************************)
(* The part of the asn1c runtime in src/src/msg that the types without     *)
(* members need: tags, lengths, and the contents of INTEGER, BOOLEAN and   *)
(* the native integers.  AsnCodec adds strings, members, lists and choices.*)
(*                                                                         *)
(* A buffer is a sequence of octets.  The value of                         *)
(*   a NativeInteger   is the eight octets of the long that holds it,      *)
(*   an INTEGER        its octets,                                         *)
(*   a BOOLEAN         0 or another octet.                                 *)
(* Each type and each member of the messages is sent under exactly one     *)
(* tag and length (AsnTypes), so ber_check_tags reads one.                 *)
(***************************************************************************)
EXTENDS AsnTypes, FiniteSetsExt, SequencesExt

Drop(buf, n) == SubSeq(buf, n + 1, Len(buf))

\* The digits of v in base b, the most significant first.
Digits(v, b) ==
  LET n == CHOOSE n \in 1 .. 5 : v < b ^ n /\ (n = 1 \/ v >= b ^ (n - 1))
  IN  [i \in 1 .. n |-> (v \div b ^ (n - i)) % b]

\* The octets of a long.
Long(v) == [i \in 1 .. 8 |-> IF i <= 4 THEN IF v < 0 THEN 255 ELSE 0
                                       ELSE (v \div 256 ^ (8 - i)) % 256]
-----------------------------------------------------------------------------
(* Tags and lengths *)

ber_tlv_tag_serialize(tag) ==
  LET class == 64 * (tag % 4)
      val   == tag \div 4
      d     == Digits(val, 128)
  IN  IF val <= 30 THEN <<class + val>>
      ELSE <<class + 31>> \o [i \in DOMAIN d |-> IF i < Len(d) THEN 128 + d[i]
                                                               ELSE d[i]]

LengthBytes(len) == <<128 + Len(Digits(len, 256))>> \o Digits(len, 256)

\* Mutant: a length of 128 still fits the short form.
der_tlv_length_serialize_OffByOne(len) ==
  IF len <= 128 THEN <<len>> ELSE LengthBytes(len)
der_tlv_length_serialize(len) == IF len <= 127 THEN <<len>> ELSE LengthBytes(len)

der_write_TL(tag, len, constructed) ==
  LET t == ber_tlv_tag_serialize(tag)
  IN  [t EXCEPT ![1] = @ + IF constructed THEN 32 ELSE 0]
        \o der_tlv_length_serialize(len)

\* The tags in front of len octets of contents: the type's own in tag mode
\* 0, with its first one replaced in mode -1, with one more in mode 1.  The
\* ones before another are constructed.
WriteTags(tags, len, constructed) ==
  LET from[i \in 1 .. Len(tags) + 1] ==
        IF i > Len(tags) THEN <<>>
        ELSE der_write_TL(tags[i], len + Len(from[i + 1]),
                          constructed \/ i < Len(tags)) \o from[i + 1]
  IN  from[1]

der_write_tags(td, len, tag_mode, constructed, tag) ==
  WriteTags(IF tag_mode = 0 THEN td.tags
            ELSE <<tag>> \o IF tag_mode = -1 /\ td.tags # <<>>
                            THEN Tail(td.tags) ELSE td.tags,
            len, constructed)

\* What a fetch returns: the octets it took (0: more are wanted, -1: error)
\* and what it read.
Fetched(len, val) == [len |-> len, val |-> val]

\* The octets that go on with a long tag: one more than the ones with bit 8.
TagLength(buf) ==
  2 + Cardinality({i \in 2 .. Len(buf) : \A j \in 2 .. i : buf[j] >= 128})

TagNumber(octets) == FoldLeft(LAMBDA v, o : 128 * v + (o % 128), 0, octets)

\* The tag of n octets that is not in the first one; 30 bits are read.
LongTag(buf, n) ==
  IF \E i \in 2 .. n - 1 : TagNumber(SubSeq(buf, 2, i)) >= 2 ^ 23
  THEN Fetched(-1, 0)
  ELSE IF n > Len(buf) THEN Fetched(0, 0)
  ELSE Fetched(n, 4 * TagNumber(SubSeq(buf, 2, n)) + (buf[1] \div 64))

ber_fetch_tag(buf) ==
  CASE Len(buf) = 0 -> Fetched(0, 0)
    [] Len(buf) > 0 /\ buf[1] % 32 # 31 ->
         Fetched(1, 4 * (buf[1] % 32) + (buf[1] \div 64))
    [] OTHER -> LongTag(buf, TagLength(buf))

BER_TLV_CONSTRUCTED(buf) == (buf[1] \div 32) % 2 = 1

\* A length that no buffer has; lengths above 2^24 are not told apart.
Huge == 2 ^ 30

NoLeadingZeros(o) ==
  SubSeq(o, Min({i \in DOMAIN o : o[i] # 0} \cup {Len(o) + 1}), Len(o))

\* A length of n octets: the ones that are there, and those of them that
\* matter.
LongLength(n, got, sig) ==
  IF \/ n = 127 \/ Len(sig) > 8
     \/ Len(sig) = 8 /\ (sig[1] >= 128 \/ Len(got) < n)
  THEN Fetched(-1, 0)
  ELSE IF Len(got) < n THEN Fetched(0, 0)
  ELSE Fetched(n + 1, LET digit(i) == IF i < Len(sig) THEN sig[Len(sig) - i] ELSE 0
                      IN  IF Len(sig) > 3 THEN Huge
                          ELSE digit(0) + 256 * digit(1) + 65536 * digit(2))

\* -1 is the indefinite length.
ber_fetch_length(constructed, buf) ==
  LET n == buf[1] - 128
      long(got) == LongLength(n, got, NoLeadingZeros(got))
  IN  CASE Len(buf) = 0 -> Fetched(0, 0)
        [] Len(buf) > 0 /\ n < 0 -> Fetched(1, buf[1])
        [] Len(buf) > 0 /\ n = 0 /\ constructed -> Fetched(1, -1)
        [] OTHER -> long(SubSeq(buf, 2, Min({n + 1, Len(buf)})))

\* The length that follows a tag t.
LengthAfter(t, buf) ==
  ber_fetch_length(BER_TLV_CONSTRUCTED(buf), Drop(buf, t.len))
-----------------------------------------------------------------------------
(* Encoding.  An encoder returns the octets, or FAILED where the code's    *)
(* returns encoded = -1.                                                   *)

FAILED == <<-1>>

\* Whether octet i of a number only repeats the sign of the next one.
Superfluous(o, i) ==
  /\ i < Len(o)
  /\ \/ o[i] = 0 /\ o[i + 1] < 128
     \/ o[i] = 255 /\ o[i + 1] >= 128

\* Mutant: every leading zero octet is superfluous.
Canonical_SignLost(o) ==
  IF o = <<>> THEN o
  ELSE Drop(o, Min({i \in DOMAIN o : o[i] # 0 \/ i = Len(o)}) - 1)
Canonical(o) ==
  IF o = <<>> THEN o
  ELSE Drop(o, Min({i \in DOMAIN o : ~Superfluous(o, i)}) - 1)

\* The fewest octets that still carry the sign, which X.690 asks
\* the contents of an INTEGER to be; the code of the codec is not used.
Shortest(o) ==
  LET sign == IF o[1] >= 128 THEN 255 ELSE 0
      enough(n) == LET c == Drop(o, Len(o) - n)
                   IN  /\ (c[1] >= 128) = (sign = 255)
                       /\ \A i \in 1 .. Len(o) - n : o[i] = sign
  IN  Drop(o, Len(o) - Min({n \in 1 .. Len(o) : n = Len(o) \/ enough(n)}))

der_encode_primitive(td, octets, tag_mode, tag) ==
  der_write_tags(td, Len(octets), tag_mode, FALSE, tag) \o octets

INTEGER_encode_der(td, octets, tag_mode, tag) ==
  der_encode_primitive(td, Canonical(octets), tag_mode, tag)

\* The long is handed on as its eight octets.
NativeInteger_encode_der(td, long, tag_mode, tag) ==
  INTEGER_encode_der(td, long, tag_mode, tag)

BOOLEAN_encode_der(td, st, tag_mode, tag) ==
  der_encode_primitive(td, <<IF st # 0 THEN 255 ELSE 0>>, tag_mode, tag)
-----------------------------------------------------------------------------
(* Decoding.  A decoder returns asn_dec_rval_t and the structure it fills. *)

Ok(consumed, value) == [code |-> "RC_OK", consumed |-> consumed, value |-> value]
More == [code |-> "RC_WMORE"]
Fail == [code |-> "RC_FAIL"]
FetchError(n) == IF n = 0 THEN More ELSE Fail

\* form is whether the tag must be constructed, or -1.  In the tag modes
\* other than 0 the caller has compared the tag.
ber_check_tags(td, buf, tag_mode, form) ==
  LET constr == BER_TLV_CONSTRUCTED(buf)
      header(t, l) ==
        IF t.len <= 0 THEN FetchError(t.len)
        ELSE IF \/ tag_mode = 0 /\ t.val # td.tags[1]
                \/ form # -1 /\ form # (IF constr THEN 1 ELSE 0) THEN Fail
        ELSE IF l.len <= 0 THEN FetchError(l.len)
        ELSE [code |-> "RC_OK", consumed |-> t.len + l.len, length |-> l.val]
      tag(t) == header(t, LengthAfter(t, buf))
  IN  tag(ber_fetch_tag(buf))

\* A primitive type: its contents octets.
ber_decode_primitive(td, buf, tag_mode) ==
  LET contents(c) ==
        IF c.code # "RC_OK" THEN c
        ELSE IF c.length > Len(buf) - c.consumed THEN More
        ELSE Ok(c.consumed + c.length,
                SubSeq(buf, c.consumed + 1, c.consumed + c.length))
  IN  contents(ber_check_tags(td, buf, tag_mode, 0))

INTEGER_decode_ber(td, buf, tag_mode) == ber_decode_primitive(td, buf, tag_mode)

Extend(o, fill) == [i \in 1 .. 8 - Len(o) |-> fill] \o o

asn_INTEGER2long(octets) ==
  LET sized(o) == IF Len(o) > 8 THEN FAILED
                  ELSE Extend(o, IF o # <<>> /\ o[1] >= 128 THEN 255 ELSE 0)
  IN  sized(IF Len(octets) > 8 THEN Canonical(octets) ELSE octets)

asn_INTEGER2ulong(o) ==
  IF \E i \in 1 .. Len(o) - 8 : o[i] # 0 THEN FAILED
  ELSE Extend(IF Len(o) > 8 THEN Drop(o, Len(o) - 8) ELSE o, 0)

\* What a conversion makes of the octets that were decoded.
Converted(c, v) == IF v = FAILED THEN Fail ELSE Ok(c.consumed, v)

\* Mutant: every integer is read as an unsigned one.
NativeInteger_decode_ber_Unsigned(td, buf, tag_mode) ==
  LET value(c) == IF c.code # "RC_OK" THEN c
                  ELSE Converted(c, asn_INTEGER2ulong(c.value))
  IN  value(ber_decode_primitive(td, buf, tag_mode))
NativeInteger_decode_ber(td, buf, tag_mode) ==
  LET value(c) == IF c.code # "RC_OK" THEN c
                  ELSE Converted(c, IF td.field_unsigned THEN asn_INTEGER2ulong(c.value)
                                                         ELSE asn_INTEGER2long(c.value))
  IN  value(ber_decode_primitive(td, buf, tag_mode))

\* The first octet that is not 0, if there is one.
FirstSet(o) == LET set == {i \in DOMAIN o : o[i] # 0}
               IN  IF set = {} THEN 0 ELSE o[Min(set)]

BOOLEAN_decode_ber(td, buf, tag_mode) ==
  LET value(c) == IF c.code # "RC_OK" THEN c
                  ELSE Ok(c.consumed, FirstSet(c.value))
  IN  value(ber_decode_primitive(td, buf, tag_mode))
-----------------------------------------------------------------------------
(* What the values of the messages are made of.                            *)

Octet == 0 .. 255

\* Every tag of the messages takes one octet.
ShortTag == {t \in 0 .. 123 : t \div 4 <= 30}

\* The lengths that LongLength tells apart, and contents of such a length.
Lengths == {n \in Nat : (n \div 256) \div 256 <= 255}
Contents == {o \in Seq(Octet) : Len(o) \in Lengths}
=============================================================================
