------------------------------- MODULE AsnCodec -------------------------------
(***************************************************************************)
(* The part of the asn1c runtime in src/src/msg for the types that have    *)
(* parts: strings, SEQUENCEs, lists and CHOICEs.  The C code reaches the   *)
(* codecs of the parts through the pointers in their descriptors, and its  *)
(* loops turn until they return; here both are operators that a model      *)
(* gives values to: der_encoder is the encoder that a descriptor points to *)
(* (EncoderOf), ber_decoder the decoder (DecoderOf), and the others are    *)
(* the next turns of the loops.                                            *)
(*                                                                         *)
(* The decoders see a whole buffer and a fresh structure, as DEREncoder.hpp *)
(* uses them, so that their restart contexts are always at their first     *)
(* phase and the number of octets consumed matters only when the decoder   *)
(* succeeds.                                                               *)
(*                                                                         *)
(* To the values of AsnPrimitives this adds                                *)
(*   a string          a record of its octets and bits_unused,             *)
(*   a SEQUENCE        one sequence for each member, empty for a null      *)
(*                     pointer, else holding the member's value,           *)
(*   a SEQUENCE OF     the sequence of its values,                         *)
(*   a CHOICE          which member is present (0: none) and its value.    *)
(***************************************************************************)
EXTENDS AsnPrimitives

CONSTANTS
  der_encoder(_, _, _, _),      \* EncoderOf
  ber_decoder(_, _, _),         \* DecoderOf
  Segments(_, _, _, _, _, _),   \* SegmentsFrom
  Trailer(_, _, _, _),          \* TrailerFrom
  Members(_, _, _, _, _),       \* MembersFrom
  Items(_, _, _, _),            \* ItemsFrom
  SkipContents(_, _)            \* ContentsFrom

(* Encoding *)

\* octet & (0xff << n)
Mask(octet, n) == IF n >= 8 THEN 0 ELSE octet - (octet % 2 ^ n)

MaskLast(octets, n) ==
  IF octets = <<>> THEN octets ELSE [octets EXCEPT ![Len(octets)] = Mask(@, n)]

OCTET_STRING_encode_der(td, st, tag_mode, tag) ==
  LET unused == st.bits_unused % 8
  IN  der_encode_primitive(td,
        IF td.variant # "BIT" THEN st.octets
        ELSE <<unused>> \o IF unused # 0 THEN MaskLast(st.octets, st.bits_unused)
                           ELSE st.octets,
        tag_mode, tag)

\* The encodings of the parts one after the other, unless one has failed.
\* Mutant: a part that cannot be encoded is left out.
Joined_Lost(parts) == FlattenSeq(SelectSeq(parts, LAMBDA p : p # FAILED))
Joined(parts) ==
  IF \E k \in DOMAIN parts : parts[k] = FAILED THEN FAILED ELSE FlattenSeq(parts)

\* The parts under the type's tags.
Constructed(td, body, tag_mode, tag) ==
  IF body = FAILED THEN FAILED
  ELSE der_write_tags(td, Len(body), tag_mode, TRUE, tag) \o body

SEQUENCE_encode_der(td, st, tag_mode, tag) ==
  LET member(k) ==
        LET elm == td.elements[k]
        IN  CASE st[k] # <<>> -> der_encoder(elm.type, st[k][1], elm.tag_mode, elm.tag)
              [] st[k] = <<>> /\ elm.optional > 0 -> <<>>
              [] OTHER -> FAILED
  IN  Constructed(td, Joined([k \in DOMAIN td.elements |-> member(k)]), tag_mode, tag)

SEQUENCE_OF_encode_der(td, list, tag_mode, tag) ==
  LET item(k) == der_encoder(td.element, list[k], 0, 0)
  IN  Constructed(td, Joined([k \in DOMAIN list |-> item(k)]), tag_mode, tag)

CHOICE_encode_der(td, st, tag_mode, tag) ==
  LET elm  == td.elements[st.present]
      body == IF st.present \in DOMAIN td.elements
              THEN der_encoder(elm.type, st.choice, elm.tag_mode, elm.tag)
              ELSE FAILED
  IN  IF tag_mode = 1 \/ td.tags # <<>> THEN Constructed(td, body, tag_mode, tag)
                                        ELSE body

\* The encoder that a descriptor points to.
EncoderOf(td, st, tag_mode, tag) ==
  CASE td.kind = "NativeInteger" -> NativeInteger_encode_der(td, st, tag_mode, tag)
    [] td.kind = "INTEGER"       -> INTEGER_encode_der(td, st, tag_mode, tag)
    [] td.kind = "BOOLEAN"       -> BOOLEAN_encode_der(td, st, tag_mode, tag)
    [] td.kind = "OCTET_STRING"  -> OCTET_STRING_encode_der(td, st, tag_mode, tag)
    [] td.kind = "SEQUENCE"      -> SEQUENCE_encode_der(td, st, tag_mode, tag)
    [] td.kind = "SEQUENCE_OF"   -> SEQUENCE_OF_encode_der(td, st, tag_mode, tag)
    [] td.kind = "CHOICE"        -> CHOICE_encode_der(td, st, tag_mode, tag)
-----------------------------------------------------------------------------
(* Decoding *)

\* A string: one primitive TLV, or a constructed one of segments that carry
\* the type's own tag.  left is what the enclosing TLV has left (-1: it has
\* an indefinite length, or there is none); st is what the segments before
\* this one hold, of which the last unused-bits octet counts (-1: none had
\* one).
StringTLV(td, all, left, outermost, st) ==
  LET value(body) ==
        IF td.variant = "BIT" /\ body # <<>>
        THEN [bits_unused |-> body[1], octets |-> st.octets \o Tail(body)]
        ELSE [st EXCEPT !.octets = @ \o body]
      contents(constr, length, head) ==
        IF left >= 0 /\ left < head + IF length = -1 THEN 0 ELSE length THEN Fail
        ELSE IF constr
        THEN Segments(td, all, head,
               IF length >= 0 THEN length ELSE IF left >= 0 THEN left - head ELSE -1,
               length = -1, st)
        ELSE IF Len(all) - head < length THEN More
        ELSE Ok(head + length, value(SubSeq(all, head + 1, head + length)))
      header(buf, t, l) ==
        IF t.len <= 0 THEN FetchError(t.len)
        ELSE IF l.len <= 0 THEN FetchError(l.len)
        ELSE IF ~outermost /\ t.val # td.tags[1] THEN Fail
        ELSE contents(BER_TLV_CONSTRUCTED(buf), l.val, t.len + l.len)
      tag(buf, t) == header(buf, t, LengthAfter(t, buf))
      within(buf) == tag(buf, ber_fetch_tag(buf))
  IN  within(IF left >= 0 /\ left < Len(all) THEN SubSeq(all, 1, left) ELSE all)

\* The segments from pos on; nulls is whether an end mark ends them.
SegmentsFrom(td, buf, pos, left, nulls, st) ==
  LET more(seg) ==
        IF seg.code # "RC_OK" THEN seg
        ELSE Segments(td, buf, pos + seg.consumed,
               IF left >= 0 THEN left - seg.consumed ELSE left, nulls, seg.value)
      from(rest) ==
        IF left = 0 /\ ~nulls THEN Ok(pos, st)
        ELSE IF /\ nulls /\ left \notin {0, 1} /\ Len(rest) >= 2
                /\ rest[1] = 0 /\ rest[2] = 0
        THEN Ok(pos + 2, st)
        ELSE more(StringTLV(td, rest, left, FALSE, st))
  IN  from(Drop(buf, pos))

OCTET_STRING_decode_ber(td, buf, tag_mode) ==
  LET fill(st, u) == [bits_unused |-> u, octets |-> MaskLast(st.octets, u)]
      string(s) == IF s.code # "RC_OK" THEN s
                   ELSE Ok(s.consumed, fill(s.value, Max({0, s.value.bits_unused})))
      check(c) == IF c.code # "RC_OK" THEN c
                  ELSE string(StringTLV(td, buf, -1, TRUE,
                                        [bits_unused |-> -1, octets |-> <<>>]))
  IN  check(ber_check_tags(td, buf, tag_mode, -1))

\* Mutant: a length beyond the buffer is cut to it.
Frame_Cut(buf, c) ==
  LET end == c.consumed + c.length
  IN  [data |-> SubSeq(buf, 1, IF c.length >= 0 /\ end < Len(buf) THEN end
                                                               ELSE Len(buf)),
       whole |-> c.length >= 0, nulls |-> c.length < 0]

\* The part of the buffer a constructed TLV may read.  whole: its length is
\* definite and all of it is there, so that wanting more is an error
\* (SIZE_VIOLATION); nulls: its length is indefinite and 00 00 ends it.
Frame(buf, c) ==
  LET end == c.consumed + c.length
  IN  IF c.length >= 0 /\ end <= Len(buf)
      THEN [data |-> SubSeq(buf, 1, end), whole |-> TRUE, nulls |-> FALSE]
      ELSE [data |-> buf, whole |-> FALSE, nulls |-> c.length < 0]

Short(f) == IF f.whole THEN Fail ELSE More

AtEnd(f, pos) == f.whole /\ pos = Len(f.data)

\* Where a frame of indefinite length meets a zero octet: is it the mark?
EndMark(f, rest) == f.nulls /\ Len(rest) >= 2 /\ rest[1] = 0 /\ rest[2] = 0
HalfMark(f, rest) == f.nulls /\ rest = <<0>>

\* The octets of a length and of the contents it announces, or 0 or -1.
ber_skip_length(constructed, buf) ==
  LET contents(l) ==
        CASE l.len <= 0 -> l.len
          [] l.len > 0 /\ l.val >= 0 ->
               IF l.len + l.val > Len(buf) THEN 0 ELSE l.len + l.val
          [] OTHER -> SkipContents(buf, l.len)
  IN  contents(ber_fetch_length(constructed, buf))

SkipAfter(t, buf) == ber_skip_length(BER_TLV_CONSTRUCTED(buf), Drop(buf, t.len))

\* The rest of an indefinite length, after done octets, to its end mark.
ContentsFrom(buf, done) ==
  LET next(rest, t, l) ==
        CASE t.len <= 0 -> t.len
          [] t.len > 0 /\ l <= 0 -> l
          [] OTHER -> IF rest[1] = 0 /\ rest[2] = 0 THEN done + t.len + l
                      ELSE SkipContents(buf, done + t.len + l)
      tlv(rest, t) == next(rest, t, SkipAfter(t, rest))
      from(rest) == tlv(rest, ber_fetch_tag(rest))
  IN  from(Drop(buf, done))

\* The TLVs after the last known member: skipped where the type is
\* extensible, up to the end of the frame.
SkipUnknown(td, f, pos, st, skip) ==
  IF ~td.ext \/ skip < 0 THEN Fail
  ELSE IF skip = 0 THEN Short(f)
  ELSE Trailer(td, f, pos + skip, st)

TrailerFrom(td, f, pos, st) ==
  LET tlv(rest, t) ==
        IF AtEnd(f, pos) THEN Ok(pos, st)
        ELSE IF t.len < 0 THEN Fail
        ELSE IF t.len = 0 \/ HalfMark(f, rest) THEN Short(f)
        ELSE IF EndMark(f, rest) THEN Ok(pos + 2, st)
        ELSE SkipUnknown(td, f, pos + t.len, st, SkipAfter(t, rest))
      from(rest) == tlv(rest, ber_fetch_tag(rest))
  IN  from(Drop(f.data, pos))

\* The members from edx on.  A tag names the next mandatory member or one of
\* the optional ones before it; any other one is an error unless only
\* optional members are left and the type is extensible.
MembersFrom(td, f, edx, pos, st) ==
  LET n    == Len(td.elements)
      last == edx + td.elements[edx].optional
      next(k, v) ==
        CASE v.code = "RC_OK" ->
               Members(td, f, k + 1, pos + v.consumed, [st EXCEPT ![k] = <<v.value>>])
          [] v.code = "RC_WMORE" -> Short(f)
          [] OTHER -> v
      member(k, rest) ==
        next(k, ber_decoder(td.elements[k].type, rest, td.elements[k].tag_mode))
      named(rest, t, found) ==
        IF found # {} THEN member(Min(found), rest)
        ELSE IF last <= n THEN Fail
        ELSE SkipUnknown(td, f, pos + t.len, st, SkipAfter(t, rest))
      tlv(rest, t) ==
        IF AtEnd(f, pos) /\ last > n THEN Ok(pos, st)
        ELSE IF t.len < 0 THEN Fail
        ELSE IF t.len = 0 \/ HalfMark(f, rest) THEN Short(f)
        ELSE IF EndMark(f, rest) /\ last > n THEN Trailer(td, f, pos, st)
        ELSE named(rest, t, {k \in edx .. Min({n, last}) : td.elements[k].tag = t.val})
      from(rest) == tlv(rest, ber_fetch_tag(rest))
  IN  IF edx > n THEN Trailer(td, f, pos, st) ELSE from(Drop(f.data, pos))

SEQUENCE_decode_ber(td, buf, tag_mode) ==
  LET members(c) == IF c.code # "RC_OK" THEN c
                    ELSE Members(td, Frame(buf, c), 1, c.consumed,
                                 [k \in DOMAIN td.elements |-> <<>>])
  IN  members(ber_check_tags(td, buf, tag_mode, 1))

\* The items from pos on.
ItemsFrom(td, f, pos, list) ==
  LET next(v) ==
        CASE v.code = "RC_OK" -> Items(td, f, pos + v.consumed, Append(list, v.value))
          [] v.code = "RC_WMORE" -> Short(f)
          [] OTHER -> v
      tlv(rest, t) ==
        IF AtEnd(f, pos) THEN Ok(pos, list)
        ELSE IF t.len < 0 THEN Fail
        ELSE IF t.len = 0 \/ HalfMark(f, rest) THEN Short(f)
        ELSE IF EndMark(f, rest) THEN Ok(pos + 2, list)
        ELSE IF t.val # td.element.tags[1] THEN Fail
        ELSE next(ber_decoder(td.element, rest, 0))
      from(rest) == tlv(rest, ber_fetch_tag(rest))
  IN  from(Drop(f.data, pos))

SET_OF_decode_ber(td, buf, tag_mode) ==
  LET items(c) == IF c.code # "RC_OK" THEN c
                  ELSE Items(td, Frame(buf, c), c.consumed, <<>>)
  IN  items(ber_check_tags(td, buf, tag_mode, 1))

\* The loop that waits for the end mark of a tagged CHOICE and finds a zero
\* octet that begins none reads it again for ever.
Hang == [code |-> "none"]

\* An unknown member of an extensible CHOICE is skipped and none is present.
CHOICE_decode_ber(td, buf, tag_mode) ==
  LET tagged == tag_mode # 0 \/ td.tags # <<>>
      end(f, pos, rest, st) ==
        IF ~tagged \/ AtEnd(f, pos) THEN Ok(pos, st)
        ELSE IF ~f.nulls THEN Fail
        ELSE IF rest = <<>> \/ HalfMark(f, rest) THEN More
        ELSE IF EndMark(f, rest) THEN Ok(pos + 2, st)
        ELSE IF rest[1] = 0 THEN Hang ELSE Fail
      chosen(f, pos, k, v) ==
        CASE v.code = "RC_OK" -> end(f, pos + v.consumed, Drop(f.data, pos + v.consumed),
                                     [present |-> k, choice |-> v.value])
          [] v.code = "RC_WMORE" -> Short(f)
          [] OTHER -> v
      member(f, pos, k, rest) ==
        chosen(f, pos, k, ber_decoder(td.elements[k].type, rest, td.elements[k].tag_mode))
      unknown(f, pos, skip) ==
        IF ~td.ext \/ skip < 0 THEN Fail
        ELSE IF skip = 0 THEN Short(f)
        ELSE Ok(pos + skip, [present |-> 0, choice |-> <<>>])
      named(f, pos, rest, t, found) ==
        IF t.len < 0 THEN Fail
        ELSE IF t.len = 0 THEN Short(f)
        ELSE IF found # {} THEN member(f, pos, Min(found), rest)
        ELSE unknown(f, pos + t.len, SkipAfter(t, rest))
      tlv(f, pos, rest, t) ==
        named(f, pos, rest, t, {k \in DOMAIN td.elements : td.elements[k].tag = t.val})
      from(f, pos, rest) == tlv(f, pos, rest, ber_fetch_tag(rest))
      within(f, pos) == from(f, pos, Drop(f.data, pos))
      check(c) == IF c.code # "RC_OK" THEN c ELSE within(Frame(buf, c), c.consumed)
  IN  IF tagged THEN check(ber_check_tags(td, buf, tag_mode, -1))
      ELSE within([data |-> buf, whole |-> FALSE, nulls |-> FALSE], 0)

\* The decoder that a descriptor points to.
DecoderOf(td, buf, tag_mode) ==
  CASE td.kind = "NativeInteger" -> NativeInteger_decode_ber(td, buf, tag_mode)
    [] td.kind = "INTEGER"       -> INTEGER_decode_ber(td, buf, tag_mode)
    [] td.kind = "BOOLEAN"       -> BOOLEAN_decode_ber(td, buf, tag_mode)
    [] td.kind = "OCTET_STRING"  -> OCTET_STRING_decode_ber(td, buf, tag_mode)
    [] td.kind = "SEQUENCE"      -> SEQUENCE_decode_ber(td, buf, tag_mode)
    [] td.kind = "SEQUENCE_OF"   -> SET_OF_decode_ber(td, buf, tag_mode)
    [] td.kind = "CHOICE"        ->
         CHOICE_decode_ber(td, buf, tag_mode)
=============================================================================
