------------------------------ MODULE AsnMeaning ------------------------------
(***************************************************************************)
(* What the octets of a message mean, by X.690, and how another station    *)
(* may write them, without the code of the codec.  As in AsnCodec, what    *)
(* the definitions say of the parts of a value are operators that a model  *)
(* gives values to.                                                        *)
(***************************************************************************)
EXTENDS AsnPrimitives

CONSTANTS
  Meaning(_, _),    \* MeaningOf
  Chosen(_, _),     \* ChosenIn
  Unchosen(_, _),   \* UnchosenIn
  Ber(_, _, _, _)   \* BerOf

ClearUnused(st) ==
  [st EXCEPT !.octets = [i \in DOMAIN @ |->
     IF i = Len(@) THEN @[i] - (@[i] % 2 ^ st.bits_unused) ELSE @[i]]]

\* The value a receiver should see: unused bits, the octet that stands for
\* TRUE and leading octets of a number do not count.
MeaningOf(d, v) ==
  CASE d.kind = "NativeInteger" -> v
    [] d.kind = "INTEGER"       -> Shortest(v)
    [] d.kind = "BOOLEAN"       -> IF v = 0 THEN 0 ELSE 255
    [] d.kind = "OCTET_STRING"  -> ClearUnused(v)
    [] d.kind = "SEQUENCE"      ->
         [k \in DOMAIN v |-> IF v[k] = <<>> THEN <<>>
                             ELSE <<Meaning(d.elements[k].type, v[k][1])>>]
    [] d.kind = "SEQUENCE_OF"   -> [k \in DOMAIN v |-> Meaning(d.element, v[k])]
    [] d.kind = "CHOICE"        ->
         IF v.present = 0 THEN v
         ELSE [v EXCEPT !.choice = Meaning(d.elements[v.present].type, @)]

\* Whether every CHOICE in a value is made.
ChosenIn(d, v) ==
  CASE d.kind = "SEQUENCE"    -> \A k \in DOMAIN v : v[k] # <<>> =>
                                    Chosen(d.elements[k].type, v[k][1])
    [] d.kind = "SEQUENCE_OF" -> \A k \in DOMAIN v : Chosen(d.element, v[k])
    [] d.kind = "CHOICE"      -> /\ v.present # 0
                                 /\ Chosen(d.elements[v.present].type, v.choice)
    [] OTHER -> TRUE

\* The value with no CHOICE made: what is left of a message whose
\* alternatives the receiver does not know.
UnchosenIn(d, v) ==
  CASE d.kind = "SEQUENCE"    ->
         [k \in DOMAIN v |-> IF v[k] = <<>> THEN <<>>
                             ELSE <<Unchosen(d.elements[k].type, v[k][1])>>]
    [] d.kind = "SEQUENCE_OF" -> [k \in DOMAIN v |-> Unchosen(d.element, v[k])]
    [] d.kind = "CHOICE"      -> [present |-> 0, choice |-> <<>>]
    [] OTHER -> v
-----------------------------------------------------------------------------
(* Another station's encoder.  BER leaves it the choice of                 *)
(*   "long"        lengths with more octets than are needed,               *)
(*   "indefinite"  lengths that an end mark replaces, strings in segments; *)
(* and the station may know a later version of the types, with             *)
(*   "newer"       a further member in every extensible SEQUENCE,          *)
(*   "alien"       alternatives that the receiver's CHOICEs do not have.   *)
(* "der" is what the library itself should send.                           *)
Styles == {"long", "indefinite", "newer", "alien"}

LengthOf(n, style) ==
  IF style = "long" THEN <<132, 0, n \div 65536, (n \div 256) % 256, n % 256>>
  ELSE IF n < 128 THEN <<n>>
  ELSE IF n < 256 THEN <<129, n>>
  ELSE IF n < 65536 THEN <<130, n \div 256, n % 256>>
  ELSE <<131, n \div 65536, (n \div 256) % 256, n % 256>>

\* The tags of the messages are below 31.
TLV(tag, constructed, body, style) ==
  LET id == 64 * (tag % 4) + (tag \div 4) + IF constructed THEN 32 ELSE 0
  IN  IF style = "indefinite" /\ constructed
      THEN <<id, 128>> \o body \o <<0, 0>>
      ELSE <<id>> \o LengthOf(Len(body), style) \o body

\* A member or an alternative with the tag [40] that the receiver lacks.
Unknown == <<191, 40, 3, 128, 1, 7>>

BerOf(d, v, tags, style) ==
  LET member(k) == IF v[k] = <<>> THEN <<>>
                   ELSE LET e == d.elements[k]
                        IN  Ber(e.type, v[k][1],
                                <<e.tag>> \o IF e.type.tags = <<>> THEN <<>>
                                             ELSE Tail(e.type.tags), style)
      string == IF d.variant = "BIT" THEN <<v.bits_unused>> \o ClearUnused(v).octets
                                     ELSE v.octets
      wrap(constructed, body) == IF tags = <<>> THEN body
                                 ELSE TLV(tags[1], constructed, body, style)
  IN  CASE d.kind \in {"NativeInteger", "INTEGER"} -> wrap(FALSE, Shortest(v))
        [] d.kind = "BOOLEAN" -> wrap(FALSE, <<IF v = 0 THEN 0 ELSE 255>>)
        [] d.kind = "OCTET_STRING" ->
             IF style # "indefinite" THEN wrap(FALSE, string)
             ELSE LET cut == (Len(v.octets) + 1) \div 2
                      seg(o) == TLV(d.tags[1], FALSE, o, style)
                  IN  wrap(TRUE,
                        IF d.variant = "BIT" THEN seg(string)
                        ELSE seg(SubSeq(string, 1, cut)) \o seg(Drop(string, cut)))
        [] d.kind = "SEQUENCE" ->
             wrap(TRUE, FlattenSeq([k \in DOMAIN v |-> member(k)])
                          \o IF style = "newer" /\ d.ext THEN Unknown ELSE <<>>)
        [] d.kind = "SEQUENCE_OF" ->
             wrap(TRUE, FlattenSeq([k \in DOMAIN v |->
                                      Ber(d.element, v[k], d.element.tags, style)]))
        [] d.kind = "CHOICE" ->
             wrap(TRUE,
               IF style = "alien" THEN Unknown
               ELSE LET e == d.elements[v.present]
                    IN  Ber(e.type, v.choice, <<e.tag>>, style))
-----------------------------------------------------------------------------
(* The values of the types, for the assumptions: what the descriptors that *)
(* asn1c generates and the structures that the library fills are like.     *)

OwnTag(d) == \E t \in ShortTag : d.tags = <<t>>

\* An unsigned number that begins with nine bits set loses its first octet.
LongValue(d, v) ==
  /\ OwnTag(d) /\ v \in Seq(Octet) /\ Len(v) = 8
  /\ d.field_unsigned \in BOOLEAN
  /\ d.field_unsigned => ~(v[1] = 255 /\ v[2] >= 128)

IntegerValue(d, v) == OwnTag(d) /\ v \in Contents /\ v # <<>>

BooleanValue(d, v) == OwnTag(d) /\ v \in Octet

\* Only a bit string has unused bits.
StringValue(d, v) ==
  /\ OwnTag(d) /\ v \in [bits_unused : 0 .. 7, octets : Seq(Octet)]
  /\ d.variant # "BIT" => v.bits_unused = 0

\* The n members have tags of their own, in place of the one of their type
\* or around a CHOICE, which has none.
MemberTagged(e) ==
  \/ OwnTag(e.type) /\ e.tag_mode = -1
  \/ e.type.tags = <<>> /\ e.tag_mode = 1

HasMembers(d, n) ==
  /\ n \in Nat /\ Len(d.elements) = n /\ DOMAIN d.elements = 1 .. n
  /\ \A k \in 1 .. n : d.elements[k].tag \in ShortTag /\ d.elements[k].optional \in Nat
  /\ \A i, j \in 1 .. n : d.elements[i].tag = d.elements[j].tag => i = j

\* optional counts the optional members from each one on.
OptionalsCounted(d, n) ==
  \A k \in 1 .. n, j \in 1 .. n + 1 :
    k < j /\ (\A i \in k .. j - 1 : d.elements[i].optional > 0)
      => k + d.elements[k].optional >= j

SequenceValue(d, v, n) ==
  /\ HasMembers(d, n) /\ OptionalsCounted(d, n)
  /\ \A k \in 1 .. n : MemberTagged(d.elements[k])
  /\ DOMAIN v = 1 .. n
  /\ \A k \in 1 .. n : v[k] = <<>> => d.elements[k].optional > 0

\* The items of a list are sent under the tag of their type.
ListValue(d, v, n) == n \in Nat /\ OwnTag(d.element) /\ DOMAIN v = 1 .. n

\* 0: no alternative was chosen.
ChoiceValue(d, v, n) ==
  /\ HasMembers(d, n) /\ d.tags = <<>>
  /\ \A k \in 1 .. n : MemberTagged(d.elements[k])
  /\ v = [present |-> v.present, choice |-> v.choice] /\ v.present \in 0 .. n

ValueOf(d, v) ==
  CASE d.kind = "NativeInteger" -> LongValue(d, v)
    [] d.kind = "INTEGER"       -> IntegerValue(d, v)
    [] d.kind = "BOOLEAN"       -> BooleanValue(d, v)
    [] d.kind = "OCTET_STRING"  -> StringValue(d, v)
    [] d.kind = "SEQUENCE"      -> OwnTag(d) /\ SequenceValue(d, v, Len(d.elements))
    [] d.kind = "SEQUENCE_OF"   -> OwnTag(d) /\ ListValue(d, v, Len(v))
    [] d.kind = "CHOICE"        -> ChoiceValue(d, v, Len(d.elements))
    [] OTHER -> FALSE

\* The parts of a value, each with its type.
PartsOf(d, v) ==
  CASE d.kind = "SEQUENCE"    -> {<<d.elements[k].type, v[k][1]>> :
                                    k \in {k \in DOMAIN v : v[k] # <<>>}}
    [] d.kind = "SEQUENCE_OF" -> {<<d.element, v[k]>> : k \in DOMAIN v}
    [] d.kind = "CHOICE"      -> IF v.present = 0 THEN {}
                                 ELSE {<<d.elements[v.present].type, v.choice>>}
    [] OTHER -> {}
=============================================================================
