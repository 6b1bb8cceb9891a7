----------------------------- MODULE MCDEREncoder -----------------------------
(***************************************************************************)
(* Every type of the messages, with a few values each.                     *)
(***************************************************************************)
EXTENDS DEREncoder

CONSTANTS Seeds,   \* numbers that select sample values
          Shapes   \* the ones of them that are used for SEQUENCEs and lists

\* CAM and DENM are the types with a PDU header.
IsPDU(td) == td.kind = "SEQUENCE" /\ td.elements[1].name = "header"
MCPDUs == {k \in DOMAIN AllTypes : IsPDU(AllTypes[k])}

(* Sample values: within the generated constraints, at their borders and   *)
(* where an octet or a sign begins.                                        *)

Pick(list, k) == list[1 + (k % Len(list))]

Borders(lo, hi) ==
  SelectSeq(<<lo, hi, 0, 127, 128, -128, -129, 255, 256, -32769, 8388608>>,
            LAMBDA v : lo <= v /\ v <= hi)

Zeros(n) == [i \in 1 .. n |-> 0]
Ones(n) == [i \in 1 .. n |-> 255]

StationIDs == <<Long(0), Zeros(4) \o <<127, 255, 255, 255>>,
                Zeros(4) \o <<128, 0, 0, 0>>, Zeros(4) \o Ones(4)>>

\* siToITSTimestamp always makes eight octets.
Timestamps == <<Zeros(8), Zeros(2) \o <<3>> \o Ones(5), Long(128)>>

BitSample(n, octet) ==
  LET size == (n + 7) \div 8
  IN  [bits_unused |-> 8 * size - n, octets |-> [i \in 1 .. size |-> octet]]

RECURSIVE Sample(_, _)
Sample(td, k) ==
  LET present(j) == td.elements[j].optional = 0 \/ k % 3 = 1 \/ (k % 3 = 2 /\ j % 2 = 1)
      n == IF k % 11 = 10 THEN 0 ELSE 1 + (k % Len(td.elements))
  IN  CASE td.kind = "NativeInteger" ->
             IF td.field_unsigned THEN Pick(StationIDs, k)
             ELSE Long(Pick(Borders(td.lo, td.hi), k))
        [] td.kind = "INTEGER" -> Pick(Timestamps, k)
        [] td.kind = "BOOLEAN" -> k % 2
        [] td.kind = "OCTET_STRING" ->
             IF td.variant = "BIT"
             THEN BitSample(Pick(<<td.lo, td.hi>>, k), Pick(<<0, 255, 129>>, k))
             ELSE [bits_unused |-> 0,
                   octets |-> [i \in 1 .. Pick(<<td.lo, td.hi>>, k) |-> 48 + (i % 10)]]
        [] td.kind = "SEQUENCE" ->
             [j \in DOMAIN td.elements |->
                IF present(j) THEN <<Sample(td.elements[j].type, k + j)>> ELSE <<>>]
        [] td.kind = "SEQUENCE_OF" ->
             [j \in 1 .. Pick(<<0, 1, 2, 1, 20>>, k) |-> Sample(td.element, k + j)]
        [] td.kind = "CHOICE" ->
             [present |-> n,
              choice |-> IF n = 0 THEN <<>> ELSE Sample(td.elements[n].type, k)]

SeedsOf(td) == IF td.kind \in {"SEQUENCE", "SEQUENCE_OF"} THEN Shapes ELSE Seeds

MCMessages == UNION {{<<k, Sample(AllTypes[k], s)>> : s \in SeedsOf(AllTypes[k])} :
                       k \in DOMAIN AllTypes}
-----------------------------------------------------------------------------
(* What stands for the codecs of the parts of a value and for the next     *)
(* turns of the loops.  TLC's count of coverage follows the value of a     *)
(* constant as far as a LET.                                               *)

RECURSIVE MCEncoder(_, _, _, _), MCDecoder(_, _, _), MCSegments(_, _, _, _, _, _),
          MCTrailer(_, _, _, _), MCMembers(_, _, _, _, _), MCItems(_, _, _, _),
          MCSkipContents(_, _), MCMeaning(_, _), MCChosen(_, _), MCUnchosen(_, _),
          MCBer(_, _, _, _)
MCEncoder(td, st, tag_mode, tag) == LET octets == EncoderOf(td, st, tag_mode, tag) IN octets
MCDecoder(td, buf, tag_mode) == LET r == DecoderOf(td, buf, tag_mode) IN r
MCSegments(td, buf, pos, left, nulls, st) == LET r == SegmentsFrom(td, buf, pos, left, nulls, st) IN r
MCTrailer(td, f, pos, st) == LET r == TrailerFrom(td, f, pos, st) IN r
MCMembers(td, f, edx, pos, st) == LET r == MembersFrom(td, f, edx, pos, st) IN r
MCItems(td, f, pos, list) == LET r == ItemsFrom(td, f, pos, list) IN r
MCSkipContents(buf, done) == LET n == ContentsFrom(buf, done) IN n
MCMeaning(d, v) == LET w == MeaningOf(d, v) IN w
MCChosen(d, v) == LET b == ChosenIn(d, v) IN b
MCUnchosen(d, v) == LET w == UnchosenIn(d, v) IN w
MCBer(d, v, tags, style) == LET octets == BerOf(d, v, tags, style) IN octets

RECURSIVE AllParts(_, _)
AllParts(d, v) == {<<d, v>>} \cup UNION {AllParts(p[1], p[2]) : p \in PartsOf(d, v)}

MCValues == UNION {AllParts(AllTypes[m[1]], m[2]) : m \in MCMessages}

RECURSIVE MCDepth(_)
MCDepth(d) ==
  CASE d.kind \in {"SEQUENCE", "CHOICE"} ->
         1 + Max({MCDepth(d.elements[k].type) : k \in DOMAIN d.elements})
    [] d.kind = "SEQUENCE_OF" -> 1 + MCDepth(d.element)
    [] OTHER -> 0
=============================================================================
