--------------------------- MODULE DEREncoderProofs ---------------------------
(***************************************************************************)
(* Proofs about DEREncoder and AsnCodec: for every type that is made  *)
(* of types whose codecs are faithful, so is its own; hence every value of *)
(* every message is encoded as X.690 demands and decoded as it was meant,  *)
(* and the messages of the state machine are.                              *)
(***************************************************************************)
EXTENDS DEREncoder, AsnPrimitivesProofs

\* The encodings parts begin at the offsets off in the encodings that follow
\* each other.
Placed(joined, parts, n, off) ==
  /\ off \in [1 .. n + 1 -> Nat] /\ off[1] = 0 /\ Len(joined) = off[n + 1]
  /\ \A k \in 1 .. n :
       /\ off[k + 1] = off[k] + Len(parts[k])
       /\ \A i \in 1 .. Len(parts[k]) : joined[off[k] + i] = parts[k][i]

\* u is the a elements of s and the b ones of t.
Joins(u, s, a, t, b) ==
  /\ Len(u) = a + b
  /\ \A i \in 1 .. a : u[i] = s[i]
  /\ \A i \in 1 .. b : u[a + i] = t[i]

(* Two sequences one after the other.                                       *)
LEMMA Appended ==
  ASSUME NEW S, NEW s \in Seq(S), NEW t \in Seq(S), NEW a \in Nat, Len(s) = a,
         NEW b \in Nat, Len(t) = b
  PROVE  s \o t \in Seq(S) /\ Joins(s \o t, s, a, t, b)
<1> DEFINE u == s \o t
<1>1. /\ u \in Seq(S) /\ Len(u) = Len(s) + Len(t)
      /\ \A i \in 1 .. Len(s) + Len(t) : u[i] = IF i <= Len(s) THEN s[i] ELSE t[i - Len(s)]
  BY ConcatProperties, Zenon
<1> HIDE DEF u
<1>2. \A i \in 1 .. a : i \in 1 .. a + b /\ i <= a
  OBVIOUS
<1>3. \A i \in 1 .. b : a + i \in 1 .. a + b /\ ~(a + i <= a) /\ (a + i) - a = i
  OBVIOUS
<1>4. \A i \in 1 .. a : u[i] = s[i]
  BY <1>1, <1>2
<1>5. \A i \in 1 .. b : u[a + i] = t[i]
  BY <1>1, <1>3
<1> QED BY <1>1, <1>4, <1>5 DEF Joins, u

(* Offsets that grow at each step grow at several.                          *)
LEMMA OffsetsGrow ==
  ASSUME NEW n \in Nat, NEW off \in [1 .. n + 1 -> Nat],
         \A k \in 1 .. n : off[k] <= off[k + 1],
         NEW j \in 1 .. n + 1, NEW k \in j .. n + 1
  PROVE  off[j] <= off[k]
<1> DEFINE below == {i \in j .. n + 1 : ~(off[j] <= off[i])}
<1>1. SUFFICES ASSUME below # {} PROVE FALSE
  OBVIOUS
<1>2. below \in SUBSET Nat
  OBVIOUS
<1>3. PICK i \in below : \A y \in below : i <= y
  BY <1>1, <1>2, MinIsLeast
<1>4. i \in j .. n + 1 /\ ~(off[j] <= off[i]) /\ off[j] \in Nat
  OBVIOUS
<1>5. PICK q \in 1 .. n : q + 1 = i /\ q \in j .. n + 1 /\ ~(i <= q)
  <2>1. i # j
    BY <1>4
  <2>2. i - 1 \in 1 .. n /\ (i - 1) + 1 = i /\ i - 1 \in j .. n + 1 /\ ~(i <= i - 1)
    BY <1>4, <2>1
  <2> QED BY <2>2
<1>6. off[j] <= off[q]
  BY <1>3, <1>5
<1>7. off[q] <= off[q + 1] /\ off[q] \in Nat /\ off[q + 1] \in Nat
  OBVIOUS
<1> QED BY <1>4, <1>5, <1>6, <1>7

(* Offsets that stay at each step stay at several.                          *)
LEMMA OffsetsStay ==
  ASSUME NEW n \in Nat, NEW off \in [1 .. n + 1 -> Nat],
         NEW j \in 1 .. n + 1, NEW k \in j .. n + 1,
         \A i \in j .. k - 1 : off[i + 1] = off[i]
  PROVE  off[k] = off[j]
<1> DEFINE moved == {i \in j .. k : off[i] # off[j]}
<1>1. SUFFICES ASSUME moved # {} PROVE FALSE
  <2>1. ASSUME moved = {} PROVE off[k] = off[j]
    <3>1. k \in j .. k
      OBVIOUS
    <3>2. ~(off[k] # off[j])
      BY <2>1, <3>1, Zenon
    <3> QED BY <3>2, Zenon
  <2> QED BY <2>1, Zenon
<1>2. moved \in SUBSET Nat
  <2>1. j \in Nat /\ j .. k \subseteq Nat
    OBVIOUS
  <2>2. moved \subseteq j .. k
    OBVIOUS
  <2> QED BY <2>1, <2>2, Zenon
<1>3. PICK i \in moved : \A y \in moved : i <= y
  BY <1>1, <1>2, MinIsLeast
<1>4. i \in j .. k /\ off[i] # off[j]
  OBVIOUS
<1>5. PICK q \in j .. k - 1 : q + 1 = i /\ q \in j .. k /\ ~(i <= q)
  <2>1. i # j
    BY <1>4
  <2>2. i - 1 \in j .. k - 1 /\ (i - 1) + 1 = i /\ i - 1 \in j .. k /\ ~(i <= i - 1)
    BY <1>4, <2>1
  <2> QED BY <2>2
<1>6. off[q] = off[j]
  BY <1>3, <1>5
<1>7. off[q + 1] = off[q]
  OBVIOUS
<1> QED BY <1>4, <1>5, <1>6, <1>7

(* The same parts are in the same places.                                   *)
LEMMA PlacedAlike ==
  ASSUME NEW n \in Nat, NEW parts, NEW same, \A i \in 1 .. n : parts[i] = same[i],
         NEW joined, NEW off, Placed(joined, parts, n, off)
  PROVE  Placed(joined, same, n, off)
<1>1. ASSUME NEW k \in 1 .. n
      PROVE  /\ off[k + 1] = off[k] + Len(same[k])
             /\ \A i \in 1 .. Len(same[k]) : joined[off[k] + i] = same[k][i]
  <2>1. /\ off[k + 1] = off[k] + Len(parts[k])
        /\ \A i \in 1 .. Len(parts[k]) : joined[off[k] + i] = parts[k][i]
    BY Zenon DEF Placed
  <2>2. parts[k] = same[k]
    OBVIOUS
  <2> QED BY <2>1, <2>2
<1>2. off \in [1 .. n + 1 -> Nat] /\ off[1] = 0 /\ Len(joined) = off[n + 1]
  BY Zenon DEF Placed
<1> QED BY <1>1, <1>2, Zenon DEF Placed

(* One more part after parts that follow each other.                        *)
LEMMA PlacedLast ==
  ASSUME NEW S, NEW n \in Nat, NEW parts \in [1 .. n + 1 -> Seq(S)],
         NEW joined \in Seq(S), NEW off, Placed(joined, parts, n, off)
  PROVE  /\ joined \o parts[n + 1] \in Seq(S)
         /\ \E o : Placed(joined \o parts[n + 1], parts, n + 1, o)
<1> DEFINE last == parts[n + 1]
           all == joined \o last
<1>1. last \in Seq(S)
  OBVIOUS
<1>2. PICK m \in Nat : Len(last) = m
  BY <1>1
<1> HIDE DEF last
<1>3. /\ off \in [1 .. n + 1 -> Nat] /\ off[1] = 0 /\ Len(joined) = off[n + 1]
      /\ \A k \in 1 .. n :
           /\ off[k + 1] = off[k] + Len(parts[k])
           /\ \A i \in 1 .. Len(parts[k]) : joined[off[k] + i] = parts[k][i]
  BY DEF Placed
<1>4. PICK a \in Nat : off[n + 1] = a
  BY <1>3
<1>5. /\ all \in Seq(S) /\ Len(all) = a + m
      /\ \A i \in 1 .. a : all[i] = joined[i]
      /\ \A i \in 1 .. m : all[a + i] = last[i]
  <2>1. Len(joined) = a
    BY <1>3, <1>4
  <2>2. all \in Seq(S) /\ Joins(all, joined, a, last, m)
    BY <1>1, <1>2, <1>4, <2>1, Appended, Zenon
  <2> HIDE DEF all
  <2> QED BY <2>2 DEF Joins
<1> HIDE DEF all
<1> DEFINE o == [k \in 1 .. n + 2 |-> IF k = n + 2 THEN a + m ELSE off[k]]
<1>6. /\ o \in [1 .. (n + 1) + 1 -> Nat] /\ o[1] = 0 /\ o[n + 2] = a + m /\ o[n + 1] = a
      /\ \A k \in 1 .. n : o[k] = off[k] /\ o[k + 1] = off[k + 1]
  BY <1>3, <1>4
<1> HIDE DEF o
<1>7. ASSUME NEW k \in 1 .. n, NEW i \in 1 .. Len(parts[k])
      PROVE  all[off[k] + i] = parts[k][i]
  <2>1. PICK p \in Nat : Len(parts[k]) = p
    OBVIOUS
  <2>2. off[k] \in Nat /\ off[k + 1] = off[k] + p
    BY <1>3, <2>1
  <2>3. off[k + 1] <= a
    <3>1. \A j \in 1 .. n : off[j] <= off[j + 1]
      <4>1. SUFFICES ASSUME NEW j \in 1 .. n PROVE off[j] <= off[j + 1]
        OBVIOUS
      <4>2. off[j + 1] = off[j] + Len(parts[j])
        BY <1>3
      <4>3. parts[j] \in Seq(S) /\ j \in 1 .. n + 1
        OBVIOUS
      <4>4. off[j] \in Nat /\ Len(parts[j]) \in Nat
        BY <1>3, <4>3
      <4> DEFINE p1 == off[j]
                 p2 == Len(parts[j])
      <4>5. p1 \in Nat /\ p2 \in Nat
        BY <4>4, Zenon
      <4> HIDE DEF p1, p2
      <4>6. p1 <= p1 + p2
        BY <4>5
      <4> QED BY <4>2, <4>6 DEF p1, p2
    <3>2. k + 1 \in 1 .. n + 1 /\ n + 1 \in k + 1 .. n + 1
      OBVIOUS
    <3> QED BY <1>3, <1>4, <3>1, <3>2, OffsetsGrow
  <2>4. off[k] + i \in 1 .. a
    <3>1. i \in 1 .. p
      BY <2>1
    <3>2. PICK x \in Nat : off[k] = x
      BY <2>2
    <3>3. x + p <= a
      BY <2>2, <2>3, <3>2
    <3>4. x + i \in 1 .. a
      BY <3>1, <3>3
    <3> QED BY <3>2, <3>4
  <2>5. joined[off[k] + i] = parts[k][i]
    BY <1>3
  <2> QED BY <1>5, <2>4, <2>5
<1>8. ASSUME NEW k \in 1 .. n + 1
      PROVE  /\ o[k + 1] = o[k] + Len(parts[k])
             /\ \A i \in 1 .. Len(parts[k]) : all[o[k] + i] = parts[k][i]
  <2>1. CASE k = n + 1
    <3>1. o[k] = a /\ o[k + 1] = a + m /\ parts[k] = last
      BY <1>6, <2>1 DEF last
    <3> QED BY <1>2, <1>5, <3>1
  <2>2. CASE k # n + 1
    <3>1. k \in 1 .. n
      BY <2>2
    <3>2. o[k] = off[k] /\ o[k + 1] = off[k + 1]
      BY <1>6, <3>1
    <3> QED BY <1>3, <1>7, <3>1, <3>2
  <2> QED BY <2>1, <2>2
<1>9. Placed(all, parts, n + 1, o)
  <2>1. (n + 1) + 1 = n + 2
    OBVIOUS
  <2> QED BY <1>5, <1>6, <1>8, <2>1 DEF Placed
<1> QED BY <1>5, <1>9 DEF all, last

(* What FlattenSeq makes of parts.                                          *)
LEMMA Flattened ==
  ASSUME NEW S, NEW n \in Nat, NEW parts \in [1 .. n -> Seq(S)]
  PROVE  /\ FlattenSeq(parts) \in Seq(S)
         /\ \E off : Placed(FlattenSeq(parts), parts, n, off)
<1>1. parts \in Seq(Seq(S)) /\ Len(parts) = n
  OBVIOUS
<1>2. CASE n = 0
  <2>1. parts = <<>> /\ FlattenSeq(parts) = parts
    BY <1>1, <1>2 DEF FlattenSeq
  <2>2. parts \in Seq(S) /\ Len(parts) = 0
    BY <2>1
  <2> DEFINE off == [k \in 1 .. 1 |-> 0]
  <2>3. off \in [1 .. 0 + 1 -> Nat] /\ off[1] = 0 /\ off[0 + 1] = 0
    OBVIOUS
  <2> HIDE DEF off
  <2>4. Placed(parts, parts, 0, off)
    BY <2>2, <2>3 DEF Placed
  <2> QED BY <1>2, <2>1, <2>2, <2>4
<1>3. CASE n # 0
  <2> DEFINE at(f, i) == IF i = 1 THEN parts[i] ELSE f[i - 1] \o parts[i]
             joins(f) == f = [i \in 1 .. n |-> at(f, i)]
             good(f, i) == f[i] \in Seq(S) /\ \E off : Placed(f[i], parts, i, off)
             upto(f, m) == \A i \in 1 .. m : f[i] = at(f, i)
             bad == {m \in 1 .. n : ~\E f : upto(f, m)}
  <2>1. ASSUME NEW m \in 1 .. n PROVE \E f : upto(f, m)
    <3>1. SUFFICES ASSUME bad # {} PROVE FALSE
      OBVIOUS
    <3>2. bad \in SUBSET Nat
      OBVIOUS
    <3>3. PICK k \in bad : \A y \in bad : k <= y
      BY <3>1, <3>2, MinIsLeast
    <3>4. k \in 1 .. n /\ ~\E f : upto(f, k)
      OBVIOUS
    <3>5. PICK f : \A i \in 1 .. k - 1 : f[i] = at(f, i)
      <4>1. CASE k = 1
        BY <4>1
      <4>2. CASE k # 1
        <5>1. k - 1 \in 1 .. n /\ ~(k <= k - 1)
          BY <3>4, <4>2
        <5> HIDE DEF upto
        <5>2. \E f : upto(f, k - 1)
          BY <3>3, <5>1
        <5> QED BY <5>2 DEF upto
      <4> QED BY <4>1, <4>2
    <3> DEFINE g == [i \in 1 .. k |-> IF i = k THEN at(f, k) ELSE f[i]]
    <3>6. ASSUME NEW i \in 1 .. k PROVE g[i] = at(g, i)
      <4>1. CASE i = k
        <5>1. k = 1 \/ g[k - 1] = f[k - 1]
          <6>1. k # 1 => k - 1 \in 1 .. k /\ k - 1 # k
            BY <3>4
          <6> HIDE DEF at
          <6> QED BY <6>1
        <5>2. g[k] = at(f, k)
          <6>1. k \in 1 .. k
            BY <3>4
          <6> HIDE DEF at
          <6> QED BY <6>1
        <5> HIDE DEF g
        <5> QED BY <4>1, <5>1, <5>2
      <4>2. CASE i # k
        <5>0. i \in 1 .. k - 1 /\ (i # 1 => i - 1 \in 1 .. k /\ i - 1 # k)
          BY <3>4, <4>2
        <5>1. i \in 1 .. k - 1 /\ g[i] = f[i] /\ (i = 1 \/ g[i - 1] = f[i - 1])
          <6> HIDE DEF at
          <6> QED BY <4>2, <5>0
        <5> HIDE DEF g
        <5> QED BY <3>5, <5>1
      <4> QED BY <4>1, <4>2
    <3> HIDE DEF g
    <3>7. upto(g, k)
      BY <3>6
    <3> QED BY <3>4, <3>7
  <2> DEFINE flatten == CHOOSE f : joins(f)
  <2>2. joins(flatten)
    <3>1. PICK f : \A i \in 1 .. n : f[i] = at(f, i)
      <4>1. n \in 1 .. n
        BY <1>3
      <4>2. \E f : upto(f, n)
        <5> HIDE DEF upto
        <5> QED BY <2>1, <4>1
      <4> QED BY <4>2
    <3> DEFINE g == [i \in 1 .. n |-> f[i]]
    <3>2. ASSUME NEW i \in 1 .. n PROVE g[i] = at(g, i)
      <4>1. g[i] = f[i] /\ (i = 1 \/ g[i - 1] = f[i - 1])
        OBVIOUS
      <4> HIDE DEF g
      <4> QED BY <3>1, <4>1
    <3>3. joins(g)
      BY <3>2
    <3> HIDE DEF g, joins
    <3> QED BY <3>3, Zenon
  <2> HIDE DEF flatten
  <2>3. \A i \in 1 .. n : flatten[i] = at(flatten, i)
    BY <2>2
  <2>4. FlattenSeq(parts) = flatten[n]
    <3>1. Len(parts) # 0
      BY <1>1, <1>3
    <3> QED BY <1>1, <3>1, Zenon DEF FlattenSeq, flatten
  <2> DEFINE wrong == {m \in 1 .. n : ~good(flatten, m)}
  <2>5. wrong = {}
    <3>1. SUFFICES ASSUME wrong # {} PROVE FALSE
      OBVIOUS
    <3>2. wrong \in SUBSET Nat
      OBVIOUS
    <3>3. PICK k \in wrong : \A y \in wrong : k <= y
      BY <3>1, <3>2, MinIsLeast
    <3>4. k \in 1 .. n /\ ~good(flatten, k)
      OBVIOUS
    <3>5. CASE k = 1
      <4> DEFINE p == parts[1]
                 off == [i \in 1 .. 2 |-> IF i = 1 THEN 0 ELSE Len(p)]
      <4>1. flatten[1] = p /\ p \in Seq(S)
        BY <1>3, <2>3
      <4>2. Len(p) \in Nat
        BY <4>1
      <4> HIDE DEF p
      <4>3. off \in [1 .. 1 + 1 -> Nat] /\ off[1] = 0 /\ off[1 + 1] = Len(p)
        BY <4>2
      <4> HIDE DEF off
      <4>4. Placed(p, parts, 1, off)
        <5>1. ASSUME NEW j \in 1 .. 1
              PROVE  /\ off[j + 1] = off[j] + Len(parts[j])
                     /\ \A i \in 1 .. Len(parts[j]) : p[off[j] + i] = parts[j][i]
          <6>1. j = 1 /\ parts[j] = p
            BY DEF p
          <6> QED BY <4>2, <4>3, <6>1
        <5> QED BY <4>3, <5>1 DEF Placed
      <4> QED BY <3>4, <3>5, <4>1, <4>4
    <3>6. CASE k # 1
      <4>1. k - 1 \in 1 .. n /\ k - 1 \in Nat /\ ~(k <= k - 1) /\ (k - 1) + 1 = k
        BY <3>4, <3>6
      <4> HIDE DEF good
      <4>2. good(flatten, k - 1)
        BY <3>3, <4>1
      <4>3. PICK off : flatten[k - 1] \in Seq(S) /\ Placed(flatten[k - 1], parts, k - 1, off)
        BY <4>2 DEF good
      <4> DEFINE some == [i \in 1 .. (k - 1) + 1 |-> parts[i]]
      <4>4. some \in [1 .. (k - 1) + 1 -> Seq(S)]
        BY <3>4
      <4>5. \A i \in 1 .. k : some[i] = parts[i]
        OBVIOUS
      <4> HIDE DEF some
      <4>6. Placed(flatten[k - 1], some, k - 1, off)
        <5>1. \A i \in 1 .. k - 1 : parts[i] = some[i]
          BY <3>4, <4>5
        <5> QED BY <4>1, <4>3, <5>1, PlacedAlike
      <4>7. /\ flatten[k - 1] \o some[(k - 1) + 1] \in Seq(S)
            /\ \E o : Placed(flatten[k - 1] \o some[(k - 1) + 1], some, (k - 1) + 1, o)
        BY <4>1, <4>3, <4>4, <4>6, PlacedLast
      <4>8. flatten[k] = flatten[k - 1] \o parts[k] /\ some[k] = parts[k]
        <5>1. flatten[k] = at(flatten, k) /\ k \in 1 .. k
          BY <2>3, <3>4
        <5> QED BY <3>6, <4>5, <5>1
      <4>9. PICK o : Placed(flatten[k], some, k, o)
        BY <4>1, <4>7, <4>8
      <4>10. Placed(flatten[k], parts, k, o)
        <5>1. k \in Nat
          BY <3>4
        <5> QED BY <4>5, <4>9, <5>1, PlacedAlike
      <4> QED BY <3>4, <4>1, <4>7, <4>8, <4>10 DEF good
    <3> QED BY <3>5, <3>6
  <2>6. n \in 1 .. n
    BY <1>3
  <2> QED BY <2>4, <2>5, <2>6
<1> QED BY <1>2, <1>3

\* What the operators of AsnCodec stand for.
IsDecoder ==
  /\ \A td, buf, tag_mode : ber_decoder(td, buf, tag_mode) = DecoderOf(td, buf, tag_mode)
  /\ \A td, f, pos, st : Trailer(td, f, pos, st) = TrailerFrom(td, f, pos, st)
  /\ \A td, f, edx, pos, st :
       Members(td, f, edx, pos, st) = MembersFrom(td, f, edx, pos, st)
  /\ \A td, f, pos, list : Items(td, f, pos, list) = ItemsFrom(td, f, pos, list)

IsEncoder ==
  \A td, st, tag_mode, tag :
    der_encoder(td, st, tag_mode, tag) = EncoderOf(td, st, tag_mode, tag)

\* Those of AsnMeaning.
IsMeaning ==
  /\ \A d, v : Meaning(d, v) = MeaningOf(d, v)
  /\ \A d, v : Chosen(d, v) = ChosenIn(d, v)
  /\ \A d, v : Unchosen(d, v) = UnchosenIn(d, v)
  /\ \A d, v, tags, style : Ber(d, v, tags, style) = BerOf(d, v, tags, style)

\* rest is what is left of the e elements of s after p.
Remains(rest, s, e, p) ==
  /\ Len(rest) = IF p <= e THEN e - p ELSE 0
  /\ \A i \in 1 .. e - p : rest[i] = s[p + i]

(* What is left of a buffer.                                                *)
LEMMA DropIs ==
  ASSUME NEW S, NEW s \in Seq(S), NEW e \in Nat, Len(s) = e, NEW p \in Nat
  PROVE  Drop(s, p) \in Seq(S) /\ Remains(Drop(s, p), s, e, p)
<1> DEFINE rest == Drop(s, p)
<1>1. rest = SubSeq(s, p + 1, e)
  BY DEF Drop
<1>2. CASE p <= e
  <2>1. \A i \in p + 1 .. e : s[i] \in S
    OBVIOUS
  <2>2. /\ SubSeq(s, p + 1, e) \in Seq(S)
        /\ Len(SubSeq(s, p + 1, e)) = e - (p + 1) + 1
        /\ \A i \in 1 .. e - (p + 1) + 1 : SubSeq(s, p + 1, e)[i] = s[p + 1 + i - 1]
    BY <1>2, <2>1, SubSeqProperties
  <2>3. e - (p + 1) + 1 = e - p /\ \A i \in 1 .. e - p : p + 1 + i - 1 = p + i
    OBVIOUS
  <2> HIDE DEF rest
  <2>4. rest \in Seq(S) /\ Remains(rest, s, e, p)
    BY <1>1, <1>2, <2>2, <2>3 DEF Remains
  <2> QED BY <2>4 DEF rest
<1>3. CASE ~(p <= e)
  <2>1. SubSeq(s, p + 1, e) = <<>>
    BY <1>3
  <2>2. rest = <<>> /\ Len(<<>>) = 0 /\ <<>> \in Seq(S)
    BY <1>1, <2>1
  <2>3. \A i \in 1 .. e - p : FALSE
    BY <1>3
  <2> QED BY <1>3, <2>2, <2>3 DEF Remains
<1> QED BY <1>2, <1>3

\* A frame that holds h octets of a header and the contents body, or a
\* beginning of them.
Frames(f, h, body) ==
  /\ f.data \in Seq(Octet) /\ f.whole \in BOOLEAN /\ ~f.nulls
  /\ IF f.whole THEN Len(f.data) = h + Len(body) ELSE Len(f.data) < h + Len(body)
  /\ \A i \in 1 .. Len(body) : h + i <= Len(f.data) => f.data[h + i] = body[i]

\* part is in body from o on.
Holds(body, o, part) ==
  /\ o + Len(part) <= Len(body)
  /\ \A i \in 1 .. Len(part) : body[o + i] = part[i]

\* rest begins with part, or is a beginning of it if the frame is not whole.
Framed(rest, f, part) ==
  /\ rest \in Seq(Octet) /\ Begins(rest, part)
  /\ f.whole => Len(part) <= Len(rest)
  /\ Len(rest) = 0 => ber_fetch_tag(rest) = Fetched(0, 0)

(* What is left of a frame where a part begins.                             *)
LEMMA PartFramed ==
  ASSUME NEW f, NEW h \in Nat, NEW body \in Seq(Octet), Frames(f, h, body),
         NEW o \in Nat, NEW part \in Seq(Octet), Holds(body, o, part)
  PROVE  Framed(Drop(f.data, h + o), f, part)
<1>0. PICK m \in Nat, p \in Nat :
        /\ Len(body) = m /\ Len(part) = p /\ o + p <= m
        /\ \A i \in 1 .. p : body[o + i] = part[i]
  <2>1. PICK m \in Nat : Len(body) = m
    OBVIOUS
  <2>2. PICK p \in Nat : Len(part) = p
    OBVIOUS
  <2> QED BY <2>1, <2>2 DEF Holds
<1> DEFINE data == f.data
           rest == Drop(data, h + o)
<1>1. PICK e \in Nat : Len(data) = e
  BY DEF Frames
<1>2. /\ data \in Seq(Octet) /\ f.whole \in BOOLEAN
      /\ IF f.whole THEN e = h + m ELSE e < h + m
      /\ \A i \in 1 .. m : h + i <= e => data[h + i] = body[i]
  BY <1>0, <1>1 DEF Frames
<1> HIDE DEF data
<1>3. h + o \in Nat
  OBVIOUS
<1>4. /\ rest \in Seq(Octet)
      /\ Len(rest) = IF h + o <= e THEN e - (h + o) ELSE 0
      /\ \A i \in 1 .. e - (h + o) : rest[i] = data[h + o + i]
  <2>1. rest \in Seq(Octet) /\ Remains(rest, data, e, h + o)
    BY <1>1, <1>2, <1>3, DropIs
  <2> HIDE DEF rest
  <2> QED BY <2>1 DEF Remains
<1> HIDE DEF rest
<1>5. ASSUME NEW i \in 1 .. p, i <= Len(rest) PROVE rest[i] = part[i]
  <2>1. h + o <= e /\ i <= e - (h + o)
    BY <1>4, <1>5
  <2>2. i \in 1 .. e - (h + o) /\ o + i \in 1 .. m /\ h + (o + i) <= e
        /\ h + o + i = h + (o + i)
    BY <1>0, <2>1
  <2>3. data[h + (o + i)] = body[o + i]
    BY <1>2, <2>2
  <2> QED BY <1>0, <1>4, <2>2, <2>3
<1>6. f.whole => p <= Len(rest)
  BY <1>0, <1>2, <1>4
<1>7. Len(rest) = 0 => ber_fetch_tag(rest) = Fetched(0, 0)
  BY DEF ber_fetch_tag
<1>8. Framed(rest, f, part)
  BY <1>0, <1>4, <1>5, <1>6, <1>7 DEF Begins, Framed
<1> QED BY <1>8 DEF rest, data

(* The tag of an encoding.                                                  *)
LEMMA TagFetched ==
  ASSUME NEW t \in ShortTag, NEW c \in BOOLEAN, NEW body \in Contents,
         NEW buf \in Seq(Octet), Begins(buf, Encoding(t, c, body)), Len(buf) # 0
  PROVE  ber_fetch_tag(buf) = Fetched(1, t)
<1>1. PICK n \in Lengths : Begins(buf, Header(t, c, n))
  BY EncodingBegins
<1> QED BY <1>1, HeaderFetched

\* What the loop of a decoder returns for a frame: the value, or that more
\* octets are wanted.
Loops(returned, f, end, value) ==
  returned = IF f.whole THEN Ok(end, value) ELSE More

\* A part: an encoding under the tag t which the decoder reads back.
Part(part, typ, tag_mode, t, value) ==
  /\ \E c \in BOOLEAN, body \in Contents : part = Encoding(t, c, body)
  /\ \A buf \in Seq(Octet) : Begins(buf, part) =>
       Takes(ber_decoder(typ, buf, tag_mode), buf, part, value)

(* A part is not empty, and the tag of a beginning of one is fetched.      *)
LEMMA PartIs ==
  ASSUME NEW t \in ShortTag, NEW part, NEW typ, NEW tag_mode, NEW value,
         Part(part, typ, tag_mode, t, value)
  PROVE  /\ part \in Seq(Octet) /\ \E p \in Nat : Len(part) = p /\ p >= 2
         /\ \A buf \in Seq(Octet) : Begins(buf, part) /\ Len(buf) # 0 =>
              ber_fetch_tag(buf) = Fetched(1, t)
<1>1. PICK c \in BOOLEAN, body \in Contents : part = Encoding(t, c, body)
  BY DEF Part
<1>2. PICK n \in Lengths, h \in 2 .. 5 :
        n \in Nat /\ part \in Seq(Octet) /\ Len(part) = h + n
  BY <1>1, EncodingIs
<1>3. h + n \in Nat /\ h + n >= 2
  BY <1>2
<1>4. \A buf \in Seq(Octet) : Begins(buf, part) /\ Len(buf) # 0 =>
              ber_fetch_tag(buf) = Fetched(1, t)
  BY <1>1, TagFetched
<1> QED BY <1>2, <1>3, <1>4

\* Members reads member k from pos on and goes on, or wants more octets.
Reads(td, f, edx, pos, st, k, part, value) ==
  Members(td, f, edx, pos, st) =
    IF Len(Drop(f.data, pos)) < Len(part) THEN More
    ELSE Members(td, f, k + 1, pos + Len(part), [st EXCEPT ![k] = <<value>>])

(* One member is read: what Members does where the part of member k comes   *)
(* next.                                                                    *)
LEMMA MemberRead ==
  ASSUME IsDecoder,
         NEW td, NEW n \in Nat, HasMembers(td, n), NEW k \in 1 .. n,
         NEW edx \in 1 .. k, edx + td.elements[edx].optional >= k,
         NEW part, NEW value,
         Part(part, td.elements[k].type, td.elements[k].tag_mode, td.elements[k].tag, value),
         NEW f, NEW h \in Nat, NEW body \in Seq(Octet), Frames(f, h, body),
         NEW o \in Nat, Holds(body, o, part), NEW st
  PROVE  Reads(td, f, edx, h + o, st, k, part, value)
<1> DEFINE pos == h + o
           elm == td.elements[k]
           opt == td.elements[edx].optional
           last == edx + opt
           rest == Drop(f.data, pos)
           v == ber_decoder(elm.type, rest, elm.tag_mode)
           next == CASE v.code = "RC_OK" ->
                          Members(td, f, k + 1, pos + v.consumed, [st EXCEPT ![k] = <<v.value>>])
                     [] v.code = "RC_WMORE" -> Short(f)
                     [] OTHER -> v
           found == {i \in edx .. Min({n, last}) : td.elements[i].tag = elm.tag}
<1>0a. /\ Len(td.elements) = n
       /\ \A i \in 1 .. n : td.elements[i].optional \in Nat
       /\ \A i, j \in 1 .. n : td.elements[i].tag = td.elements[j].tag => i = j
       /\ elm.tag \in ShortTag
  BY DEF HasMembers
<1>0. PICK p \in Nat : Len(part) = p /\ p >= 2
  BY <1>0a, PartIs
<1>1. /\ part \in Seq(Octet)
      /\ \A buf \in Seq(Octet) : Begins(buf, part) /\ Len(buf) # 0 =>
              ber_fetch_tag(buf) = Fetched(1, elm.tag)
  BY <1>0a, PartIs
<1>2. /\ rest \in Seq(Octet) /\ Begins(rest, part)
      /\ f.whole => p <= Len(rest)
      /\ Len(rest) = 0 => ber_fetch_tag(rest) = Fetched(0, 0)
  <2> HIDE DEF v, next, found, last, opt, elm
  <2>1. Framed(rest, f, part)
    BY <1>1, PartFramed
  <2> HIDE DEF rest
  <2> QED BY <1>0, <2>1 DEF Framed
<1>3. f.whole \in BOOLEAN /\ ~f.nulls
  BY DEF Frames
<1>4. Takes(v, rest, part, value)
  BY <1>2 DEF Part
<1>5. PICK r \in Nat : Len(rest) = r
  <2> HIDE DEF rest
  <2> QED BY <1>2
<1>6. AtEnd(f, pos) => r = 0
  <2>1. SUFFICES ASSUME pos = Len(f.data) PROVE r = 0
    BY DEF AtEnd
  <2>2. f.data \in Seq(Octet) /\ pos \in Nat
    BY DEF Frames
  <2>3. Remains(rest, f.data, pos, pos)
    BY <2>1, <2>2, DropIs
  <2> HIDE DEF rest
  <2> QED BY <1>5, <2>2, <2>3 DEF Remains
<1>7. found # {} /\ Min(found) = k
  <2>1. edx \in Nat /\ opt \in Nat /\ last \in Nat
    BY <1>0a
  <2> HIDE DEF opt
  <2>2. Min({n, last}) \in {n, last}
    BY <2>1, MinIsLeast
  <2>3. Min({n, last}) \in Nat /\ Min({n, last}) <= n /\ k <= Min({n, last})
    <3>1. Min({n, last}) <= n
      <4>1. {n, last} \in SUBSET Nat /\ n \in {n, last} /\ {n, last} # {}
        BY <2>1
      <4> QED BY <4>1, MinIsLeast
    <3>2. k <= n /\ k <= last
      BY DEF opt
    <3> HIDE DEF last
    <3> QED BY <2>1, <2>2, <3>1, <3>2
  <2> HIDE DEF last
  <2>4. PICK q \in Nat : Min({n, last}) = q /\ q <= n /\ k <= q
    BY <2>3
  <2>5. found = {i \in edx .. q : td.elements[i].tag = elm.tag}
    BY <2>4
  <2>6. \A i \in edx .. q : i \in 1 .. n
    BY <2>4
  <2>7. \A i \in found : i = k
    BY <1>0a, <2>5, <2>6
  <2>8. k \in found
    BY <2>4, <2>5
  <2>9. found = {k}
    BY <2>7, <2>8
  <2>10. {k} \in SUBSET Nat /\ k <= k
    OBVIOUS
  <2> HIDE DEF found
  <2>11. Min({k}) = k
    BY <2>10, MinIsUnique
  <2> QED BY <2>9, <2>11
<1>8. Members(td, f, edx, pos, st) =
        LET t == ber_fetch_tag(rest)
        IN  IF AtEnd(f, pos) /\ last > n THEN Ok(pos, st)
            ELSE IF t.len < 0 THEN Fail
            ELSE IF t.len = 0 \/ HalfMark(f, rest) THEN Short(f)
            ELSE IF EndMark(f, rest) /\ last > n THEN Trailer(td, f, pos, st)
            ELSE IF t.val = elm.tag THEN next
            ELSE MembersFrom(td, f, edx, pos, st)
  <2>1. Members(td, f, edx, pos, st)
          = MembersFrom(td, f, edx, pos, st)
    BY Zenon DEF IsDecoder
  <2>2. ~(edx > n)
    OBVIOUS
  <2> HIDE DEF found, next, last
  <2>3. MembersFrom(td, f, edx, pos, st) =
        LET t == ber_fetch_tag(rest)
            some == {i \in edx .. Min({n, last}) : td.elements[i].tag = t.val}
        IN  IF AtEnd(f, pos) /\ last > n THEN Ok(pos, st)
            ELSE IF t.len < 0 THEN Fail
            ELSE IF t.len = 0 \/ HalfMark(f, rest) THEN Short(f)
            ELSE IF EndMark(f, rest) /\ last > n THEN Trailer(td, f, pos, st)
            ELSE IF some = found THEN next
            ELSE MembersFrom(td, f, edx, pos, st)
    BY <1>0a, <1>7, <2>2 DEF MembersFrom, last, next
  <2>4. ber_fetch_tag(rest).val = elm.tag =>
          {i \in edx .. Min({n, last}) : td.elements[i].tag = ber_fetch_tag(rest).val} = found
    BY DEF found
  <2> QED BY <2>1, <2>3, <2>4
<1> DEFINE after == Members(td, f, k + 1, pos + p, [st EXCEPT ![k] = <<value>>])
<1>9. ASSUME r = 0 PROVE Members(td, f, edx, pos, st) = More /\ r < p
  <2>1. ber_fetch_tag(rest) = Fetched(0, 0)
    BY <1>2, <1>5, <1>9
  <2>2. ~f.whole /\ r < p
    BY <1>0, <1>2, <1>3, <1>5, <1>9
  <2> HIDE DEF rest, next, last
  <2> QED BY <1>8, <2>1, <2>2 DEF Fetched, AtEnd, Short
<1>10. ASSUME r # 0 PROVE Members(td, f, edx, pos, st) = IF r < p THEN More ELSE after
  <2>1. ber_fetch_tag(rest) = Fetched(1, elm.tag)
    BY <1>1, <1>2, <1>5, <1>10
  <2>2. ~AtEnd(f, pos) /\ ~HalfMark(f, rest) /\ ~EndMark(f, rest)
    BY <1>3, <1>6, <1>10 DEF HalfMark, EndMark
  <2>3. Members(td, f, edx, pos, st) = next
    <3> HIDE DEF rest, next, last, elm
    <3> QED BY <1>8, <2>1, <2>2 DEF Fetched
  <2>4. CASE p <= r
    <3>1. v = Ok(p, value)
      BY <1>0, <1>4, <1>5, <2>4 DEF Takes
    <3>2. next = after
      <4> HIDE DEF v, rest
      <4> QED BY <3>1 DEF Ok
    <3>3. ~(r < p)
      BY <2>4
    <3> HIDE DEF next, rest, last, after
    <3> QED BY <2>3, <3>2, <3>3
  <2>5. CASE ~(p <= r)
    <3>1. v = More /\ ~f.whole /\ r < p
      BY <1>0, <1>2, <1>3, <1>4, <1>5, <2>5 DEF Takes
    <3>2. next = More
      <4> HIDE DEF v, rest
      <4> QED BY <3>1 DEF More, Short
    <3> HIDE DEF next, rest, last, after
    <3> QED BY <2>3, <3>1, <3>2
  <2> QED BY <2>4, <2>5
<1>11. Members(td, f, edx, pos, st) = IF Len(rest) < Len(part) THEN More ELSE after
  BY <1>0, <1>5, <1>9, <1>10
<1> QED BY <1>0, <1>11 DEF Reads

(* What is left of a frame at its end.                                      *)
LEMMA EndFramed ==
  ASSUME NEW f, NEW h \in Nat, NEW body \in Seq(Octet), Frames(f, h, body)
  PROVE  /\ f.whole \in BOOLEAN
         /\ f.whole => AtEnd(f, h + Len(body))
         /\ ~f.whole => ber_fetch_tag(Drop(f.data, h + Len(body))) = Fetched(0, 0)
<1> DEFINE end == h + Len(body)
           rest == Drop(f.data, end)
<1>1. PICK m \in Nat : Len(body) = m
  OBVIOUS
<1>2. PICK e \in Nat : Len(f.data) = e /\ f.data \in Seq(Octet)
  BY DEF Frames
<1>3. f.whole \in BOOLEAN /\ (f.whole => e = end) /\ (~f.whole => e < end)
  BY <1>2 DEF Frames
<1>4. end \in Nat
  BY <1>1
<1>5. Remains(rest, f.data, e, end)
  BY <1>2, <1>4, DropIs
<1>6. ASSUME ~f.whole PROVE ber_fetch_tag(rest) = Fetched(0, 0)
  <2>1. ~(end <= e)
    BY <1>3, <1>4, <1>6
  <2> HIDE DEF rest, end
  <2>2. Len(rest) = 0
    BY <1>5, <2>1 DEF Remains
  <2> QED BY <2>2 DEF ber_fetch_tag
<1> QED BY <1>2, <1>3, <1>6 DEF AtEnd

(* No member is left.                                                       *)
LEMMA MembersEnd ==
  ASSUME IsDecoder,
         NEW td, NEW n \in Nat, Len(td.elements) = n, NEW edx \in 1 .. n + 1,
         edx <= n => edx + td.elements[edx].optional > n,
         NEW f, NEW h \in Nat, NEW body \in Seq(Octet), Frames(f, h, body), NEW st
  PROVE  Loops(Members(td, f, edx, h + Len(body), st), f, h + Len(body), st)
<1> DEFINE pos == h + Len(body)
           rest == Drop(f.data, pos)
           last == edx + td.elements[edx].optional
<1>1. /\ f.whole \in BOOLEAN
      /\ f.whole => AtEnd(f, pos)
      /\ ~f.whole => ber_fetch_tag(rest) = Fetched(0, 0)
  BY EndFramed
<1>2. ~f.whole => ~AtEnd(f, pos)
  BY DEF AtEnd
<1>3. Members(td, f, edx, pos, st) = MembersFrom(td, f, edx, pos, st)
  BY Zenon DEF IsDecoder
<1>4. ASSUME edx > n PROVE Loops(Members(td, f, edx, pos, st), f, pos, st)
  <2> HIDE DEF last, pos
  <2>1. MembersFrom(td, f, edx, pos, st) = Trailer(td, f, pos, st)
    BY <1>4 DEF MembersFrom
  <2>2. Trailer(td, f, pos, st) = TrailerFrom(td, f, pos, st)
    BY Zenon DEF IsDecoder
  <2> DEFINE t == ber_fetch_tag(rest)
             other == SkipUnknown(td, f, pos + t.len, st, SkipAfter(t, rest))
  <2>3. TrailerFrom(td, f, pos, st) =
          IF AtEnd(f, pos) THEN Ok(pos, st)
          ELSE IF t.len < 0 THEN Fail
          ELSE IF t.len = 0 \/ HalfMark(f, rest) THEN Short(f)
          ELSE IF EndMark(f, rest) THEN Ok(pos + 2, st) ELSE other
    BY DEF TrailerFrom
  <2> HIDE DEF other
  <2>4. CASE f.whole
    BY <1>1, <1>3, <2>1, <2>2, <2>3, <2>4 DEF Loops
  <2>5. CASE ~f.whole
    <3>1. t.len = 0
      BY <1>1, <2>5 DEF Fetched
    <3> HIDE DEF t
    <3> QED BY <1>2, <1>3, <2>1, <2>2, <2>3, <2>5, <3>1 DEF Loops, Short
  <2> QED BY <1>1, <2>4, <2>5
<1>5. ASSUME ~(edx > n) PROVE Loops(Members(td, f, edx, pos, st), f, pos, st)
  <2>1. last > n
    BY <1>5
  <2> DEFINE t == ber_fetch_tag(rest)
             other == IF EndMark(f, rest) THEN Trailer(td, f, pos, st)
                      ELSE MembersFrom(td, f, edx, pos, st)
  <2>2. MembersFrom(td, f, edx, pos, st) =
          IF AtEnd(f, pos) THEN Ok(pos, st)
          ELSE IF t.len < 0 THEN Fail
          ELSE IF t.len = 0 \/ HalfMark(f, rest) THEN Short(f) ELSE other
    <3> HIDE DEF pos
    <3> QED BY <1>5, <2>1 DEF MembersFrom
  <2> HIDE DEF other, pos
  <2>4. CASE f.whole
    BY <1>1, <1>3, <2>2, <2>4 DEF Loops
  <2>5. CASE ~f.whole
    <3>1. t.len = 0
      BY <1>1, <2>5 DEF Fetched
    <3> HIDE DEF t
    <3> QED BY <1>2, <1>3, <2>2, <2>5, <3>1 DEF Loops, Short
  <2> QED BY <1>1, <2>4, <2>5
<1> QED BY <1>4, <1>5

\* The members of a structure before k, where those in here are present.
Filled(vals, here, n, k) ==
  [i \in 1 .. n |-> IF i < k /\ i \in here THEN <<vals[i]>> ELSE <<>>]

\* parts are the members of a SEQUENCE: those in here are present and their
\* decoders read back vals.
MemberParts(td, n, parts, here, vals) ==
  /\ HasMembers(td, n)
  /\ \A k \in 1 .. n, j \in 1 .. n + 1 :
       k < j /\ (\A i \in k .. j - 1 : i \notin here) => k + td.elements[k].optional >= j
  /\ \A k \in 1 .. n :
       IF k \in here
       THEN Part(parts[k], td.elements[k].type, td.elements[k].tag_mode,
                 td.elements[k].tag, vals[k])
       ELSE parts[k] = <<>>

(* Where a part is in what follows each other.                              *)
LEMMA PartHeld ==
  ASSUME NEW n \in Nat, NEW parts \in [1 .. n -> Seq(Octet)], NEW body \in Seq(Octet),
         NEW off, Placed(body, parts, n, off), NEW k \in 1 .. n
  PROVE  /\ off[k] \in Nat /\ Holds(body, off[k], parts[k])
         /\ off[k + 1] = off[k] + Len(parts[k])
<1>1. /\ off \in [1 .. n + 1 -> Nat] /\ Len(body) = off[n + 1]
      /\ \A j \in 1 .. n :
           /\ off[j + 1] = off[j] + Len(parts[j])
           /\ \A i \in 1 .. Len(parts[j]) : body[off[j] + i] = parts[j][i]
  BY DEF Placed
<1>2. \A j \in 1 .. n : off[j] <= off[j + 1]
  <2>1. SUFFICES ASSUME NEW j \in 1 .. n PROVE off[j] <= off[j + 1]
    OBVIOUS
  <2>2. off[j + 1] = off[j] + Len(parts[j])
    BY <1>1
  <2>3. off[j] \in Nat /\ Len(parts[j]) \in Nat
    BY <1>1
  <2> QED BY <2>2, <2>3
<1>3. k + 1 \in 1 .. n + 1 /\ n + 1 \in k + 1 .. n + 1
  OBVIOUS
<1>4. off[k + 1] <= off[n + 1]
  BY <1>1, <1>2, <1>3, OffsetsGrow
<1>5. off[k] \in Nat
  BY <1>1
<1> QED BY <1>1, <1>4, <1>5 DEF Holds

(* The members of a structure are read one after the other.                 *)
LEMMA MembersTake ==
  ASSUME IsDecoder,
         NEW td, NEW n \in Nat, NEW parts \in [1 .. n -> Seq(Octet)],
         NEW here \in SUBSET (1 .. n), NEW vals, MemberParts(td, n, parts, here, vals),
         NEW body \in Seq(Octet), NEW off, Placed(body, parts, n, off),
         NEW f, NEW h \in Nat, Frames(f, h, body)
  PROVE  Loops(Members(td, f, 1, h, [k \in 1 .. n |-> <<>>]), f,
               h + Len(body), Filled(vals, here, n, n + 1))
<1> DEFINE st(k) == Filled(vals, here, n, k)
           end == h + Len(body)
           goal(k) == Loops(Members(td, f, k, h + off[k], st(k)), f, end, st(n + 1))
           wrong == {q \in Nat : \E k \in 1 .. n + 1 : q = n + 1 - k /\ ~goal(k)}
<1>1. off \in [1 .. n + 1 -> Nat] /\ off[1] = 0 /\ Len(body) = off[n + 1]
  BY DEF Placed
<1>2. Len(td.elements) = n
  BY DEF MemberParts, HasMembers
<1>3. f.whole \in BOOLEAN
  BY DEF Frames
<1>0. ASSUME NEW k \in 1 .. n
      PROVE  /\ off[k] \in Nat /\ Holds(body, off[k], parts[k])
             /\ off[k + 1] = off[k] + Len(parts[k])
  <2> HIDE DEF st, end, goal, wrong
  <2> QED BY PartHeld
<1>4. ASSUME NEW edx \in 1 .. n + 1, \A k \in edx .. n : k \notin here
      PROVE  goal(edx)
  <2>1. off[edx] = off[n + 1]
    <3>1. \A i \in edx .. (n + 1) - 1 : off[i + 1] = off[i]
      <4>1. SUFFICES ASSUME NEW i \in edx .. n PROVE off[i + 1] = off[i]
        OBVIOUS
      <4>2. i \in 1 .. n /\ i \notin here
        BY <1>4
      <4>3. parts[i] = <<>>
        BY <4>2 DEF MemberParts
      <4>4. off[i + 1] = off[i] + Len(parts[i]) /\ off[i] \in Nat
        BY <1>0, <4>2
      <4> QED BY <4>3, <4>4
    <3>2. n + 1 \in edx .. n + 1
      OBVIOUS
    <3> QED BY <1>1, <3>1, <3>2, OffsetsStay
  <2>2. st(edx) = st(n + 1)
    <3>1. \A i \in 1 .. n : (i < edx /\ i \in here) <=> (i < n + 1 /\ i \in here)
      BY <1>4
    <3> QED BY <3>1 DEF Filled
  <2>3. edx <= n => edx + td.elements[edx].optional > n
    <3>1. SUFFICES ASSUME edx <= n PROVE edx + td.elements[edx].optional > n
      OBVIOUS
    <3>2. edx \in 1 .. n /\ n + 1 \in 1 .. n + 1 /\ edx < n + 1 /\ (n + 1) - 1 = n
      BY <3>1
    <3>3. edx + td.elements[edx].optional >= n + 1 /\ td.elements[edx].optional \in Nat
      BY <1>4, <3>2 DEF MemberParts, HasMembers
    <3> QED BY <3>3
  <2> HIDE DEF st
  <2>4. Loops(Members(td, f, edx, h + Len(body), st(n + 1)), f, h + Len(body), st(n + 1))
    BY <1>2, <2>3, MembersEnd
  <2> QED BY <1>1, <2>1, <2>2, <2>4
<1>5. ASSUME NEW edx \in 1 .. n + 1, NEW a \in edx .. n, a \in here,
             \A k \in edx + 1 .. n + 1 : goal(k)
      PROVE  goal(edx)
  <2> DEFINE later == {i \in edx .. n : i \in here}
  <2>1. later \in SUBSET Nat /\ later # {}
    <3>1. a \in later
      BY <1>5
    <3>2. \A i \in later : i \in Nat
      OBVIOUS
    <3> QED BY <3>1, <3>2
  <2>2. PICK k \in later : \A y \in later : k <= y
    BY <2>1, MinIsLeast
  <2>3. k \in edx .. n /\ k \in 1 .. n /\ k \in here /\ edx \in 1 .. k
    OBVIOUS
  <2>4. \A i \in edx .. k - 1 : i \in 1 .. n /\ i \notin here
    BY <2>2, <2>3
  <2> HIDE DEF later
  <2>5. off[k] = off[edx]
    <3>1. \A i \in edx .. k - 1 : off[i + 1] = off[i]
      <4>1. SUFFICES ASSUME NEW i \in edx .. k - 1 PROVE off[i + 1] = off[i]
        OBVIOUS
      <4>2. i \in 1 .. n /\ i \notin here
        BY <2>4
      <4>3. parts[i] = <<>>
        BY <4>2 DEF MemberParts
      <4>4. off[i + 1] = off[i] + Len(parts[i]) /\ off[i] \in Nat
        BY <1>0, <4>2
      <4> QED BY <4>3, <4>4
    <3>2. k \in edx .. n + 1
      BY <2>3
    <3> QED BY <1>1, <3>1, <3>2, OffsetsStay
  <2>6. st(edx) = st(k)
    <3>1. \A i \in 1 .. n : (i < edx /\ i \in here) <=> (i < k /\ i \in here)
      BY <2>3, <2>4
    <3> QED BY <3>1 DEF Filled
  <2>7. edx + td.elements[edx].optional >= k
    <3>1. edx \in 1 .. n /\ td.elements[edx].optional \in Nat
      BY <2>3 DEF MemberParts, HasMembers
    <3>2. CASE edx = k
      BY <3>1, <3>2
    <3>3. CASE edx # k
      <4>1. k \in 1 .. n + 1 /\ edx < k
        BY <2>3, <3>3
      <4> QED BY <2>4, <3>1, <4>1 DEF MemberParts
    <3> QED BY <3>2, <3>3
  <2>8. Part(parts[k], td.elements[k].type, td.elements[k].tag_mode,
             td.elements[k].tag, vals[k])
    BY <2>3 DEF MemberParts
  <2>9. HasMembers(td, n)
    BY DEF MemberParts
  <2>10. /\ off[k] \in Nat /\ Holds(body, off[k], parts[k])
         /\ off[k + 1] = off[k] + Len(parts[k])
    BY <1>0, <2>3
  <2> DEFINE next == Members(td, f, k + 1, h + off[k] + Len(parts[k]),
                             [st(k) EXCEPT ![k] = <<vals[k]>>])
  <2>11. Members(td, f, edx, h + off[k], st(k)) =
           IF Len(Drop(f.data, h + off[k])) < Len(parts[k]) THEN More ELSE next
    <3> DEFINE part == parts[k]
               value == vals[k]
               o == off[k]
               s == st(k)
    <3>1. Part(part, td.elements[k].type, td.elements[k].tag_mode,
               td.elements[k].tag, value)
      BY <2>8
    <3>2. o \in Nat /\ Holds(body, o, part)
      BY <2>10
    <3> HIDE DEF part, value, o, s, end, goal, wrong
    <3>3. Reads(td, f, edx, h + o, s, k, part, value)
      BY <2>3, <2>7, <2>9, <3>1, <3>2, MemberRead
    <3> QED BY <3>3 DEF Reads, part, value, o, s
  <2>12. Len(Drop(f.data, h + off[k])) < Len(parts[k]) => ~f.whole
    <3>1. parts[k] \in Seq(Octet)
      BY <2>3
    <3>2. Framed(Drop(f.data, h + off[k]), f, parts[k])
      BY <2>10, <3>1, PartFramed
    <3>3. Len(Drop(f.data, h + off[k])) \in Nat /\ Len(parts[k]) \in Nat
      BY <3>1, <3>2 DEF Framed
    <3> QED BY <3>2, <3>3 DEF Framed
  <2>13. next = Members(td, f, k + 1, h + off[k + 1], st(k + 1))
    <3>1. [st(k) EXCEPT ![k] = <<vals[k]>>] = st(k + 1)
      <4>1. \A i \in 1 .. n : (i < k + 1 /\ i \in here) <=> (i = k \/ (i < k /\ i \in here))
        BY <2>3
      <4> QED BY <2>3, <4>1 DEF Filled
    <3>2. h + off[k] + Len(parts[k]) = h + off[k + 1]
      <4>1. Len(parts[k]) \in Nat
        BY <2>3
      <4> QED BY <2>10, <4>1
    <3> HIDE DEF st
    <3> QED BY <3>1, <3>2
  <2>14. goal(k + 1)
    <3>1. k + 1 \in edx + 1 .. n + 1
      BY <2>3
    <3> HIDE DEF goal
    <3> QED BY <1>5, <3>1
  <2> HIDE DEF next, st, end
  <2> QED BY <2>5, <2>6, <2>11, <2>12, <2>13, <2>14 DEF Loops
<1>6. wrong = {}
  <2>1. SUFFICES ASSUME wrong # {} PROVE FALSE
    OBVIOUS
  <2> HIDE DEF goal
  <2>2. wrong \in SUBSET Nat
    OBVIOUS
  <2>3. PICK q \in wrong : \A y \in wrong : q <= y
    BY <2>1, <2>2, MinIsLeast
  <2>4. PICK edx \in 1 .. n + 1 : q = n + 1 - edx /\ ~goal(edx)
    OBVIOUS
  <2>5. ASSUME NEW k \in edx + 1 .. n + 1 PROVE goal(k)
    <3>1. n + 1 - k \in Nat /\ ~(q <= n + 1 - k) /\ k \in 1 .. n + 1
      BY <2>4
    <3> QED BY <2>3, <3>1
  <2> HIDE DEF wrong
  <2>6. CASE \E a \in edx .. n : a \in here
    BY <1>5, <2>4, <2>5, <2>6
  <2>7. CASE \A a \in edx .. n : a \notin here
    BY <1>4, <2>4, <2>7
  <2> QED BY <2>6, <2>7
<1>7. goal(1)
  <2> HIDE DEF goal
  <2>1. 1 \in 1 .. n + 1 /\ n + 1 - 1 \in Nat
    OBVIOUS
  <2> QED BY <1>6, <2>1
<1>8. st(1) = [k \in 1 .. n |-> <<>>] /\ h + off[1] = h
  <2>1. \A i \in 1 .. n : ~(i < 1)
    OBVIOUS
  <2> QED BY <1>1, <2>1 DEF Filled
<1> HIDE DEF st
<1>9. Loops(Members(td, f, 1, h, [k \in 1 .. n |-> <<>>]), f, end, st(n + 1))
  BY <1>7, <1>8
<1> QED BY <1>9 DEF st

\* What ber_check_tags and Frame make of an encoding or a beginning of it.
Opened(check, buf, enc, body, h) ==
  IF Len(buf) < h THEN check = More
  ELSE /\ check.code = "RC_OK" /\ check.consumed = h
       /\ Frames(Frame(buf, check), h, body)
       /\ Frame(buf, check).whole = (Len(enc) <= Len(buf))

(* An encoding is opened: ber_check_tags takes its header, Frame finds its  *)
(* contents.                                                                *)
LEMMA EncodingOpened ==
  ASSUME NEW td, NEW tag_mode, NEW t \in ShortTag, tag_mode = 0 => t = td.tags[1],
         NEW c \in BOOLEAN, NEW form, form = -1 \/ form = IF c THEN 1 ELSE 0,
         NEW body \in Contents,
         NEW buf \in Seq(Octet), Begins(buf, Encoding(t, c, body))
  PROVE  \E h \in 2 .. 5 :
           /\ Len(Encoding(t, c, body)) = h + Len(body)
           /\ Opened(ber_check_tags(td, buf, tag_mode, form), buf,
                     Encoding(t, c, body), body, h)
<1> DEFINE enc == Encoding(t, c, body)
           check == ber_check_tags(td, buf, tag_mode, form)
           f == Frame(buf, check)
<1>1. PICK n \in Lengths, h \in 2 .. 5 :
        /\ n \in Nat /\ Len(body) = n /\ Len(Header(t, c, n)) = h
        /\ enc \in Seq(Octet)
        /\ Len(enc) = h + n
        /\ Begins(buf, Header(t, c, n))
        /\ \A i \in 1 .. n : h + i <= Len(buf) => buf[h + i] = body[i]
  BY EncodingBegins
<1> HIDE DEF enc
<1>2. PICK l \in Nat : Len(buf) = l
  OBVIOUS
<1>3. check = IF l < h THEN More ELSE [code |-> "RC_OK", consumed |-> h, length |-> n]
  <2>1. check = IF Len(buf) < Len(Header(t, c, n)) THEN More
                ELSE [code |-> "RC_OK", consumed |-> Len(Header(t, c, n)), length |-> n]
    BY <1>1, TagsChecked
  <2> HIDE DEF check
  <2> QED BY <1>1, <1>2, <2>1
<1> HIDE DEF check
<1>4. ASSUME l < h PROVE Opened(check, buf, enc, body, h)
  <2>1. check = More
    BY <1>3, <1>4
  <2> QED BY <1>2, <1>4, <2>1 DEF Opened
<1>5. ASSUME ~(l < h) PROVE Opened(check, buf, enc, body, h)
  <2>1. check.code = "RC_OK" /\ check.consumed = h /\ check.length = n
    BY <1>3, <1>5
  <2>0. ~(Len(buf) < h)
    BY <1>2, <1>5
  <2>2. CASE h + n <= l
    <3> DEFINE data == SubSeq(buf, 1, h + n)
    <3>1. f.data = data /\ f.whole = TRUE /\ f.nulls = FALSE
      <4>1. check.length >= 0 /\ check.consumed + check.length = h + n /\ h + n <= Len(buf)
        BY <1>1, <1>2, <2>1, <2>2
      <4> QED BY <4>1 DEF Frame
    <3>2. /\ data \in Seq(Octet) /\ Len(data) = h + n
          /\ \A i \in 1 .. h + n : data[i] = buf[i]
      <4>1. \A i \in 1 .. h + n : buf[i] \in Octet
        BY <1>1, <1>2, <2>2
      <4>2. PICK e \in Nat : h + n = e
        BY <1>1
      <4>3. \A i \in 1 .. e : buf[i] \in Octet
        BY <4>1, <4>2
      <4>4. /\ SubSeq(buf, 1, e) \in Seq(Octet) /\ Len(SubSeq(buf, 1, e)) = e - 1 + 1
            /\ \A i \in 1 .. e - 1 + 1 : SubSeq(buf, 1, e)[i] = buf[1 + i - 1]
        BY <4>3, SubSeqProperties
      <4>5. e - 1 + 1 = e /\ \A i \in 1 .. e : 1 + i - 1 = i
        OBVIOUS
      <4> QED BY <4>2, <4>4, <4>5
    <3> HIDE DEF data
    <3>3. \A i \in 1 .. n : data[h + i] = body[i]
      <4>1. SUFFICES ASSUME NEW i \in 1 .. n PROVE data[h + i] = body[i]
        OBVIOUS
      <4>2. h + i \in 1 .. h + n /\ h + i <= l
        BY <1>1, <2>2
      <4> QED BY <1>1, <1>2, <3>2, <4>2
    <3> HIDE DEF f
    <3>5. Frames(f, h, body)
      BY <1>1, <3>1, <3>2, <3>3 DEF Frames
    <3>6. f.whole = (Len(enc) <= Len(buf))
      BY <1>1, <1>2, <2>2, <3>1
    <3> QED BY <2>0, <2>1, <3>5, <3>6 DEF Opened, f
  <2>3. CASE ~(h + n <= l)
    <3>2. f.data = buf /\ f.whole = FALSE /\ f.nulls = FALSE
      <4>1. /\ check.consumed + check.length = h + n /\ ~(h + n <= Len(buf))
            /\ (check.length < 0) = FALSE
        BY <1>1, <1>2, <2>1, <2>3
      <4> QED BY <4>1 DEF Frame
    <3>3. l < h + n
      BY <1>1, <2>3
    <3> HIDE DEF f
    <3>4. Frames(f, h, body)
      BY <1>1, <1>2, <3>2, <3>3 DEF Frames
    <3>5. f.whole = (Len(enc) <= Len(buf))
      <4>1. (Len(enc) <= Len(buf)) = FALSE
        BY <1>1, <1>2, <2>3
      <4> QED BY <3>2, <4>1, Zenon
    <3> QED BY <2>0, <2>1, <3>4, <3>5 DEF Opened, f
  <2> QED BY <2>2, <2>3
<1>6. Opened(check, buf, enc, body, h)
  BY <1>4, <1>5
<1>7. Len(enc) = h + Len(body)
  BY <1>1
<1> QED BY <1>6, <1>7, Zenon DEF enc, check

(* A SEQUENCE is read back if its members are.                              *)
THEOREM SequenceTakes ==
  ASSUME IsDecoder,
         NEW td, NEW tag_mode, NEW t \in ShortTag, tag_mode = 0 => t = td.tags[1],
         NEW n \in Nat, NEW parts \in [1 .. n -> Seq(Octet)],
         NEW here \in SUBSET (1 .. n), NEW vals, MemberParts(td, n, parts, here, vals),
         FlattenSeq(parts) \in Contents,
         NEW buf \in Seq(Octet), Begins(buf, Encoding(t, TRUE, FlattenSeq(parts)))
  PROVE  Takes(SEQUENCE_decode_ber(td, buf, tag_mode), buf,
               Encoding(t, TRUE, FlattenSeq(parts)), Filled(vals, here, n, n + 1))
<1> DEFINE body == FlattenSeq(parts)
           enc == Encoding(t, TRUE, body)
           check == ber_check_tags(td, buf, tag_mode, 1)
           f == Frame(buf, check)
           none == [k \in 1 .. n |-> <<>>]
           all == Filled(vals, here, n, n + 1)
<1>1. PICK off : body \in Seq(Octet) /\ Placed(body, parts, n, off)
  BY Flattened
<1>2. body \in Contents /\ Begins(buf, enc)
  OBVIOUS
<1> HIDE DEF body
<1>3. PICK h \in 2 .. 5 : Len(enc) = h + Len(body) /\ Opened(check, buf, enc, body, h)
  <2> DEFINE yes == TRUE
             form == 1
  <2>1. yes \in BOOLEAN /\ form = IF yes THEN 1 ELSE 0
    OBVIOUS
  <2>2. Begins(buf, Encoding(t, yes, body))
    BY <1>2
  <2> HIDE DEF yes, form
  <2>3. \E h \in 2 .. 5 :
           /\ Len(Encoding(t, yes, body)) = h + Len(body)
           /\ Opened(ber_check_tags(td, buf, tag_mode, form), buf,
                     Encoding(t, yes, body), body, h)
    BY <1>2, <2>1, <2>2, EncodingOpened
  <2> QED BY <2>3 DEF yes, form
<1> HIDE DEF enc
<1>4. DOMAIN td.elements = 1 .. n
  BY DEF MemberParts, HasMembers
<1>5. SEQUENCE_decode_ber(td, buf, tag_mode) =
        IF check.code # "RC_OK" THEN check
        ELSE Members(td, f, 1, check.consumed, none)
  BY <1>4 DEF SEQUENCE_decode_ber
<1> HIDE DEF check
<1>6. PICK l \in Nat : Len(buf) = l
  OBVIOUS
<1>7. PICK m \in Nat : Len(body) = m
  BY <1>1
<1>8. CASE l < h
  <2>1. check = More
    BY <1>3, <1>6, <1>8 DEF Opened
  <2>2. SEQUENCE_decode_ber(td, buf, tag_mode) = More
    <3>1. check.code # "RC_OK"
      BY <2>1 DEF More
    <3> QED BY <1>5, <2>1, <3>1
  <2>3. ~(Len(enc) <= Len(buf))
    BY <1>3, <1>6, <1>7, <1>8
  <2> QED BY <2>2, <2>3 DEF Takes, enc, body
<1>9. CASE ~(l < h)
  <2>1. /\ check.code = "RC_OK" /\ check.consumed = h /\ Frames(f, h, body)
        /\ f.whole = (Len(enc) <= Len(buf))
    BY <1>3, <1>6, <1>9 DEF Opened
  <2> HIDE DEF f, all, none
  <2>2. Loops(Members(td, f, 1, h, none), f, h + Len(body), all)
    <3> USE DEF all, none
    <3>1. h \in Nat
      OBVIOUS
    <3> QED BY <1>1, <2>1, <3>1, MembersTake
  <2>3. SEQUENCE_decode_ber(td, buf, tag_mode) = Members(td, f, 1, h, none)
    BY <1>5, <2>1
  <2>4. Takes(SEQUENCE_decode_ber(td, buf, tag_mode), buf, enc, all)
    BY <1>3, <2>1, <2>2, <2>3 DEF Loops, Takes
  <2> QED BY <2>4 DEF enc, body, all
<1> QED BY <1>8, <1>9

\* Items reads an item from pos on and goes on, or wants more octets.
ReadsItem(td, f, pos, list, part, value) ==
  Items(td, f, pos, list) =
    IF Len(Drop(f.data, pos)) < Len(part) THEN More
    ELSE Items(td, f, pos + Len(part), Append(list, value))

(* One item is read.                                                        *)
LEMMA ItemRead ==
  ASSUME IsDecoder,
         NEW td, td.element.tags[1] \in ShortTag, NEW part, NEW value,
         Part(part, td.element, 0, td.element.tags[1], value),
         NEW f, NEW h \in Nat, NEW body \in Seq(Octet), Frames(f, h, body),
         NEW o \in Nat, Holds(body, o, part), NEW list
  PROVE  ReadsItem(td, f, h + o, list, part, value)
<1> DEFINE pos == h + o
           typ == td.element
           tag == typ.tags[1]
           rest == Drop(f.data, pos)
           t == ber_fetch_tag(rest)
           v == ber_decoder(typ, rest, 0)
           next == CASE v.code = "RC_OK" -> Items(td, f, pos + v.consumed, Append(list, v.value))
                     [] v.code = "RC_WMORE" -> Short(f)
                     [] OTHER -> v
           after == Items(td, f, pos + Len(part), Append(list, value))
<1> HIDE DEF tag
<1>0. tag \in ShortTag
  BY DEF tag
<1>1. PICK p \in Nat : Len(part) = p /\ p >= 2
  <2>1. Part(part, typ, 0, tag, value)
    BY DEF tag
  <2> QED BY <1>0, <2>1, PartIs
<1>2. /\ part \in Seq(Octet)
      /\ \A buf \in Seq(Octet) : Begins(buf, part) /\ Len(buf) # 0 =>
              ber_fetch_tag(buf) = Fetched(1, tag)
  <2>1. Part(part, typ, 0, tag, value)
    BY DEF tag
  <2> QED BY <1>0, <2>1, PartIs
<1>3. /\ rest \in Seq(Octet) /\ Begins(rest, part)
      /\ f.whole => p <= Len(rest)
      /\ Len(rest) = 0 => t = Fetched(0, 0)
  <2>1. Framed(rest, f, part)
    BY <1>2, PartFramed
  <2> HIDE DEF rest
  <2> QED BY <1>1, <2>1 DEF Framed
<1>4. f.whole \in BOOLEAN /\ ~f.nulls
  BY DEF Frames
<1>5. Takes(v, rest, part, value)
  <2> HIDE DEF rest
  <2> QED BY <1>3 DEF Part
<1>6. PICK r \in Nat : Len(rest) = r
  <2> HIDE DEF rest
  <2> QED BY <1>3
<1>7. AtEnd(f, pos) => r = 0
  <2>1. SUFFICES ASSUME pos = Len(f.data) PROVE r = 0
    BY DEF AtEnd
  <2>2. f.data \in Seq(Octet) /\ pos \in Nat
    BY DEF Frames
  <2>3. Remains(rest, f.data, pos, pos)
    BY <2>1, <2>2, DropIs
  <2> HIDE DEF rest
  <2> QED BY <1>6, <2>2, <2>3 DEF Remains
<1>8. Items(td, f, pos, list) =
        IF AtEnd(f, pos) THEN Ok(pos, list)
        ELSE IF t.len < 0 THEN Fail
        ELSE IF t.len = 0 \/ HalfMark(f, rest) THEN Short(f)
        ELSE IF EndMark(f, rest) THEN Ok(pos + 2, list)
        ELSE IF t.val # tag THEN Fail ELSE next
  <2>1. Items(td, f, pos, list) = ItemsFrom(td, f, pos, list)
    BY Zenon DEF IsDecoder
  <2> HIDE DEF pos
  <2>2. ItemsFrom(td, f, pos, list) =
        IF AtEnd(f, pos) THEN Ok(pos, list)
        ELSE IF t.len < 0 THEN Fail
        ELSE IF t.len = 0 \/ HalfMark(f, rest) THEN Short(f)
        ELSE IF EndMark(f, rest) THEN Ok(pos + 2, list)
        ELSE IF t.val # tag THEN Fail ELSE next
    BY DEF ItemsFrom, tag
  <2> QED BY <2>1, <2>2, Zenon
<1>9. ASSUME r = 0 PROVE Items(td, f, pos, list) = More /\ r < p
  <2>1. t = Fetched(0, 0)
    BY <1>3, <1>6, <1>9
  <2>2. ~f.whole /\ r < p
    BY <1>1, <1>3, <1>4, <1>6, <1>9
  <2> HIDE DEF rest, next, t
  <2> QED BY <1>8, <2>1, <2>2 DEF Fetched, AtEnd, Short
<1>10. ASSUME r # 0 PROVE Items(td, f, pos, list) = IF r < p THEN More ELSE after
  <2>1. t = Fetched(1, tag)
    BY <1>2, <1>3, <1>6, <1>10
  <2>2. ~AtEnd(f, pos) /\ ~HalfMark(f, rest) /\ ~EndMark(f, rest)
    BY <1>4, <1>7, <1>10 DEF HalfMark, EndMark
  <2>3. Items(td, f, pos, list) = next
    <3> HIDE DEF rest, next, t
    <3> QED BY <1>8, <2>1, <2>2 DEF Fetched
  <2>4. CASE p <= r
    <3>1. v = Ok(p, value)
      BY <1>1, <1>5, <1>6, <2>4 DEF Takes
    <3>2. next = after
      <4> HIDE DEF v, rest
      <4> QED BY <1>1, <3>1 DEF Ok
    <3>3. ~(r < p)
      BY <2>4
    <3> HIDE DEF next, rest, after
    <3> QED BY <2>3, <3>2, <3>3
  <2>5. CASE ~(p <= r)
    <3>1. v = More /\ ~f.whole /\ r < p
      BY <1>1, <1>3, <1>4, <1>5, <1>6, <2>5 DEF Takes
    <3>2. next = More
      <4> HIDE DEF v, rest
      <4> QED BY <3>1 DEF More, Short
    <3> HIDE DEF next, rest, after
    <3> QED BY <2>3, <3>1, <3>2
  <2> QED BY <2>4, <2>5
<1>11. Items(td, f, pos, list) = IF Len(rest) < Len(part) THEN More ELSE after
  BY <1>1, <1>6, <1>9, <1>10
<1> QED BY <1>11 DEF ReadsItem

(* No item is left.                                                         *)
LEMMA ItemsEnd ==
  ASSUME IsDecoder, NEW td,
         NEW f, NEW h \in Nat, NEW body \in Seq(Octet), Frames(f, h, body), NEW list
  PROVE  Loops(Items(td, f, h + Len(body), list), f, h + Len(body), list)
<1> DEFINE pos == h + Len(body)
           rest == Drop(f.data, pos)
           t == ber_fetch_tag(rest)
           v == ber_decoder(td.element, rest, 0)
           next == CASE v.code = "RC_OK" -> Items(td, f, pos + v.consumed, Append(list, v.value))
                     [] v.code = "RC_WMORE" -> Short(f)
                     [] OTHER -> v
           other == IF EndMark(f, rest) THEN Ok(pos + 2, list)
                    ELSE IF t.val # td.element.tags[1] THEN Fail ELSE next
<1>1. /\ f.whole \in BOOLEAN
      /\ f.whole => AtEnd(f, pos)
      /\ ~f.whole => t = Fetched(0, 0)
  BY EndFramed
<1>2. ~f.whole => ~AtEnd(f, pos)
  BY DEF AtEnd
<1>3. Items(td, f, pos, list) = ItemsFrom(td, f, pos, list)
  BY Zenon DEF IsDecoder
<1> HIDE DEF pos
<1>4. ItemsFrom(td, f, pos, list) =
        IF AtEnd(f, pos) THEN Ok(pos, list)
        ELSE IF t.len < 0 THEN Fail
        ELSE IF t.len = 0 \/ HalfMark(f, rest) THEN Short(f) ELSE other
  BY DEF ItemsFrom
<1> HIDE DEF other
<1>5. CASE f.whole
  <2>1. Loops(Items(td, f, pos, list), f, pos, list)
    BY <1>1, <1>3, <1>4, <1>5 DEF Loops
  <2> QED BY <2>1 DEF pos
<1>6. CASE ~f.whole
  <2>1. t.len = 0
    BY <1>1, <1>6 DEF Fetched
  <2> HIDE DEF t
  <2>2. Loops(Items(td, f, pos, list), f, pos, list)
    BY <1>2, <1>3, <1>4, <1>6, <2>1 DEF Loops, Short
  <2> QED BY <2>2 DEF pos
<1> QED BY <1>1, <1>5, <1>6

\* The first k values.
FirstOf(vals, k) == [i \in 1 .. k |-> vals[i]]

(* One value more.                                                          *)
LEMMA FirstAppended ==
  ASSUME NEW vals, NEW k \in Nat
  PROVE  Append(FirstOf(vals, k), vals[k + 1]) = FirstOf(vals, k + 1)
<1> DEFINE S == {vals[i] : i \in 1 .. k + 1}
           s == FirstOf(vals, k)
           u == FirstOf(vals, k + 1)
           a == Append(s, vals[k + 1])
<1>1. s \in Seq(S) /\ Len(s) = k /\ \A i \in 1 .. k : s[i] = vals[i]
  <2>1. \A i \in 1 .. k : vals[i] \in S
    OBVIOUS
  <2> HIDE DEF S
  <2> QED BY <2>1 DEF FirstOf
<1>2. u \in Seq(S) /\ Len(u) = k + 1 /\ \A i \in 1 .. k + 1 : u[i] = vals[i]
  <2>1. \A i \in 1 .. k + 1 : vals[i] \in S
    OBVIOUS
  <2> HIDE DEF S
  <2> QED BY <2>1 DEF FirstOf
<1>3. vals[k + 1] \in S
  OBVIOUS
<1> HIDE DEF S, s, u
<1>4. /\ a \in Seq(S) /\ Len(a) = k + 1
      /\ \A i \in 1 .. k : a[i] = s[i]
      /\ a[k + 1] = vals[k + 1]
  BY <1>1, <1>3
<1> HIDE DEF a
<1>5. \A i \in 1 .. k + 1 : a[i] = u[i]
  BY <1>1, <1>2, <1>4
<1>6. a = u
  BY <1>2, <1>4, <1>5, SeqEqual
<1> QED BY <1>6 DEF a, s, u

\* parts are the items of a list: the decoder of its type reads back vals.
ItemParts(td, n, parts, vals) ==
  /\ td.element.tags[1] \in ShortTag
  /\ \A k \in 1 .. n : Part(parts[k], td.element, 0, td.element.tags[1], vals[k])

(* The items of a list are read one after the other.                        *)
LEMMA ItemsTake ==
  ASSUME IsDecoder,
         NEW td, NEW n \in Nat, NEW parts \in [1 .. n -> Seq(Octet)],
         NEW vals, ItemParts(td, n, parts, vals),
         NEW body \in Seq(Octet), NEW off, Placed(body, parts, n, off),
         NEW f, NEW h \in Nat, Frames(f, h, body)
  PROVE  Loops(Items(td, f, h, <<>>), f, h + Len(body), FirstOf(vals, n))
<1> DEFINE st(k) == FirstOf(vals, k)
           end == h + Len(body)
           goal(k) == Loops(Items(td, f, h + off[k + 1], st(k)), f, end, st(n))
           wrong == {q \in Nat : \E k \in 0 .. n : q = n - k /\ ~goal(k)}
<1>1. off \in [1 .. n + 1 -> Nat] /\ off[1] = 0 /\ Len(body) = off[n + 1]
  BY DEF Placed
<1>2. f.whole \in BOOLEAN
  BY DEF Frames
<1>3. ASSUME NEW k \in 1 .. n
      PROVE  /\ off[k] \in Nat /\ Holds(body, off[k], parts[k])
             /\ off[k + 1] = off[k] + Len(parts[k])
  <2> HIDE DEF st, end, goal, wrong
  <2> QED BY PartHeld
<1>4. goal(n)
  <2> HIDE DEF st
  <2>1. Loops(Items(td, f, h + Len(body), st(n)), f, h + Len(body), st(n))
    BY ItemsEnd
  <2> QED BY <1>1, <2>1
<1>5. ASSUME NEW k \in 1 .. n, goal(k)
      PROVE  Loops(Items(td, f, h + off[k], st(k - 1)), f, end, st(n))
  <2> DEFINE part == parts[k]
             value == vals[k]
             o == off[k]
             list == st(k - 1)
             next == Items(td, f, h + o + Len(part), Append(list, value))
  <2>1. td.element.tags[1] \in ShortTag /\ Part(part, td.element, 0, td.element.tags[1], value)
    BY DEF ItemParts
  <2>2. o \in Nat /\ Holds(body, o, part) /\ off[k + 1] = o + Len(part)
    BY <1>3
  <2>3. part \in Seq(Octet)
    OBVIOUS
  <2>4. next = Items(td, f, h + off[k + 1], st(k))
    <3>1. k - 1 \in Nat /\ (k - 1) + 1 = k
      OBVIOUS
    <3>2. Append(list, value) = st(k)
      BY <3>1, FirstAppended
    <3>3. Len(part) \in Nat
      BY <2>3
    <3> HIDE DEF st, list, value, part, o
    <3>4. h + o + Len(part) = h + off[k + 1]
      BY <2>2, <3>3
    <3> QED BY <3>2, <3>4
  <2> HIDE DEF part, value, o, list, wrong, next
  <2>5. Items(td, f, h + o, list) =
          IF Len(Drop(f.data, h + o)) < Len(part) THEN More ELSE next
    <3> HIDE DEF st, end, goal
    <3>1. ReadsItem(td, f, h + o, list, part, value)
      BY <2>1, <2>2, ItemRead
    <3> QED BY <3>1 DEF ReadsItem, next
  <2>6. Len(Drop(f.data, h + o)) < Len(part) => ~f.whole
    <3> HIDE DEF st, end, goal
    <3>1. Framed(Drop(f.data, h + o), f, part)
      BY <2>2, <2>3, PartFramed
    <3>2. Len(Drop(f.data, h + o)) \in Nat /\ Len(part) \in Nat
      BY <2>3, <3>1 DEF Framed
    <3> QED BY <3>1, <3>2 DEF Framed
  <2> HIDE DEF st, end
  <2>7. Loops(Items(td, f, h + o, list), f, end, st(n))
    BY <1>5, <2>4, <2>5, <2>6 DEF Loops
  <2> QED BY <2>7 DEF list, o
<1>6. wrong = {}
  <2>1. SUFFICES ASSUME wrong # {} PROVE FALSE
    OBVIOUS
  <2>2. wrong \in SUBSET Nat
    OBVIOUS
  <2> HIDE DEF goal
  <2>3. PICK q \in wrong : \A y \in wrong : q <= y
    BY <2>1, <2>2, MinIsLeast
  <2>4. PICK k \in 0 .. n : q = n - k /\ ~goal(k)
    OBVIOUS
  <2>5. k # n
    BY <1>4, <2>4
  <2>6. k + 1 \in 1 .. n /\ n - (k + 1) \in Nat /\ ~(q <= n - (k + 1)) /\ (k + 1) - 1 = k
        /\ k + 1 \in 0 .. n
    BY <2>4, <2>5
  <2>7. goal(k + 1)
    BY <2>3, <2>6
  <2> HIDE DEF wrong, st, end
  <2>8. Loops(Items(td, f, h + off[k + 1], st((k + 1) - 1)), f, end, st(n))
    BY <1>5, <2>6, <2>7
  <2>9. goal(k)
    BY <2>6, <2>8 DEF goal
  <2> QED BY <2>4, <2>9
<1>7. goal(0)
  <2> HIDE DEF goal
  <2>1. 0 \in 0 .. n /\ n - 0 \in Nat
    OBVIOUS
  <2> QED BY <1>6, <2>1
<1>8. st(0) = <<>> /\ h + off[0 + 1] = h
  BY <1>1 DEF FirstOf
<1> QED BY <1>7, <1>8

(* A SEQUENCE OF is read back if its items are.                             *)
THEOREM ListTakes ==
  ASSUME IsDecoder,
         NEW td, NEW tag_mode, NEW t \in ShortTag, tag_mode = 0 => t = td.tags[1],
         NEW n \in Nat, NEW parts \in [1 .. n -> Seq(Octet)],
         NEW vals, ItemParts(td, n, parts, vals), FlattenSeq(parts) \in Contents,
         NEW buf \in Seq(Octet), Begins(buf, Encoding(t, TRUE, FlattenSeq(parts)))
  PROVE  Takes(SET_OF_decode_ber(td, buf, tag_mode), buf,
               Encoding(t, TRUE, FlattenSeq(parts)), FirstOf(vals, n))
<1> DEFINE body == FlattenSeq(parts)
           enc == Encoding(t, TRUE, body)
           check == ber_check_tags(td, buf, tag_mode, 1)
           f == Frame(buf, check)
           all == FirstOf(vals, n)
<1>1. PICK off : body \in Seq(Octet) /\ Placed(body, parts, n, off)
  BY Flattened
<1>2. body \in Contents /\ Begins(buf, enc)
  OBVIOUS
<1> HIDE DEF body
<1>3. PICK h \in 2 .. 5 : Len(enc) = h + Len(body) /\ Opened(check, buf, enc, body, h)
  <2> DEFINE yes == TRUE
             form == 1
  <2>1. yes \in BOOLEAN /\ form = IF yes THEN 1 ELSE 0
    OBVIOUS
  <2>2. Begins(buf, Encoding(t, yes, body))
    BY <1>2
  <2> HIDE DEF yes, form
  <2>3. \E h \in 2 .. 5 :
           /\ Len(Encoding(t, yes, body)) = h + Len(body)
           /\ Opened(ber_check_tags(td, buf, tag_mode, form), buf,
                     Encoding(t, yes, body), body, h)
    BY <1>2, <2>1, <2>2, EncodingOpened
  <2> QED BY <2>3 DEF yes, form
<1> HIDE DEF enc
<1>5. SET_OF_decode_ber(td, buf, tag_mode) =
        IF check.code # "RC_OK" THEN check
        ELSE Items(td, f, check.consumed, <<>>)
  BY DEF SET_OF_decode_ber
<1> HIDE DEF check
<1>6. PICK l \in Nat : Len(buf) = l
  OBVIOUS
<1>7. PICK m \in Nat : Len(body) = m
  BY <1>1
<1>8. CASE l < h
  <2>1. check = More
    BY <1>3, <1>6, <1>8 DEF Opened
  <2>2. SET_OF_decode_ber(td, buf, tag_mode) = More
    <3>1. check.code # "RC_OK"
      BY <2>1 DEF More
    <3> QED BY <1>5, <2>1, <3>1
  <2>3. ~(Len(enc) <= Len(buf))
    BY <1>3, <1>6, <1>7, <1>8
  <2> QED BY <2>2, <2>3 DEF Takes, enc, body
<1>9. CASE ~(l < h)
  <2>1. /\ check.code = "RC_OK" /\ check.consumed = h /\ Frames(f, h, body)
        /\ f.whole = (Len(enc) <= Len(buf))
    BY <1>3, <1>6, <1>9 DEF Opened
  <2> HIDE DEF f, all
  <2>2. Loops(Items(td, f, h, <<>>), f, h + Len(body), all)
    <3> USE DEF all
    <3>1. h \in Nat
      OBVIOUS
    <3> QED BY <1>1, <2>1, <3>1, ItemsTake
  <2>3. SET_OF_decode_ber(td, buf, tag_mode) = Items(td, f, h, <<>>)
    BY <1>5, <2>1
  <2>4. Takes(SET_OF_decode_ber(td, buf, tag_mode), buf, enc, all)
    BY <1>3, <2>1, <2>2, <2>3 DEF Loops, Takes
  <2> QED BY <2>4 DEF enc, body, all
<1> QED BY <1>8, <1>9

\* What a CHOICE of the alternative k holds.
Alternative(k, value) == [present |-> k, choice |-> value]

\* k is the alternative that was encoded as part.
ChoicePart(td, n, k, part, value) ==
  /\ HasMembers(td, n) /\ k \in 1 .. n
  /\ Part(part, td.elements[k].type, td.elements[k].tag_mode, td.elements[k].tag, value)

(* The one alternative with a tag.                                          *)
LEMMA AlternativeFound ==
  ASSUME NEW td, NEW n \in Nat, HasMembers(td, n), NEW k \in 1 .. n
  PROVE  LET found == {i \in DOMAIN td.elements : td.elements[i].tag = td.elements[k].tag}
         IN  found # {} /\ Min(found) = k
<1> DEFINE found == {i \in DOMAIN td.elements : td.elements[i].tag = td.elements[k].tag}
<1>1. /\ DOMAIN td.elements = 1 .. n
      /\ \A i, j \in 1 .. n : td.elements[i].tag = td.elements[j].tag => i = j
  BY DEF HasMembers
<1>2. found = {k}
  BY <1>1
<1>3. {k} \in SUBSET Nat /\ k <= k
  OBVIOUS
<1>4. Min({k}) = k
  BY <1>3, MinIsUnique
<1> HIDE DEF found
<1>5. found # {} /\ Min(found) = k
  BY <1>2, <1>4
<1> QED BY <1>5 DEF found

\* What CHOICE_decode_ber does with the frame f from pos on.
EndOfChoice(f, pos, rest, tagged, st) ==
  IF ~tagged \/ AtEnd(f, pos) THEN Ok(pos, st)
  ELSE IF ~f.nulls THEN Fail
  ELSE IF rest = <<>> \/ HalfMark(f, rest) THEN More
  ELSE IF EndMark(f, rest) THEN Ok(pos + 2, st)
  ELSE IF rest[1] = 0 THEN Hang ELSE Fail

TakeAlternative(f, pos, tagged, k, v) ==
  CASE v.code = "RC_OK" -> EndOfChoice(f, pos + v.consumed, Drop(f.data, pos + v.consumed), tagged,
                               Alternative(k, v.value))
    [] v.code = "RC_WMORE" -> Short(f)
    [] OTHER -> v

UnknownAlternative(td, f, pos, skip) ==
  IF ~td.ext \/ skip < 0 THEN Fail
  ELSE IF skip = 0 THEN Short(f)
  ELSE Ok(pos + skip, [present |-> 0, choice |-> <<>>])

ChosenFrom(td, f, pos, tagged) ==
  LET rest  == Drop(f.data, pos)
      t     == ber_fetch_tag(rest)
      found == {i \in DOMAIN td.elements : td.elements[i].tag = t.val}
      elm   == td.elements[Min(found)]
  IN  IF t.len < 0 THEN Fail ELSE IF t.len = 0 THEN Short(f)
      ELSE IF found # {}
      THEN TakeAlternative(f, pos, tagged, Min(found), ber_decoder(elm.type, rest, elm.tag_mode))
      ELSE UnknownAlternative(td, f, pos + t.len, SkipAfter(t, rest))

WholeBuffer(buf) == [data |-> buf, whole |-> FALSE, nulls |-> FALSE]

(* It is all that CHOICE_decode_ber does.                                   *)
LEMMA ChoiceIs ==
  ASSUME NEW td, NEW buf, NEW tag_mode
  PROVE  CHOICE_decode_ber(td, buf, tag_mode) =
           LET c == ber_check_tags(td, buf, tag_mode, -1)
           IN  IF ~(tag_mode # 0 \/ td.tags # <<>>) THEN ChosenFrom(td, WholeBuffer(buf), 0, FALSE)
               ELSE IF c.code # "RC_OK" THEN c
               ELSE ChosenFrom(td, Frame(buf, c), c.consumed, TRUE)
<1>1. CASE tag_mode # 0 \/ td.tags # <<>>
  BY <1>1 DEF CHOICE_decode_ber, ChosenFrom, TakeAlternative, EndOfChoice,
     UnknownAlternative, Alternative
<1>2. CASE ~(tag_mode # 0 \/ td.tags # <<>>)
  BY <1>2 DEF CHOICE_decode_ber, ChosenFrom, TakeAlternative, EndOfChoice,
     UnknownAlternative, Alternative, WholeBuffer
<1> QED BY <1>1, <1>2

(* The alternative is read back, and no more than the frame is.             *)
LEMMA ChosenTakes ==
  ASSUME NEW td, NEW n \in Nat, NEW k, NEW part \in Seq(Octet), NEW value,
         ChoicePart(td, n, k, part, value),
         NEW f, NEW pos \in Nat, NEW tagged \in BOOLEAN, Framed(Drop(f.data, pos), f, part),
         f.whole \in BOOLEAN, ~f.nulls,
         Len(part) <= Len(Drop(f.data, pos)) /\ tagged => AtEnd(f, pos + Len(part))
  PROVE  ChosenFrom(td, f, pos, tagged) =
           IF Len(part) <= Len(Drop(f.data, pos))
           THEN Ok(pos + Len(part), Alternative(k, value)) ELSE More
<1> DEFINE elm == td.elements[k]
           rest == Drop(f.data, pos)
           u == ber_fetch_tag(rest)
           found == {i \in DOMAIN td.elements : td.elements[i].tag = u.val}
           v == ber_decoder(elm.type, rest, elm.tag_mode)
           other == UnknownAlternative(td, f, pos + u.len, SkipAfter(u, rest))
           got(i) == TakeAlternative(f, pos, tagged, i,
                            ber_decoder(td.elements[i].type, rest, td.elements[i].tag_mode))
<1>1. /\ HasMembers(td, n) /\ k \in 1 .. n /\ elm.tag \in ShortTag
      /\ Part(part, elm.type, elm.tag_mode, elm.tag, value)
  BY DEF ChoicePart, HasMembers
<1>2. \A b \in Seq(Octet) : Begins(b, part) /\ Len(b) # 0 =>
              ber_fetch_tag(b) = Fetched(1, elm.tag)
  <2> HIDE DEF elm
  <2> QED BY <1>1, PartIs
<1>3. PICK p \in Nat : Len(part) = p /\ p >= 2
  <2> HIDE DEF elm
  <2> QED BY <1>1, PartIs
<1>4. /\ rest \in Seq(Octet) /\ Begins(rest, part)
      /\ f.whole => Len(part) <= Len(rest)
      /\ Len(rest) = 0 => u = Fetched(0, 0)
  <2> HIDE DEF rest
  <2> QED BY DEF Framed, rest
<1>5. ChosenFrom(td, f, pos, tagged) =
        IF u.len < 0 THEN Fail ELSE IF u.len = 0 THEN Short(f)
        ELSE IF found # {} THEN got(Min(found)) ELSE other
  BY DEF ChosenFrom
<1>6. Takes(v, rest, part, value)
  <2> HIDE DEF rest
  <2> QED BY <1>1, <1>4 DEF Part
<1> HIDE DEF other, rest
<1>7. PICK r \in Nat : Len(rest) = r
  BY <1>4
<1>8. CASE r = 0
  <2>1. u.len = 0
    BY <1>4, <1>7, <1>8 DEF Fetched
  <2>2. ~f.whole /\ ~(Len(part) <= Len(rest))
    BY <1>3, <1>4, <1>7, <1>8
  <2> HIDE DEF u, got, found
  <2>3. ChosenFrom(td, f, pos, tagged) = More
    BY <1>5, <2>1, <2>2 DEF Short
  <2> QED BY <2>2, <2>3 DEF rest
<1>9. CASE r # 0
  <2>1. u = Fetched(1, elm.tag)
    BY <1>2, <1>4, <1>7, <1>9
  <2>2. found # {} /\ Min(found) = k
    <3>1. u.val = td.elements[k].tag
      BY <2>1 DEF Fetched
    <3> HIDE DEF u
    <3>2. LET same == {i \in DOMAIN td.elements : td.elements[i].tag = td.elements[k].tag}
          IN  same # {} /\ Min(same) = k
      BY <1>1, AlternativeFound
    <3> QED BY <3>1, <3>2, Zenon
  <2>3. ChosenFrom(td, f, pos, tagged) = got(k)
    <3>1. u.len = 1
      BY <2>1 DEF Fetched
    <3> HIDE DEF u, found, got
    <3> QED BY <1>5, <2>2, <3>1
  <2>4. got(k) = TakeAlternative(f, pos, tagged, k, v)
    OBVIOUS
  <2> HIDE DEF got, v
  <2>5. CASE p <= r
    <3>1. v.code = "RC_OK" /\ v.consumed = p /\ v.value = value
      BY <1>3, <1>6, <1>7, <2>5 DEF Takes, Ok
    <3>2. tagged => AtEnd(f, pos + p)
      BY <1>3, <1>7, <2>5 DEF rest
    <3>3. TakeAlternative(f, pos, tagged, k, v) = Ok(pos + p, Alternative(k, value))
      BY <3>1, <3>2 DEF TakeAlternative, EndOfChoice
    <3>4. ChosenFrom(td, f, pos, tagged) = Ok(pos + Len(part), Alternative(k, value))
      BY <1>3, <2>3, <2>4, <3>3
    <3>5. Len(part) <= Len(rest)
      BY <1>3, <1>7, <2>5
    <3> QED BY <3>4, <3>5 DEF rest
  <2>6. CASE ~(p <= r)
    <3>1. v = More /\ ~f.whole /\ ~(Len(part) <= Len(rest))
      BY <1>3, <1>4, <1>6, <1>7, <2>6 DEF Takes
    <3>2. TakeAlternative(f, pos, tagged, k, v) = More
      BY <3>1 DEF TakeAlternative, More, Short
    <3>3. ChosenFrom(td, f, pos, tagged) = More
      BY <2>3, <2>4, <3>2
    <3> QED BY <3>1, <3>3 DEF rest
  <2> QED BY <2>5, <2>6
<1> QED BY <1>8, <1>9

(* A CHOICE under a tag is read back if its alternative is.                 *)
THEOREM TaggedChoiceTakes ==
  ASSUME NEW td, NEW tag_mode, tag_mode # 0 \/ td.tags # <<>>,
         NEW t \in ShortTag, tag_mode = 0 => t = td.tags[1],
         NEW n \in Nat, NEW k, NEW part \in Contents, NEW value,
         ChoicePart(td, n, k, part, value),
         NEW buf \in Seq(Octet), Begins(buf, Encoding(t, TRUE, part))
  PROVE  Takes(CHOICE_decode_ber(td, buf, tag_mode), buf,
               Encoding(t, TRUE, part), Alternative(k, value))
<1> DEFINE enc == Encoding(t, TRUE, part)
           check == ber_check_tags(td, buf, tag_mode, -1)
           f == Frame(buf, check)
           returned == CHOICE_decode_ber(td, buf, tag_mode)
           all == Alternative(k, value)
<1>1. PICK h \in 2 .. 5 : Len(enc) = h + Len(part) /\ Opened(check, buf, enc, part, h)
  <2> DEFINE yes == TRUE
             form == -1
  <2>1. yes \in BOOLEAN /\ form = -1
    OBVIOUS
  <2>2. Begins(buf, Encoding(t, yes, part))
    OBVIOUS
  <2> HIDE DEF yes, form
  <2>3. \E h \in 2 .. 5 :
           /\ Len(Encoding(t, yes, part)) = h + Len(part)
           /\ Opened(ber_check_tags(td, buf, tag_mode, form), buf,
                     Encoding(t, yes, part), part, h)
    BY <2>1, <2>2, EncodingOpened
  <2> QED BY <2>3 DEF yes, form
<1> HIDE DEF enc
<1>2. PICK l \in Nat : Len(buf) = l
  OBVIOUS
<1>3. part \in Seq(Octet)
  BY DEF Contents
<1>4. PICK p \in Nat : Len(part) = p
  BY <1>3
<1>5. returned = IF check.code # "RC_OK" THEN check
               ELSE ChosenFrom(td, f, check.consumed, TRUE)
  BY ChoiceIs
<1> HIDE DEF check, returned
<1>6. CASE l < h
  <2>1. check = More
    BY <1>1, <1>2, <1>6 DEF Opened
  <2>2. check.code # "RC_OK"
    BY <2>1 DEF More
  <2>3. ~(Len(enc) <= Len(buf))
    BY <1>1, <1>2, <1>4, <1>6
  <2>4. Takes(returned, buf, enc, all)
    BY <1>5, <2>1, <2>2, <2>3 DEF Takes
  <2> QED BY <2>4 DEF enc, returned
<1>7. CASE ~(l < h)
  <2>1. /\ check.code = "RC_OK" /\ check.consumed = h /\ Frames(f, h, part)
        /\ f.whole = (Len(enc) <= Len(buf))
    BY <1>1, <1>2, <1>7 DEF Opened
  <2> HIDE DEF f, all
  <2>2. f.whole \in BOOLEAN /\ ~f.nulls /\ f.data \in Seq(Octet)
    BY <2>1 DEF Frames
  <2> DEFINE rest == Drop(f.data, h)
  <2>3. Framed(rest, f, part)
    <3> DEFINE o == 0
    <3>1. o \in Nat /\ h \in Nat /\ h + o = h
      OBVIOUS
    <3>2. Holds(part, o, part)
      BY <1>4 DEF Holds
    <3> HIDE DEF o, rest
    <3>3. Framed(Drop(f.data, h + o), f, part)
      BY <1>3, <2>1, <3>1, <3>2, PartFramed
    <3> QED BY <3>1, <3>3 DEF rest
  <2>4. PICK e \in Nat : Len(f.data) = e
    BY <2>2
  <2>5. Len(rest) = IF h <= e THEN e - h ELSE 0
    <3>1. Remains(rest, f.data, e, h)
      BY <2>2, <2>4, DropIs
    <3> HIDE DEF rest
    <3> QED BY <3>1 DEF Remains
  <2>6. IF f.whole THEN e = h + p ELSE e < h + p
    BY <1>4, <2>1, <2>4 DEF Frames
  <2>7. /\ f.whole => AtEnd(f, h + p) /\ p <= Len(rest)
        /\ ~f.whole => ~(p <= Len(rest))
    <3> HIDE DEF rest
    <3>1. f.whole => AtEnd(f, h + p)
      BY <2>4, <2>6 DEF AtEnd
    <3>2. CASE f.whole
      BY <2>2, <2>5, <2>6, <3>1, <3>2
    <3>3. CASE ~f.whole
      <4>1. p # 0
        <5>1. part # <<>> /\ Len(part) # 0
          <6>1. PICK q \in Nat : Len(part) = q /\ q >= 2
            BY PartIs DEF ChoicePart, HasMembers
          <6> QED BY <6>1
        <5> QED BY <1>4, <5>1
      <4> QED BY <2>5, <2>6, <3>3, <4>1
    <3> QED BY <2>2, <3>2, <3>3
  <2>8. ChosenFrom(td, f, h, TRUE) =
          IF Len(part) <= Len(rest) THEN Ok(h + Len(part), all) ELSE More
    <3> DEFINE yes == TRUE
    <3>1. yes \in BOOLEAN /\ h \in Nat
      OBVIOUS
    <3>2. Len(part) <= Len(rest) /\ yes => AtEnd(f, h + Len(part))
      <4> HIDE DEF rest
      <4> QED BY <1>4, <2>2, <2>7
    <3> HIDE DEF yes
    <3>3. ChosenFrom(td, f, h, yes) =
            IF Len(part) <= Len(rest) THEN Ok(h + Len(part), all) ELSE More
      BY <1>3, <2>2, <2>3, <3>1, <3>2, ChosenTakes DEF all
    <3> QED BY <3>3 DEF yes
  <2> HIDE DEF rest
  <2>9. Takes(returned, buf, enc, all)
    BY <1>1, <1>4, <1>5, <2>1, <2>2, <2>7, <2>8 DEF Takes
  <2> QED BY <2>9 DEF enc, returned, all
<1> QED BY <1>6, <1>7

(* A CHOICE without a tag is read back if its alternative is.               *)
THEOREM UntaggedChoiceTakes ==
  ASSUME NEW td, td.tags = <<>>,
         NEW n \in Nat, NEW k, NEW part \in Seq(Octet), NEW value,
         ChoicePart(td, n, k, part, value),
         NEW buf \in Seq(Octet), Begins(buf, part)
  PROVE  Takes(CHOICE_decode_ber(td, buf, 0), buf, part,
               Alternative(k, value))
<1> DEFINE returned == CHOICE_decode_ber(td, buf, 0)
           f == WholeBuffer(buf)
           all == Alternative(k, value)
<1>1. returned = ChosenFrom(td, f, 0, FALSE)
  BY ChoiceIs
<1>2. f.data = buf /\ f.whole = FALSE /\ f.nulls = FALSE
  BY DEF WholeBuffer
<1>3. PICK p \in Nat : Len(part) = p
  OBVIOUS
<1> HIDE DEF returned, f
<1>4. Drop(f.data, 0) = buf
  <2> DEFINE rest == Drop(buf, 0)
  <2>1. PICK e \in Nat : Len(buf) = e
    OBVIOUS
  <2>2. rest \in Seq(Octet) /\ Remains(rest, buf, e, 0)
    BY <2>1, DropIs
  <2> HIDE DEF rest
  <2>3. Len(rest) = e /\ \A i \in 1 .. e : rest[i] = buf[i]
    BY <2>2 DEF Remains
  <2>4. rest = buf
    BY <2>1, <2>2, <2>3, SeqEqual
  <2> QED BY <1>2, <2>4 DEF rest
<1>5. Framed(buf, f, part)
  <2>1. Len(buf) = 0 => ber_fetch_tag(buf) = Fetched(0, 0)
    BY DEF ber_fetch_tag
  <2> QED BY <1>2, <2>1 DEF Framed
<1>6. ChosenFrom(td, f, 0, FALSE) =
        IF Len(part) <= Len(buf) THEN Ok(0 + Len(part), all) ELSE More
  <2> DEFINE pos == 0
             no == FALSE
  <2>1. pos \in Nat /\ no \in BOOLEAN /\ ~no /\ Drop(f.data, pos) = buf
    BY <1>4
  <2> HIDE DEF pos, no, all
  <2>2. ChosenFrom(td, f, pos, no) =
          IF Len(part) <= Len(Drop(f.data, pos)) THEN Ok(pos + Len(part), all) ELSE More
    <3>1. Framed(Drop(f.data, pos), f, part)
      BY <1>5, <2>1
    <3>2. f.whole \in BOOLEAN /\ ~f.nulls
      BY <1>2
    <3>3. Len(part) <= Len(Drop(f.data, pos)) /\ no => AtEnd(f, pos + Len(part))
      BY <2>1
    <3> QED BY <2>1, <3>1, <3>2, <3>3, ChosenTakes DEF all
  <2> QED BY <2>1, <2>2 DEF pos, no
<1>7. Takes(returned, buf, part, all)
  <2>1. 0 + Len(part) = Len(part)
    BY <1>3
  <2> QED BY <1>1, <1>6, <2>1 DEF Takes
<1> QED BY <1>7 DEF returned
-----------------------------------------------------------------------------
(* Strings *)

\* The octets without the u bits that are not used.
Cleared(o, u) ==
  [i \in 1 .. Len(o) |-> IF i = Len(o) THEN o[i] - (o[i] % 2 ^ u) ELSE o[i]]

(* Bits that were cleared stay so.                                          *)
LEMMA BitsCleared ==
  ASSUME NEW x \in Octet, NEW u \in 0 .. 7
  PROVE  LET y == x - (x % 2 ^ u) IN y \in Octet /\ y - (y % 2 ^ u) = y /\ (u = 0 => y = x)
<1>1. CASE u = 0
  BY <1>1 DEF Octet
<1>2. CASE u = 1
  BY <1>2 DEF Octet
<1>3. CASE u = 2
  BY <1>3 DEF Octet
<1>4. CASE u = 3
  BY <1>4 DEF Octet
<1>5. CASE u = 4
  BY <1>5 DEF Octet
<1>6. CASE u = 5
  BY <1>6 DEF Octet
<1>7. CASE u = 6
  BY <1>7 DEF Octet
<1>8. CASE u = 7
  BY <1>8 DEF Octet
<1> QED BY <1>1, <1>2, <1>3, <1>4, <1>5, <1>6, <1>7, <1>8

(* So do the octets.                                                        *)
LEMMA OctetsCleared ==
  ASSUME NEW o \in Seq(Octet), NEW u \in 0 .. 7
  PROVE  /\ Cleared(o, u) \in Seq(Octet) /\ Len(Cleared(o, u)) = Len(o)
         /\ Cleared(Cleared(o, u), u) = Cleared(o, u)
         /\ u = 0 => Cleared(o, u) = o
         /\ MaskLast(o, u) = Cleared(o, u)
<1> DEFINE c == Cleared(o, u)
           d == Cleared(c, u)
<1>1. PICK m \in Nat : Len(o) = m
  OBVIOUS
<1>2. \A i \in 1 .. m : o[i] \in Octet
  BY <1>1
<1>3. /\ c \in [1 .. m -> Octet]
      /\ \A i \in 1 .. m : c[i] = IF i = m THEN o[i] - (o[i] % 2 ^ u) ELSE o[i]
  <2>1. \A i \in 1 .. m : o[i] - (o[i] % 2 ^ u) \in Octet
    BY <1>2, BitsCleared
  <2> QED BY <1>1, <1>2, <2>1 DEF Cleared
<1>4. c \in Seq(Octet) /\ Len(c) = m
  <2> HIDE DEF c
  <2> QED BY <1>3
<1> HIDE DEF c
<1>5. d = c
  <2>1. d = [i \in 1 .. m |-> IF i = m THEN c[i] - (c[i] % 2 ^ u) ELSE c[i]]
    BY <1>4 DEF Cleared
  <2>2. \A i \in 1 .. m : (IF i = m THEN c[i] - (c[i] % 2 ^ u) ELSE c[i]) = c[i]
    <3>1. SUFFICES ASSUME NEW i \in 1 .. m, i = m PROVE c[i] - (c[i] % 2 ^ u) = c[i]
      OBVIOUS
    <3>2. c[i] = o[i] - (o[i] % 2 ^ u) /\ o[i] \in Octet
      BY <1>2, <1>3, <3>1
    <3>3. LET y == o[i] - (o[i] % 2 ^ u) IN y - (y % 2 ^ u) = y
      BY <3>2, BitsCleared
    <3> QED BY <3>2, <3>3, Zenon
  <2>3. c = [i \in 1 .. m |-> c[i]]
    BY <1>3
  <2> HIDE DEF d
  <2> QED BY <2>1, <2>2, <2>3
<1>6. ASSUME u = 0 PROVE c = o
  <2>1. \A i \in 1 .. m : c[i] = o[i]
    <3>1. SUFFICES ASSUME NEW i \in 1 .. m, i = m PROVE o[i] - (o[i] % 2 ^ u) = o[i]
      BY <1>3
    <3> QED BY <1>2, <1>6, BitsCleared
  <2> QED BY <1>1, <1>4, <2>1, SeqEqual
<1>7. MaskLast(o, u) = c
  <2>1. CASE m = 0
    <3>1. o = <<>>
      BY <1>1, <2>1
    <3>2. c = o
      BY <1>1, <1>4, <2>1, SeqEqual
    <3> QED BY <3>1, <3>2 DEF MaskLast
  <2>2. CASE m # 0
    <3>1. o # <<>>
      BY <1>1, <2>2
    <3>2. MaskLast(o, u) = [o EXCEPT ![m] = o[m] - (o[m] % 2 ^ u)]
      <4>1. Mask(o[m], u) = o[m] - (o[m] % 2 ^ u)
        BY DEF Mask
      <4>2. MaskLast(o, u) = [o EXCEPT ![m] = Mask(o[m], u)]
        BY <1>1, <3>1 DEF MaskLast
      <4> QED BY <4>1, <4>2
    <3> DEFINE g == [o EXCEPT ![m] = o[m] - (o[m] % 2 ^ u)]
    <3>3. o \in [1 .. m -> Octet]
      BY <1>1
    <3>4. \A i \in 1 .. m : g[i] = IF i = m THEN o[i] - (o[i] % 2 ^ u) ELSE o[i]
      BY <3>3
    <3>5. g = [i \in 1 .. m |-> g[i]] /\ c = [i \in 1 .. m |-> c[i]]
      BY <1>3, <3>3
    <3> HIDE DEF g
    <3>6. g = c
      BY <1>3, <3>4, <3>5
    <3> QED BY <3>2, <3>6 DEF g
  <2> QED BY <2>1, <2>2
<1> QED BY <1>1, <1>4, <1>5, <1>6, <1>7 DEF c

\* The contents octets of a string.
StringContents(td, v) ==
  IF td.variant = "BIT" THEN <<v.bits_unused>> \o Cleared(v.octets, v.bits_unused)
                        ELSE v.octets

\* A string without the bits that are not used.
StringCleared(v) ==
  [bits_unused |-> v.bits_unused, octets |-> Cleared(v.octets, v.bits_unused)]

(* A string is sent as a primitive encoding.                                *)
LEMMA StringWritten ==
  ASSUME NEW td, NEW tag_mode, Tagged(td, tag_mode), NEW tag \in ShortTag,
         NEW v, StringValue(td, v), StringContents(td, v) \in Contents
  PROVE  OCTET_STRING_encode_der(td, v, tag_mode, tag)
           = Encoding(SentTag(td, tag_mode, tag), FALSE, StringContents(td, v))
<1> DEFINE u == v.bits_unused
           o == v.octets
           body == IF td.variant # "BIT" THEN o
                   ELSE <<u % 8>> \o IF u % 8 # 0 THEN MaskLast(o, u) ELSE o
<1>1. u \in 0 .. 7 /\ o \in Seq(Octet)
  BY DEF StringValue
<1> HIDE DEF u, o
<1>2. u % 8 = u
  BY <1>1
<1>3. MaskLast(o, u) = Cleared(o, u) /\ (u = 0 => Cleared(o, u) = o)
  BY <1>1, OctetsCleared
<1>4. (IF u % 8 # 0 THEN MaskLast(o, u) ELSE o) = Cleared(o, u)
  BY <1>2, <1>3
<1>5. body = StringContents(td, v)
  BY <1>2, <1>4 DEF StringContents, u, o
<1>6. OCTET_STRING_encode_der(td, v, tag_mode, tag)
        = der_encode_primitive(td, body, tag_mode, tag)
  BY DEF OCTET_STRING_encode_der, u, o
<1> HIDE DEF body
<1> QED BY <1>5, <1>6, PrimitiveWritten

(* What the contents octets hold.                                           *)
LEMMA StringHeld ==
  ASSUME NEW td, NEW v, StringValue(td, v), NEW body, body = StringContents(td, v)
  PROVE  LET u == IF td.variant = "BIT" /\ body # <<>> THEN body[1] ELSE -1
             o == IF td.variant = "BIT" /\ body # <<>> THEN Tail(body) ELSE body
         IN  /\ body \in Seq(Octet) /\ o \in Seq(Octet)
             /\ [bits_unused |-> Max({0, u}), octets |-> MaskLast(o, Max({0, u}))]
                  = StringCleared(v)
<1> DEFINE w == v.bits_unused
           c == Cleared(v.octets, w)
           u == IF td.variant = "BIT" /\ body # <<>> THEN body[1] ELSE -1
           o == IF td.variant = "BIT" /\ body # <<>> THEN Tail(body) ELSE body
<1>1. w \in 0 .. 7 /\ v.octets \in Seq(Octet)
  BY DEF StringValue
<1>2. c \in Seq(Octet) /\ Cleared(c, w) = c /\ MaskLast(c, w) = Cleared(c, w)
  BY <1>1, OctetsCleared
<1>3. CASE td.variant = "BIT"
  <2>1. body = <<w>> \o c /\ w \in Octet
    BY <1>1, <1>3 DEF StringContents, Octet
  <2> HIDE DEF c, w
  <2>2. body \in Seq(Octet) /\ body # <<>> /\ body[1] = w /\ Tail(body) = c
    BY <1>2, <2>1
  <2>3. u = w /\ o = c
    BY <1>3, <2>2
  <2>4. Max({0, w}) = w
    <3>1. \E x \in {0, w} : \A y \in {0, w} : x >= y
      BY <1>1
    <3>2. w \in {0, w} /\ \A y \in {0, w} : w >= y
      BY <1>1
    <3>3. \A x \in {0, w} : (\A y \in {0, w} : x >= y) => x = w
      BY <1>1
    <3> QED BY <3>2, <3>3 DEF Max
  <2> HIDE DEF u, o
  <2>5. [bits_unused |-> Max({0, u}), octets |-> MaskLast(o, Max({0, u}))] = StringCleared(v)
    BY <1>2, <2>3, <2>4 DEF StringCleared, c, w
  <2> QED BY <1>2, <2>2, <2>3, <2>5 DEF u, o
<1>4. CASE td.variant # "BIT"
  <2>1. w = 0 /\ body = v.octets
    BY <1>4 DEF StringContents, StringValue
  <2>2. c = v.octets
    BY <1>1, <2>1, OctetsCleared
  <2>3. u = -1 /\ o = c
    BY <1>4, <2>1, <2>2
  <2>4. Max({0, -1}) = 0
    <3>1. \A x \in {0, -1} : (\A y \in {0, -1} : x >= y) => x = 0
      OBVIOUS
    <3> QED BY <3>1 DEF Max
  <2> HIDE DEF u, o, w, c
  <2>5. [bits_unused |-> Max({0, u}), octets |-> MaskLast(o, Max({0, u}))] = StringCleared(v)
    BY <1>2, <2>1, <2>3, <2>4 DEF StringCleared, c, w
  <2> QED BY <1>2, <2>1, <2>2, <2>3, <2>5 DEF u, o
<1> QED BY <1>3, <1>4

(* A string is read back without the bits that are not used.                *)
THEOREM StringTakes ==
  ASSUME NEW td, NEW tag_mode, NEW t \in ShortTag, tag_mode = 0 => t = td.tags[1],
         NEW v, StringValue(td, v), StringContents(td, v) \in Contents,
         NEW buf \in Seq(Octet), Begins(buf, Encoding(t, FALSE, StringContents(td, v)))
  PROVE  Takes(OCTET_STRING_decode_ber(td, buf, tag_mode), buf,
               Encoding(t, FALSE, StringContents(td, v)), StringCleared(v))
<1> DEFINE body == StringContents(td, v)
           enc == Encoding(t, FALSE, body)
           none == [bits_unused |-> -1, octets |-> <<>>]
           check == ber_check_tags(td, buf, tag_mode, -1)
           string == StringTLV(td, buf, -1, TRUE, none)
           returned == OCTET_STRING_decode_ber(td, buf, tag_mode)
           fill(w) == [bits_unused |-> Max({0, w.bits_unused}),
                       octets |-> MaskLast(w.octets, Max({0, w.bits_unused}))]
           bit == td.variant = "BIT" /\ body # <<>>
           u == IF bit THEN body[1] ELSE -1
           o == IF bit THEN Tail(body) ELSE body
<1>1. PICK l \in Nat : Len(buf) = l
  OBVIOUS
<1>2. body \in Contents /\ Begins(buf, enc)
  OBVIOUS
<1>3. /\ body \in Seq(Octet) /\ o \in Seq(Octet)
      /\ [bits_unused |-> Max({0, u}), octets |-> MaskLast(o, Max({0, u}))] = StringCleared(v)
  BY StringHeld
<1> HIDE DEF body
<1>4. PICK n \in Lengths, h \in 2 .. 5 :
        /\ n \in Nat /\ Len(body) = n /\ Len(Header(t, FALSE, n)) = h
        /\ enc \in Seq(Octet)
        /\ Len(enc) = h + n
        /\ Begins(buf, Header(t, FALSE, n))
        /\ \A i \in 1 .. n : h + i <= Len(buf) => buf[h + i] = body[i]
  <2> DEFINE no == FALSE
  <2>1. no \in BOOLEAN /\ Begins(buf, Encoding(t, no, body))
    BY <1>2
  <2> HIDE DEF no
  <2>2. \E n \in Lengths, h \in 2 .. 5 :
          /\ n \in Nat /\ Len(body) = n /\ Len(Header(t, no, n)) = h
          /\ Encoding(t, no, body) \in Seq(Octet)
          /\ Len(Encoding(t, no, body)) = h + n
          /\ Begins(buf, Header(t, no, n))
          /\ \A i \in 1 .. n : h + i <= Len(buf) => buf[h + i] = body[i]
    BY <1>2, <2>1, EncodingBegins
  <2> QED BY <2>2 DEF no
<1> HIDE DEF enc
<1>5. check = IF l < h THEN More ELSE [code |-> "RC_OK", consumed |-> h, length |-> n]
  <2> DEFINE no == FALSE
             form == -1
  <2>1. no \in BOOLEAN /\ no = FALSE /\ form = -1
    OBVIOUS
  <2> HIDE DEF no, form
  <2>2. Begins(buf, Header(t, no, n))
    BY <1>4, <2>1
  <2>3. ber_check_tags(td, buf, tag_mode, form) =
          IF Len(buf) < Len(Header(t, no, n)) THEN More
          ELSE [code |-> "RC_OK", consumed |-> Len(Header(t, no, n)), length |-> n]
    BY <2>1, <2>2, TagsChecked
  <2> QED BY <1>1, <1>4, <2>1, <2>3
<1>6. returned = IF check.code # "RC_OK" THEN check
               ELSE IF string.code # "RC_OK" THEN string
               ELSE Ok(string.consumed, fill(string.value))
  BY DEF OCTET_STRING_decode_ber
<1> HIDE DEF check, string, returned
<1>7. CASE l < h
  <2>1. returned = More
    BY <1>5, <1>6, <1>7 DEF More
  <2>2. ~(Len(enc) <= Len(buf))
    BY <1>1, <1>4, <1>7
  <2> QED BY <2>1, <2>2 DEF Takes, returned, enc, body
<1>8. CASE ~(l < h)
  <2>1. /\ ber_fetch_tag(buf) = Fetched(1, t) /\ BER_TLV_CONSTRUCTED(buf) = FALSE
        /\ LengthAfter(Fetched(1, t), buf) = Fetched(h - 1, n)
    <3> DEFINE no == FALSE
    <3>1. no \in BOOLEAN /\ no = FALSE
      OBVIOUS
    <3> HIDE DEF no
    <3>2. Begins(buf, Header(t, no, n)) /\ Len(Header(t, no, n)) = h
      BY <1>4, <3>1
    <3>4. Len(buf) # 0 /\ ~(Len(buf) < h)
      BY <1>1, <1>8
    <3>3. /\ ber_fetch_tag(buf) = Fetched(1, t) /\ BER_TLV_CONSTRUCTED(buf) = no
          /\ LengthAfter(Fetched(1, t), buf) =
               IF Len(buf) < Len(Header(t, no, n)) THEN Fetched(0, 0)
               ELSE Fetched(Len(Header(t, no, n)) - 1, n)
      BY <3>1, <3>2, <3>4, HeaderFetched
    <3> QED BY <3>1, <3>2, <3>3, <3>4
  <2> DEFINE piece == SubSeq(buf, h + 1, h + n)
             held(p) == IF td.variant = "BIT" /\ p # <<>>
                        THEN [bits_unused |-> p[1], octets |-> <<>> \o Tail(p)]
                        ELSE [bits_unused |-> -1, octets |-> <<>> \o p]
  <2>2. string = IF l - h < n THEN More ELSE Ok(h + n, held(piece))
    <3>1. 1 + (h - 1) = h
      BY <1>4
    <3>2. Fetched(1, t).len = 1 /\ Fetched(1, t).val = t
          /\ Fetched(h - 1, n).len = h - 1 /\ Fetched(h - 1, n).val = n
      BY DEF Fetched
    <3>3. ~(1 <= 0) /\ ~(h - 1 <= 0) /\ ~(-1 >= 0)
      BY <1>4
    <3>4. \A p : [none EXCEPT !.octets = @ \o p] = [bits_unused |-> -1, octets |-> <<>> \o p]
      OBVIOUS
    <3> QED BY <1>1, <2>1, <3>1, <3>2, <3>3, <3>4 DEF StringTLV, string
  <2>3. CASE l - h < n
    <3>1. returned = More
      <4> HIDE DEF fill, held
      <4> QED BY <1>5, <1>6, <1>8, <2>2, <2>3 DEF More
    <3>2. ~(Len(enc) <= Len(buf))
      BY <1>1, <1>4, <2>3
    <3> QED BY <3>1, <3>2 DEF Takes, returned, enc, body
  <2>4. CASE ~(l - h < n)
    <3>1. piece = body
      <4>1. PICK e \in Nat : e = h + n
        BY <1>4
      <4>2. \A i \in h + 1 .. e : buf[i] \in Octet
        BY <1>1, <1>4, <2>4, <4>1
      <4>3. h + 1 \in Int /\ e \in Int /\ h + 1 <= e + 1 /\ e - (h + 1) + 1 = n
        BY <1>4, <4>1
      <4>4. /\ SubSeq(buf, h + 1, e) \in Seq(Octet)
            /\ Len(SubSeq(buf, h + 1, e)) = e - (h + 1) + 1
            /\ \A i \in 1 .. e - (h + 1) + 1 : SubSeq(buf, h + 1, e)[i] = buf[h + 1 + i - 1]
        BY <4>2, <4>3, SubSeqProperties
      <4>5. \A i \in 1 .. n : h + 1 + i - 1 = h + i /\ h + i <= Len(buf)
        BY <1>1, <1>4, <2>4
      <4>6. \A i \in 1 .. n : SubSeq(buf, h + 1, e)[i] = body[i]
        BY <1>4, <4>3, <4>4, <4>5
      <4>7. SubSeq(buf, h + 1, e) = body
        BY <1>3, <1>4, <4>3, <4>4, <4>6, SeqEqual
      <4> QED BY <4>1, <4>7
    <3>2. <<>> \o o = o
      BY <1>3, ConcatEmptySeq
    <3>3. held(piece) = [bits_unused |-> u, octets |-> o]
      <4> HIDE DEF piece
      <4> QED BY <3>1, <3>2
    <3> HIDE DEF held, piece, u, o
    <3>4. string.code = "RC_OK" /\ string.consumed = h + n
          /\ string.value = [bits_unused |-> u, octets |-> o]
      BY <2>2, <2>4, <3>3 DEF Ok
    <3>5. fill(string.value) = StringCleared(v)
      BY <1>3, <3>4
    <3> HIDE DEF fill
    <3>6. returned = Ok(h + n, StringCleared(v))
      BY <1>5, <1>6, <1>8, <3>4, <3>5
    <3>7. Len(enc) <= Len(buf)
      BY <1>1, <1>4, <2>4
    <3> QED BY <1>4, <3>6, <3>7 DEF Takes, returned, enc, body
  <2> QED BY <1>4, <2>3, <2>4
<1> QED BY <1>7, <1>8

(* What X.690 wants is what the encoders write.                             *)
LEMMA DistinguishedTLV ==
  ASSUME NEW t \in ShortTag, NEW c \in BOOLEAN, NEW body \in Contents
  PROVE  TLV(t, c, body, "der") = Encoding(t, c, body)
<1>1. PICK n \in Lengths : Len(body) = n
  BY DEF Contents
<1>2. n \in Nat /\ (n \div 256) \div 256 <= 255
  BY DEF Lengths
<1>3. LengthOf(n, "der") = LengthOctets(n)
  <2>1. n < 65536 <=> n \div 256 <= 255
    BY <1>2, SMT
  <2>2. n \div 65536 = (n \div 256) \div 256
    BY <1>2, SMT
  <2>3. LengthOf(n, "der") = IF n < 128 THEN <<n>> ELSE IF n < 256 THEN <<129, n>>
                             ELSE IF n < 65536 THEN <<130, n \div 256, n % 256>>
                             ELSE <<131, n \div 65536, (n \div 256) % 256, n % 256>>
    BY SMT DEF LengthOf
  <2> QED BY <1>2, <2>1, <2>2, <2>3, SMT DEF LengthOctets
<1>4. TLV(t, c, body, "der") = <<TagOctet(t, c)>> \o LengthOf(n, "der") \o body
  BY <1>1 DEF TLV, TagOctet
<1> QED BY <1>1, <1>3, <1>4 DEF Encoding, Header

(* Octets are no failure.                                                   *)
LEMMA OctetsNotFailed ==
  ASSUME NEW o \in Seq(Octet)
  PROVE  o # FAILED
<1>1. SUFFICES ASSUME o = FAILED PROVE FALSE
  OBVIOUS
<1>2. Len(o) = 1 /\ o[1] = -1
  BY <1>1 DEF FAILED
<1>3. o[1] \in Octet
  BY <1>2
<1> QED BY <1>2, <1>3 DEF Octet

(* The tags of a constructed type.                                          *)
LEMMA ConstructedWritten ==
  ASSUME NEW td, NEW tag_mode, Tagged(td, tag_mode), NEW tag \in ShortTag,
         NEW body \in Contents
  PROVE  Constructed(td, body, tag_mode, tag)
           = Encoding(SentTag(td, tag_mode, tag), TRUE, body)
<1>1. Len(body) \in Lengths /\ body # FAILED
  BY OctetsNotFailed DEF Contents
<1>2. TRUE \in BOOLEAN
  OBVIOUS
<1> QED BY <1>1, <1>2, TagsWritten DEF Constructed, Encoding

\* The codec of a type, for one of its values under one tag: what is sent is
\* the distinguished encoding, which the decoder reads back; nothing is sent
\* if a CHOICE is not made.
FaithfulUnder(d, v, tag_mode, tag) ==
  IF Chosen(d, v)
  THEN /\ der_encoder(d, v, tag_mode, tag) = Ber(d, v, <<SentTag(d, tag_mode, tag)>>, "der")
       /\ Part(der_encoder(d, v, tag_mode, tag), d, tag_mode, SentTag(d, tag_mode, tag),
               Meaning(d, v))
  ELSE der_encoder(d, v, tag_mode, tag) = FAILED

\* And without a tag.
FaithfulPlain(d, v) ==
  \A tag :
  IF Chosen(d, v)
  THEN /\ der_encoder(d, v, 0, tag) = Ber(d, v, <<>>, "der")
       /\ der_encoder(d, v, 0, tag) \in Seq(Octet)
       /\ \A buf \in Seq(Octet) : Begins(buf, der_encoder(d, v, 0, tag)) =>
            Takes(ber_decoder(d, buf, 0), buf, der_encoder(d, v, 0, tag), Meaning(d, v))
  ELSE der_encoder(d, v, 0, tag) = FAILED

Faithful(d, v) ==
  /\ \A tag_mode, tag :
       Tagged(d, tag_mode) /\ tag \in ShortTag => FaithfulUnder(d, v, tag_mode, tag)
  /\ d.tags = <<>> => FaithfulPlain(d, v)

(* The types without parts.                                                 *)
LEMMA PrimitiveFaithful ==
  ASSUME IsMeaning,
         NEW d, NEW v, d.tags # <<>>, Chosen(d, v), NEW body \in Contents,
         \A t : Ber(d, v, <<t>>, "der") = TLV(t, FALSE, body, "der"),
         \A tag_mode, tag : Tagged(d, tag_mode) /\ tag \in ShortTag =>
           /\ der_encoder(d, v, tag_mode, tag) = Encoding(SentTag(d, tag_mode, tag), FALSE, body)
           /\ \A buf \in Seq(Octet) : Begins(buf, der_encoder(d, v, tag_mode, tag)) =>
                Takes(ber_decoder(d, buf, tag_mode), buf, der_encoder(d, v, tag_mode, tag),
                      Meaning(d, v))
  PROVE  Faithful(d, v)
<1>1. SUFFICES ASSUME NEW tag_mode, NEW tag, Tagged(d, tag_mode), tag \in ShortTag
               PROVE  FaithfulUnder(d, v, tag_mode, tag)
  BY DEF Faithful
<1> DEFINE t == SentTag(d, tag_mode, tag)
           enc == der_encoder(d, v, tag_mode, tag)
<1>2. t \in ShortTag
  <2>1. 0 \in Lengths /\ TRUE \in BOOLEAN
    BY SMT DEF Lengths
  <2> QED BY <1>1, <2>1, TagsWritten
<1>3. enc = Encoding(t, FALSE, body)
      /\ \A buf \in Seq(Octet) : Begins(buf, enc) =>
                Takes(ber_decoder(d, buf, tag_mode), buf, enc, Meaning(d, v))
  BY <1>1
<1> HIDE DEF t, enc
<1>4. enc = Ber(d, v, <<t>>, "der")
  <2> DEFINE no == FALSE
  <2>1. no \in BOOLEAN
    OBVIOUS
  <2> HIDE DEF no
  <2>2. TLV(t, no, body, "der") = Encoding(t, no, body)
    BY <1>2, <2>1, DistinguishedTLV
  <2> QED BY <1>3, <2>2 DEF no
<1>5. Part(enc, d, tag_mode, t, Meaning(d, v))
  <2>1. FALSE \in BOOLEAN
    OBVIOUS
  <2> QED BY <1>3, <2>1, Zenon DEF Part
<1> QED BY <1>4, <1>5 DEF FaithfulUnder, t, enc

(* A native integer comes back as it was.                                   *)
LEMMA LongsFaithful ==
  ASSUME IsDecoder, IsEncoder, IsMeaning,
         NEW d, d.kind = "NativeInteger", OwnTag(d), NEW v, LongValue(d, v)
  PROVE  Faithful(d, v)
<1> DEFINE body == Shortest(v)
<1>1. /\ v \in Seq(Octet) /\ Len(v) = 8 /\ v \in Contents /\ v # <<>>
      /\ Canonical(v) = body /\ body \in Contents
  BY EightOctets, CanonicalIsShortest, CanonicalContents DEF LongValue
<1>2. Chosen(d, v) /\ Meaning(d, v) = v /\ d.tags # <<>>
  <2>1. ChosenIn(d, v) /\ MeaningOf(d, v) = v
    BY DEF ChosenIn, MeaningOf
  <2>2. Chosen(d, v) = ChosenIn(d, v) /\ Meaning(d, v) = MeaningOf(d, v)
    BY Zenon DEF IsMeaning
  <2> QED BY <2>1, <2>2 DEF OwnTag
<1>3. \A t : Ber(d, v, <<t>>, "der") = TLV(t, FALSE, body, "der")
  <2>1. SUFFICES ASSUME NEW t PROVE Ber(d, v, <<t>>, "der") = TLV(t, FALSE, body, "der")
    OBVIOUS
  <2>2. Ber(d, v, <<t>>, "der") = BerOf(d, v, <<t>>, "der")
    BY Zenon DEF IsMeaning
  <2>3. BerOf(d, v, <<t>>, "der") = TLV(t, FALSE, body, "der")
    BY DEF BerOf
  <2> QED BY <2>2, <2>3
<1>4. ASSUME NEW tag_mode, NEW tag, Tagged(d, tag_mode), tag \in ShortTag
      PROVE  /\ der_encoder(d, v, tag_mode, tag) = Encoding(SentTag(d, tag_mode, tag), FALSE, body)
             /\ \A buf \in Seq(Octet) : Begins(buf, der_encoder(d, v, tag_mode, tag)) =>
                  Takes(ber_decoder(d, buf, tag_mode), buf, der_encoder(d, v, tag_mode, tag),
                        Meaning(d, v))
  <2>1. der_encoder(d, v, tag_mode, tag) = NativeInteger_encode_der(d, v, tag_mode, tag)
    <3>1. der_encoder(d, v, tag_mode, tag) = EncoderOf(d, v, tag_mode, tag)
      BY Zenon DEF IsEncoder
    <3>2. EncoderOf(d, v, tag_mode, tag) = NativeInteger_encode_der(d, v, tag_mode, tag)
      BY DEF EncoderOf
    <3> QED BY <3>1, <3>2
  <2>2. der_encoder(d, v, tag_mode, tag) = Encoding(SentTag(d, tag_mode, tag), FALSE, body)
    <3>1. der_encode_primitive(d, body, tag_mode, tag)
              = Encoding(SentTag(d, tag_mode, tag), FALSE, body)
      BY <1>1, <1>4, PrimitiveWritten
    <3> QED BY <1>1, <2>1, <3>1 DEF NativeInteger_encode_der, INTEGER_encode_der
  <2>3. ASSUME NEW buf \in Seq(Octet), Begins(buf, der_encoder(d, v, tag_mode, tag))
        PROVE  Takes(ber_decoder(d, buf, tag_mode), buf, der_encoder(d, v, tag_mode, tag), v)
    <3>1. ber_decoder(d, buf, tag_mode) = NativeInteger_decode_ber(d, buf, tag_mode)
      <4>1. ber_decoder(d, buf, tag_mode) = DecoderOf(d, buf, tag_mode)
        BY Zenon DEF IsDecoder
      <4>2. DecoderOf(d, buf, tag_mode) = NativeInteger_decode_ber(d, buf, tag_mode)
        BY DEF DecoderOf
      <4> QED BY <4>1, <4>2
    <3>2. Begins(buf, NativeInteger_encode_der(d, v, tag_mode, tag))
      BY <2>1, <2>3
    <3>3. CASE d.field_unsigned
      <4>1. /\ Takes(NativeInteger_decode_ber(d, buf, tag_mode), buf,
                     NativeInteger_encode_der(d, v, tag_mode, tag), Extend(Canonical(v), 0))
            /\ ~(v[1] = 255 /\ v[2] >= 128) => Extend(Canonical(v), 0) = v
        BY <1>1, <1>4, <3>2, <3>3, NativeUnsignedRoundTrip
      <4>2. Extend(Canonical(v), 0) = v
        BY <3>3, <4>1 DEF LongValue
      <4> QED BY <2>1, <3>1, <4>1, <4>2
    <3>4. CASE ~d.field_unsigned
      <4>1. Takes(NativeInteger_decode_ber(d, buf, tag_mode), buf,
                     NativeInteger_encode_der(d, v, tag_mode, tag), v)
        BY <1>1, <1>4, <3>2, <3>4, NativeIntegerRoundTrip
      <4> QED BY <2>1, <3>1, <4>1
    <3> QED BY <3>3, <3>4
  <2> QED BY <1>2, <2>2, <2>3
<1> HIDE DEF body
<1> QED BY <1>1, <1>2, <1>3, <1>4, PrimitiveFaithful

(* An INTEGER comes back in the fewest octets.                              *)
LEMMA IntegersFaithful ==
  ASSUME IsDecoder, IsEncoder, IsMeaning,
         NEW d, d.kind = "INTEGER", OwnTag(d), NEW v \in Contents, v # <<>>
  PROVE  Faithful(d, v)
<1> DEFINE body == Shortest(v)
<1>1. v \in Seq(Octet) /\ Canonical(v) = body /\ body \in Contents
  BY CanonicalIsShortest, CanonicalContents DEF Contents
<1>2. Chosen(d, v) /\ Meaning(d, v) = body /\ d.tags # <<>>
  <2>1. ChosenIn(d, v) /\ MeaningOf(d, v) = body
    BY DEF ChosenIn, MeaningOf
  <2>2. Chosen(d, v) = ChosenIn(d, v) /\ Meaning(d, v) = MeaningOf(d, v)
    BY Zenon DEF IsMeaning
  <2> QED BY <2>1, <2>2 DEF OwnTag
<1>3. \A t : Ber(d, v, <<t>>, "der") = TLV(t, FALSE, body, "der")
  <2>1. SUFFICES ASSUME NEW t PROVE Ber(d, v, <<t>>, "der") = TLV(t, FALSE, body, "der")
    OBVIOUS
  <2>2. Ber(d, v, <<t>>, "der") = BerOf(d, v, <<t>>, "der")
    BY Zenon DEF IsMeaning
  <2>3. BerOf(d, v, <<t>>, "der") = TLV(t, FALSE, body, "der")
    BY DEF BerOf
  <2> QED BY <2>2, <2>3
<1>4. ASSUME NEW tag_mode, NEW tag, Tagged(d, tag_mode), tag \in ShortTag
      PROVE  /\ der_encoder(d, v, tag_mode, tag) = Encoding(SentTag(d, tag_mode, tag), FALSE, body)
             /\ \A buf \in Seq(Octet) : Begins(buf, der_encoder(d, v, tag_mode, tag)) =>
                  Takes(ber_decoder(d, buf, tag_mode), buf, der_encoder(d, v, tag_mode, tag),
                        Meaning(d, v))
  <2>1. der_encoder(d, v, tag_mode, tag) = INTEGER_encode_der(d, v, tag_mode, tag)
    <3>1. der_encoder(d, v, tag_mode, tag) = EncoderOf(d, v, tag_mode, tag)
      BY Zenon DEF IsEncoder
    <3>2. EncoderOf(d, v, tag_mode, tag) = INTEGER_encode_der(d, v, tag_mode, tag)
      BY DEF EncoderOf
    <3> QED BY <3>1, <3>2
  <2>2. der_encoder(d, v, tag_mode, tag) = Encoding(SentTag(d, tag_mode, tag), FALSE, body)
    <3>1. der_encode_primitive(d, body, tag_mode, tag)
              = Encoding(SentTag(d, tag_mode, tag), FALSE, body)
      BY <1>1, <1>4, PrimitiveWritten
    <3> QED BY <1>1, <2>1, <3>1 DEF INTEGER_encode_der
  <2>3. ASSUME NEW buf \in Seq(Octet), Begins(buf, der_encoder(d, v, tag_mode, tag))
        PROVE  Takes(ber_decoder(d, buf, tag_mode), buf, der_encoder(d, v, tag_mode, tag), body)
    <3>1. ber_decoder(d, buf, tag_mode) = INTEGER_decode_ber(d, buf, tag_mode)
      <4>1. ber_decoder(d, buf, tag_mode) = DecoderOf(d, buf, tag_mode)
        BY Zenon DEF IsDecoder
      <4>2. DecoderOf(d, buf, tag_mode) = INTEGER_decode_ber(d, buf, tag_mode)
        BY DEF DecoderOf
      <4> QED BY <4>1, <4>2
    <3>2. Begins(buf, INTEGER_encode_der(d, v, tag_mode, tag))
      BY <2>1, <2>3
    <3>3. Takes(INTEGER_decode_ber(d, buf, tag_mode), buf,
                INTEGER_encode_der(d, v, tag_mode, tag), body)
      BY <1>4, <3>2, INTEGERRoundTrip
    <3> QED BY <2>1, <3>1, <3>3
  <2> QED BY <1>2, <2>2, <2>3
<1> HIDE DEF body
<1> QED BY <1>1, <1>2, <1>3, <1>4, PrimitiveFaithful

(* A BOOLEAN comes back as DER has it.                                      *)
LEMMA BooleansFaithful ==
  ASSUME IsDecoder, IsEncoder, IsMeaning,
         NEW d, d.kind = "BOOLEAN", OwnTag(d), NEW v \in Octet
  PROVE  Faithful(d, v)
<1> DEFINE truth == IF v = 0 THEN 0 ELSE 255
           body == <<truth>>
<1>1. body \in Contents
  <2>1. truth \in Octet /\ 1 \in Lengths
    BY SMT DEF Octet, Lengths
  <2> HIDE DEF truth
  <2>2. body \in Seq(Octet) /\ Len(body) = 1
    BY <2>1
  <2> QED BY <2>1, <2>2 DEF Contents
<1>2. Chosen(d, v) /\ Meaning(d, v) = truth /\ d.tags # <<>>
  <2>1. ChosenIn(d, v) /\ MeaningOf(d, v) = truth
    BY DEF ChosenIn, MeaningOf
  <2>2. Chosen(d, v) = ChosenIn(d, v) /\ Meaning(d, v) = MeaningOf(d, v)
    BY Zenon DEF IsMeaning
  <2> QED BY <2>1, <2>2 DEF OwnTag
<1>3. \A t : Ber(d, v, <<t>>, "der") = TLV(t, FALSE, body, "der")
  <2>1. SUFFICES ASSUME NEW t PROVE Ber(d, v, <<t>>, "der") = TLV(t, FALSE, body, "der")
    OBVIOUS
  <2>2. Ber(d, v, <<t>>, "der") = BerOf(d, v, <<t>>, "der")
    BY Zenon DEF IsMeaning
  <2>3. BerOf(d, v, <<t>>, "der") = TLV(t, FALSE, body, "der")
    BY DEF BerOf
  <2> QED BY <2>2, <2>3
<1>4. ASSUME NEW tag_mode, NEW tag, Tagged(d, tag_mode), tag \in ShortTag
      PROVE  /\ der_encoder(d, v, tag_mode, tag) = Encoding(SentTag(d, tag_mode, tag), FALSE, body)
             /\ \A buf \in Seq(Octet) : Begins(buf, der_encoder(d, v, tag_mode, tag)) =>
                  Takes(ber_decoder(d, buf, tag_mode), buf, der_encoder(d, v, tag_mode, tag),
                        Meaning(d, v))
  <2>1. der_encoder(d, v, tag_mode, tag) = BOOLEAN_encode_der(d, v, tag_mode, tag)
    <3>1. der_encoder(d, v, tag_mode, tag) = EncoderOf(d, v, tag_mode, tag)
      BY Zenon DEF IsEncoder
    <3>2. EncoderOf(d, v, tag_mode, tag) = BOOLEAN_encode_der(d, v, tag_mode, tag)
      BY DEF EncoderOf
    <3> QED BY <3>1, <3>2
  <2>2. der_encoder(d, v, tag_mode, tag) = Encoding(SentTag(d, tag_mode, tag), FALSE, body)
    <3>1. der_encode_primitive(d, body, tag_mode, tag)
              = Encoding(SentTag(d, tag_mode, tag), FALSE, body)
      <4> HIDE DEF body
      <4> QED BY <1>1, <1>4, PrimitiveWritten
    <3>2. <<IF v # 0 THEN 255 ELSE 0>> = body
      OBVIOUS
    <3> HIDE DEF body
    <3> QED BY <2>1, <3>1, <3>2 DEF BOOLEAN_encode_der
  <2>3. ASSUME NEW buf \in Seq(Octet), Begins(buf, der_encoder(d, v, tag_mode, tag))
        PROVE  Takes(ber_decoder(d, buf, tag_mode), buf, der_encoder(d, v, tag_mode, tag), truth)
    <3>1. ber_decoder(d, buf, tag_mode) = BOOLEAN_decode_ber(d, buf, tag_mode)
      <4>1. ber_decoder(d, buf, tag_mode) = DecoderOf(d, buf, tag_mode)
        BY Zenon DEF IsDecoder
      <4>2. DecoderOf(d, buf, tag_mode) = BOOLEAN_decode_ber(d, buf, tag_mode)
        BY DEF DecoderOf
      <4> QED BY <4>1, <4>2
    <3>2. Begins(buf, BOOLEAN_encode_der(d, v, tag_mode, tag))
      BY <2>1, <2>3
    <3>3. Takes(BOOLEAN_decode_ber(d, buf, tag_mode), buf,
                BOOLEAN_encode_der(d, v, tag_mode, tag), truth)
      BY <1>4, <3>2, BOOLEANRoundTrip
    <3> QED BY <2>1, <3>1, <3>3
  <2> HIDE DEF body, truth
  <2> QED BY <1>2, <2>2, <2>3
<1> HIDE DEF body, truth
<1> QED BY <1>1, <1>2, <1>3, <1>4, PrimitiveFaithful

(* The encoder clears the bits X.690 wants cleared.                         *)
LEMMA ClearedAlike ==
  ASSUME NEW d, NEW v, StringValue(d, v)
  PROVE  ClearUnused(v) = StringCleared(v)
BY DEF ClearUnused, StringCleared, StringValue, Cleared

(* A string comes back without the bits that are not used.                  *)
LEMMA StringsFaithful ==
  ASSUME IsDecoder, IsEncoder, IsMeaning,
         NEW d, d.kind = "OCTET_STRING", OwnTag(d), NEW v, StringValue(d, v),
         StringContents(d, v) \in Contents
  PROVE  Faithful(d, v)
<1> DEFINE body == StringContents(d, v)
<1>1. ClearUnused(v) = StringCleared(v)
  BY ClearedAlike
<1>2. Chosen(d, v) /\ Meaning(d, v) = StringCleared(v) /\ d.tags # <<>>
  <2>1. ChosenIn(d, v) /\ MeaningOf(d, v) = StringCleared(v)
    BY <1>1 DEF ChosenIn, MeaningOf
  <2>2. Chosen(d, v) = ChosenIn(d, v) /\ Meaning(d, v) = MeaningOf(d, v)
    BY Zenon DEF IsMeaning
  <2> QED BY <2>1, <2>2 DEF OwnTag
<1>3. \A t : Ber(d, v, <<t>>, "der") = TLV(t, FALSE, body, "der")
  <2>1. SUFFICES ASSUME NEW t PROVE Ber(d, v, <<t>>, "der") = TLV(t, FALSE, body, "der")
    OBVIOUS
  <2>2. Ber(d, v, <<t>>, "der") = BerOf(d, v, <<t>>, "der")
    BY Zenon DEF IsMeaning
  <2>3. body = IF d.variant = "BIT" THEN <<v.bits_unused>> \o ClearUnused(v).octets
                                    ELSE v.octets
    BY <1>1 DEF StringContents, StringCleared
  <2>4. BerOf(d, v, <<t>>, "der") = TLV(t, FALSE, body, "der")
    <3> HIDE DEF body
    <3> QED BY <2>3 DEF BerOf
  <2> QED BY <2>2, <2>4
<1>4. ASSUME NEW tag_mode, NEW tag, Tagged(d, tag_mode), tag \in ShortTag
      PROVE  /\ der_encoder(d, v, tag_mode, tag) = Encoding(SentTag(d, tag_mode, tag), FALSE, body)
             /\ \A buf \in Seq(Octet) : Begins(buf, der_encoder(d, v, tag_mode, tag)) =>
                  Takes(ber_decoder(d, buf, tag_mode), buf, der_encoder(d, v, tag_mode, tag),
                        Meaning(d, v))
  <2> DEFINE t == SentTag(d, tag_mode, tag)
  <2>1. der_encoder(d, v, tag_mode, tag) = OCTET_STRING_encode_der(d, v, tag_mode, tag)
    <3>1. der_encoder(d, v, tag_mode, tag) = EncoderOf(d, v, tag_mode, tag)
      BY Zenon DEF IsEncoder
    <3>2. EncoderOf(d, v, tag_mode, tag) = OCTET_STRING_encode_der(d, v, tag_mode, tag)
      BY DEF EncoderOf
    <3> QED BY <3>1, <3>2
  <2>2. der_encoder(d, v, tag_mode, tag) = Encoding(t, FALSE, body)
    BY <1>4, <2>1, StringWritten
  <2>2a. t \in ShortTag /\ (tag_mode = 0 => t = d.tags[1])
    <3>1. 0 \in Lengths /\ TRUE \in BOOLEAN
      BY SMT DEF Lengths
    <3>2. t \in ShortTag
      BY <1>4, <3>1, TagsWritten
    <3> QED BY <3>2 DEF SentTag
  <2> HIDE DEF t
  <2>3. ASSUME NEW buf \in Seq(Octet), Begins(buf, der_encoder(d, v, tag_mode, tag))
        PROVE  Takes(ber_decoder(d, buf, tag_mode), buf, der_encoder(d, v, tag_mode, tag),
                     StringCleared(v))
    <3>1. ber_decoder(d, buf, tag_mode) = OCTET_STRING_decode_ber(d, buf, tag_mode)
      <4>1. ber_decoder(d, buf, tag_mode) = DecoderOf(d, buf, tag_mode)
        BY Zenon DEF IsDecoder
      <4>2. DecoderOf(d, buf, tag_mode) = OCTET_STRING_decode_ber(d, buf, tag_mode)
        BY DEF DecoderOf
      <4> QED BY <4>1, <4>2
    <3>2. Begins(buf, Encoding(t, FALSE, body))
      BY <2>2, <2>3
    <3>3. Takes(OCTET_STRING_decode_ber(d, buf, tag_mode), buf,
                Encoding(t, FALSE, body), StringCleared(v))
      BY <2>2a, <3>2, StringTakes
    <3> QED BY <2>2, <3>1, <3>3
  <2> QED BY <1>2, <2>2, <2>3 DEF t
<1>5. body \in Contents
  OBVIOUS
<1> HIDE DEF body
<1> QED BY <1>2, <1>3, <1>4, <1>5, PrimitiveFaithful

\* A member as it is sent, with the value x.
MemberEncoded(e, x) == der_encoder(e.type, x, e.tag_mode, e.tag)

MemberFaithful(e, x) ==
  IF Chosen(e.type, x)
  THEN /\ MemberEncoded(e, x) = Ber(e.type, x, <<e.tag>>, "der")
       /\ Part(MemberEncoded(e, x), e.type, e.tag_mode, e.tag, Meaning(e.type, x))
  ELSE MemberEncoded(e, x) = FAILED

(* The codec of a member is the one of its type, under the member's tag.    *)
LEMMA MembersFaithful ==
  ASSUME NEW e, MemberTagged(e), e.tag \in ShortTag, NEW x, Faithful(e.type, x)
  PROVE  MemberFaithful(e, x)
<1>1. Tagged(e.type, e.tag_mode) /\ e.tag_mode # 0
  BY DEF MemberTagged, OwnTag, Tagged
<1>2. FaithfulUnder(e.type, x, e.tag_mode, e.tag)
  BY <1>1, Zenon DEF Faithful
<1>3. SentTag(e.type, e.tag_mode, e.tag) = e.tag
  BY <1>1 DEF SentTag
<1> QED BY <1>2, <1>3 DEF FaithfulUnder, MemberFaithful, MemberEncoded

(* The empty sequence behind another one.                                   *)
LEMMA NothingBehind ==
  ASSUME NEW S, NEW s \in Seq(S)
  PROVE  s \o <<>> = s
OBVIOUS

(* The tags X.690 asks for a member.                                        *)
LEMMA MemberTags ==
  ASSUME NEW e, MemberTagged(e), e.tag \in ShortTag
  PROVE  <<e.tag>> \o (IF e.type.tags = <<>> THEN <<>> ELSE Tail(e.type.tags)) = <<e.tag>>
<1>0. \A t : Tail(<<t>>) = <<>>
  OBVIOUS
<1>1. (IF e.type.tags = <<>> THEN <<>> ELSE Tail(e.type.tags)) = <<>>
  <2>1. CASE e.type.tags = <<>>
    BY <2>1
  <2>2. CASE e.type.tags # <<>>
    <3>1. PICK t \in ShortTag : e.type.tags = <<t>>
      BY <2>2 DEF MemberTagged, OwnTag
    <3>2. Tail(e.type.tags) = <<>>
      BY <1>0, <3>1
    <3> QED BY <2>2, <3>2
  <2> QED BY <2>1, <2>2
<1>2. <<e.tag>> \in Seq(ShortTag)
  OBVIOUS
<1> QED BY <1>1, <1>2, NothingBehind

\* The encodings of the parts.
MemberOctets(d, v, k) ==
  IF v[k] = <<>> THEN <<>> ELSE Ber(d.elements[k].type, v[k][1], <<d.elements[k].tag>>, "der")

SequenceParts(d, v, n) == [k \in 1 .. n |-> MemberOctets(d, v, k)]

SequenceHere(v, n) == {k \in 1 .. n : v[k] # <<>>}

SequenceMeans(d, v, n) == [k \in 1 .. n |-> Meaning(d.elements[k].type, v[k][1])]

\* Whose members have good codecs.
MembersAre(d, v, n) ==
  \A k \in 1 .. n : v[k] # <<>> => Faithful(d.elements[k].type, v[k][1])

(* X.690's encoding of a SEQUENCE is made of the ones of its members.       *)
LEMMA SequenceBer ==
  ASSUME IsMeaning, NEW d, d.kind = "SEQUENCE", NEW n \in Nat, NEW v, SequenceValue(d, v, n),
         FlattenSeq(SequenceParts(d, v, n)) \in Seq(Octet)
  PROVE  /\ Ber(d, v, <<>>, "der") = FlattenSeq(SequenceParts(d, v, n))
         /\ \A t : Ber(d, v, <<t>>, "der")
                     = TLV(t, TRUE, FlattenSeq(SequenceParts(d, v, n)), "der")
<1> DEFINE member(k) == IF v[k] = <<>> THEN <<>>
                   ELSE LET e == d.elements[k]
                        IN  Ber(e.type, v[k][1],
                                <<e.tag>> \o IF e.type.tags = <<>> THEN <<>>
                                             ELSE Tail(e.type.tags), "der")
           mine == [k \in DOMAIN v |-> member(k)]
           body == FlattenSeq(SequenceParts(d, v, n))
<1>1. ASSUME NEW k \in 1 .. n PROVE member(k) = MemberOctets(d, v, k)
  <2>1. MemberTagged(d.elements[k]) /\ d.elements[k].tag \in ShortTag
    BY DEF SequenceValue, HasMembers
  <2>2. <<d.elements[k].tag>> \o (IF d.elements[k].type.tags = <<>> THEN <<>>
                                  ELSE Tail(d.elements[k].type.tags)) = <<d.elements[k].tag>>
    BY <2>1, MemberTags
  <2> QED BY <2>2 DEF MemberOctets
<1>2. mine = SequenceParts(d, v, n)
  <2>1. DOMAIN v = 1 .. n
    BY DEF SequenceValue
  <2> HIDE DEF member
  <2> QED BY <1>1, <2>1 DEF SequenceParts
<1>3. FlattenSeq(mine) \o <<>> = body
  <2> HIDE DEF mine
  <2> QED BY <1>2, NothingBehind
<1>4. ASSUME NEW tags
      PROVE  Ber(d, v, tags, "der") = IF tags = <<>> THEN body ELSE TLV(tags[1], TRUE, body, "der")
  <2>1. Ber(d, v, tags, "der") = BerOf(d, v, tags, "der")
    BY Zenon DEF IsMeaning
  <2>2. BerOf(d, v, tags, "der")
          = IF tags = <<>> THEN FlattenSeq(mine) \o <<>>
            ELSE TLV(tags[1], TRUE, FlattenSeq(mine) \o <<>>, "der")
    BY DEF BerOf
  <2> HIDE DEF mine, body
  <2> QED BY <1>3, <2>1, <2>2
<1> HIDE DEF body
<1>5. Ber(d, v, <<>>, "der") = body
  BY <1>4
<1>6. ASSUME NEW t PROVE Ber(d, v, <<t>>, "der") = TLV(t, TRUE, body, "der")
  <2>1. <<t>> # <<>> /\ <<t>>[1] = t
    OBVIOUS
  <2> QED BY <1>4, <2>1
<1> QED BY <1>5, <1>6 DEF body

(* So is what it means.                                                     *)
LEMMA SequenceMeaning ==
  ASSUME IsMeaning, NEW d, d.kind = "SEQUENCE", NEW n \in Nat, NEW v, DOMAIN v = 1 .. n
  PROVE  /\ Meaning(d, v) = Filled(SequenceMeans(d, v, n), SequenceHere(v, n), n, n + 1)
         /\ Chosen(d, v) = \A k \in SequenceHere(v, n) : Chosen(d.elements[k].type, v[k][1])
<1>1. MeaningOf(d, v) = [k \in 1 .. n |-> IF v[k] = <<>> THEN <<>>
                             ELSE <<Meaning(d.elements[k].type, v[k][1])>>]
  BY DEF MeaningOf
<1>2. ChosenIn(d, v) = \A k \in SequenceHere(v, n) : Chosen(d.elements[k].type, v[k][1])
  BY DEF ChosenIn, SequenceHere
<1>3. Chosen(d, v) = ChosenIn(d, v) /\ Meaning(d, v) = MeaningOf(d, v)
  BY Zenon DEF IsMeaning
<1>4. \A k \in 1 .. n : k < n + 1 /\ (k \in SequenceHere(v, n) <=> v[k] # <<>>)
                        /\ SequenceMeans(d, v, n)[k] = Meaning(d.elements[k].type, v[k][1])
  BY DEF SequenceHere, SequenceMeans
<1>5. [k \in 1 .. n |-> IF v[k] = <<>> THEN <<>> ELSE <<Meaning(d.elements[k].type, v[k][1])>>]
        = Filled(SequenceMeans(d, v, n), SequenceHere(v, n), n, n + 1)
  BY <1>4 DEF Filled
<1> QED BY <1>1, <1>2, <1>3, <1>5

\* The encodings of the members.
SequenceEncodings(d, v, n) ==
  [k \in 1 .. n |-> IF v[k] = <<>> THEN <<>> ELSE MemberEncoded(d.elements[k], v[k][1])]

(* They are joined, or one has failed.                                      *)
LEMMA SequenceEncoded ==
  ASSUME IsEncoder, NEW d, d.kind = "SEQUENCE", NEW n \in Nat, NEW v, SequenceValue(d, v, n),
         NEW tag_mode, NEW tag
  PROVE  der_encoder(d, v, tag_mode, tag)
           = Constructed(d, Joined(SequenceEncodings(d, v, n)), tag_mode, tag)
<1> DEFINE member(k) ==
        LET elm == d.elements[k]
        IN  CASE v[k] # <<>> -> der_encoder(elm.type, v[k][1], elm.tag_mode, elm.tag)
              [] v[k] = <<>> /\ elm.optional > 0 -> <<>>
              [] OTHER -> FAILED
<1>1. DOMAIN d.elements = 1 .. n
  BY DEF SequenceValue, HasMembers
<1>2. \A k \in 1 .. n : v[k] = <<>> => d.elements[k].optional > 0
  BY DEF SequenceValue
<1>3. ASSUME NEW k \in 1 .. n
      PROVE  member(k) = IF v[k] = <<>> THEN <<>> ELSE MemberEncoded(d.elements[k], v[k][1])
  BY <1>2 DEF MemberEncoded
<1>4. [k \in DOMAIN d.elements |-> member(k)] = SequenceEncodings(d, v, n)
  <2> HIDE DEF member
  <2> QED BY <1>1, <1>3 DEF SequenceEncodings
<1>5. der_encoder(d, v, tag_mode, tag) = EncoderOf(d, v, tag_mode, tag)
  BY Zenon DEF IsEncoder
<1>6. EncoderOf(d, v, tag_mode, tag)
        = Constructed(d, Joined([k \in DOMAIN d.elements |-> member(k)]), tag_mode, tag)
  BY DEF EncoderOf, SEQUENCE_encode_der
<1> HIDE DEF member
<1> QED BY <1>4, <1>5, <1>6

(* What is sent for a SEQUENCE whose CHOICEs are made.                      *)
LEMMA SequencePartsAre ==
  ASSUME IsMeaning, NEW d, d.kind = "SEQUENCE", NEW n \in Nat, NEW v, SequenceValue(d, v, n),
         MembersAre(d, v, n), Chosen(d, v)
  PROVE  /\ SequenceEncodings(d, v, n) = SequenceParts(d, v, n)
         /\ SequenceParts(d, v, n) \in [1 .. n -> Seq(Octet)]
         /\ SequenceHere(v, n) \in SUBSET (1 .. n)
         /\ MemberParts(d, n, SequenceParts(d, v, n), SequenceHere(v, n), SequenceMeans(d, v, n))
<1> DEFINE parts == SequenceParts(d, v, n)
           here == SequenceHere(v, n)
           vals == SequenceMeans(d, v, n)
<1>1. DOMAIN v = 1 .. n
  BY DEF SequenceValue
<1>2. \A k \in 1 .. n : k \in here <=> v[k] # <<>>
  BY DEF SequenceHere
<1>3. \A k \in 1 .. n : k \in here => Chosen(d.elements[k].type, v[k][1])
  <2>1. Chosen(d, v) = \A k \in SequenceHere(v, n) : Chosen(d.elements[k].type, v[k][1])
    BY <1>1, SequenceMeaning
  <2> QED BY <2>1, Zenon
<1>4. HasMembers(d, n) /\ OptionalsCounted(d, n)
      /\ \A k \in 1 .. n : MemberTagged(d.elements[k]) /\ d.elements[k].tag \in ShortTag
                           /\ d.elements[k].optional \in Nat
                           /\ (v[k] = <<>> => d.elements[k].optional > 0)
  BY DEF SequenceValue, HasMembers
<1>5. ASSUME NEW k \in 1 .. n
      PROVE  IF k \in here
             THEN /\ SequenceEncodings(d, v, n)[k] = parts[k]
                  /\ Part(parts[k], d.elements[k].type, d.elements[k].tag_mode,
                          d.elements[k].tag, vals[k])
             ELSE SequenceEncodings(d, v, n)[k] = parts[k] /\ parts[k] = <<>>
  <2>1. CASE k \in here
    <3>1. /\ Faithful(d.elements[k].type, v[k][1])
          /\ Chosen(d.elements[k].type, v[k][1]) /\ v[k] # <<>>
      BY <1>2, <1>3, <2>1, Zenon DEF MembersAre
    <3>2. MemberFaithful(d.elements[k], v[k][1])
      BY <1>4, <3>1, MembersFaithful
    <3>3. /\ MemberEncoded(d.elements[k], v[k][1]) = MemberOctets(d, v, k)
          /\ Part(MemberEncoded(d.elements[k], v[k][1]), d.elements[k].type,
                  d.elements[k].tag_mode, d.elements[k].tag, vals[k])
      BY <3>1, <3>2 DEF MemberFaithful, MemberOctets, SequenceMeans
    <3>4. SequenceEncodings(d, v, n)[k] = MemberEncoded(d.elements[k], v[k][1])
          /\ parts[k] = MemberOctets(d, v, k)
      BY <3>1 DEF SequenceEncodings, SequenceParts
    <3> HIDE DEF parts, vals
    <3> QED BY <2>1, <3>3, <3>4
  <2>2. CASE k \notin here
    BY <1>2, <2>2 DEF SequenceEncodings, SequenceParts, MemberOctets
  <2> QED BY <2>1, <2>2
<1>6. SequenceEncodings(d, v, n) = parts
  <2>1. \A k \in 1 .. n : SequenceEncodings(d, v, n)[k] = parts[k]
    <3> HIDE DEF parts, here, vals
    <3> QED BY <1>5
  <2> QED BY <2>1 DEF SequenceEncodings, SequenceParts
<1>7. parts \in [1 .. n -> Seq(Octet)]
  <2>1. ASSUME NEW k \in 1 .. n PROVE parts[k] \in Seq(Octet)
    <3> HIDE DEF parts, here, vals
    <3>1. CASE k \in here
      BY <1>4, <1>5, <3>1, PartIs
    <3>2. CASE k \notin here
      <4>1. parts[k] = <<>>
        BY <1>5, <3>2
      <4>2. <<>> \in Seq(Octet)
        OBVIOUS
      <4> QED BY <4>1, <4>2
    <3> QED BY <3>1, <3>2
  <2> QED BY <2>1 DEF SequenceParts
<1>8. here \in SUBSET (1 .. n)
  BY DEF SequenceHere
<1>9. MemberParts(d, n, parts, here, vals)
  <2>1. \A k \in 1 .. n, j \in 1 .. n + 1 :
          k < j /\ (\A i \in k .. j - 1 : i \notin here) => k + d.elements[k].optional >= j
    <3>1. SUFFICES ASSUME NEW k \in 1 .. n, NEW j \in 1 .. n + 1, k < j,
                          \A i \in k .. j - 1 : i \notin here
                   PROVE  k + d.elements[k].optional >= j
      BY Zenon
    <3>2. \A i \in k .. j - 1 : i \in 1 .. n
      OBVIOUS
    <3> HIDE DEF here
    <3>3. \A i \in k .. j - 1 : d.elements[i].optional > 0
      BY <1>2, <1>4, <3>1, <3>2
    <3> QED BY <1>4, <3>1, <3>3 DEF OptionalsCounted
  <2> HIDE DEF parts, here, vals
  <2> QED BY <1>4, <1>5, <2>1 DEF MemberParts
<1> QED BY <1>6, <1>7, <1>8, <1>9

(* One of the parts could not be encoded.                                   *)
LEMMA JoinedFails ==
  ASSUME NEW parts, NEW k \in DOMAIN parts, parts[k] = FAILED
  PROVE  Joined(parts) = FAILED
BY DEF Joined

(* All of them could.                                                       *)
LEMMA JoinedAll ==
  ASSUME NEW n \in Nat, NEW parts \in [1 .. n -> Seq(Octet)]
  PROVE  Joined(parts) = FlattenSeq(parts)
<1>1. \A k \in DOMAIN parts : parts[k] # FAILED
  <2>1. SUFFICES ASSUME NEW k \in 1 .. n PROVE parts[k] # FAILED
    OBVIOUS
  <2>2. parts[k] \in Seq(Octet)
    OBVIOUS
  <2> QED BY <2>2, OctetsNotFailed
<1> QED BY <1>1 DEF Joined

(* The tag of a value is a short one.                                       *)
LEMMA TagSent ==
  ASSUME NEW d, NEW tag_mode, Tagged(d, tag_mode), NEW tag \in ShortTag
  PROVE  /\ SentTag(d, tag_mode, tag) \in ShortTag
         /\ tag_mode = 0 => SentTag(d, tag_mode, tag) = d.tags[1]
<1>1. 0 \in Lengths /\ TRUE \in BOOLEAN
  BY SMT DEF Lengths
<1>2. SentTag(d, tag_mode, tag) \in ShortTag
  BY <1>1, TagsWritten
<1> QED BY <1>2 DEF SentTag

(* The codec of a SEQUENCE is faithful if those of its members are.         *)
LEMMA SequencesFaithful ==
  ASSUME IsDecoder, IsEncoder, IsMeaning,
         NEW d, d.kind = "SEQUENCE", OwnTag(d), NEW n \in Nat, NEW v, SequenceValue(d, v, n),
         MembersAre(d, v, n), Chosen(d, v) => Len(Ber(d, v, <<>>, "der")) \in Lengths
  PROVE  Faithful(d, v)
<1> DEFINE encs == SequenceEncodings(d, v, n)
           parts == SequenceParts(d, v, n)
           here == SequenceHere(v, n)
           vals == SequenceMeans(d, v, n)
           body == FlattenSeq(parts)
<1>0. d.tags # <<>>
  BY DEF OwnTag
<1>1. SUFFICES ASSUME NEW tag_mode, NEW tag, Tagged(d, tag_mode), tag \in ShortTag
               PROVE  FaithfulUnder(d, v, tag_mode, tag)
  BY <1>0, Zenon DEF Faithful
<1> DEFINE t == SentTag(d, tag_mode, tag)
<1>2. t \in ShortTag /\ (tag_mode = 0 => t = d.tags[1])
  BY <1>1, TagSent
<1>3. der_encoder(d, v, tag_mode, tag) = Constructed(d, Joined(encs), tag_mode, tag)
  BY SequenceEncoded
<1>4. DOMAIN v = 1 .. n
  BY DEF SequenceValue
<1>5. /\ Meaning(d, v) = Filled(vals, here, n, n + 1)
      /\ Chosen(d, v) = \A k \in here : Chosen(d.elements[k].type, v[k][1])
  BY <1>4, SequenceMeaning
<1>6. CASE Chosen(d, v)
  <2>1. encs = parts /\ parts \in [1 .. n -> Seq(Octet)] /\ here \in SUBSET (1 .. n)
        /\ MemberParts(d, n, parts, here, vals)
    BY <1>6, SequencePartsAre
  <2> HIDE DEF encs, parts, here, vals
  <2>2. body \in Seq(Octet) /\ Joined(encs) = body
    BY <2>1, Flattened, JoinedAll
  <2>3. /\ Ber(d, v, <<>>, "der") = body
        /\ Ber(d, v, <<t>>, "der") = TLV(t, TRUE, body, "der")
    BY <2>2, SequenceBer DEF parts
  <2>4. body \in Contents
    BY <1>6, <2>2, <2>3 DEF Contents
  <2> HIDE DEF body, t
  <2>5. Constructed(d, body, tag_mode, tag) = Encoding(t, TRUE, body)
    BY <1>1, <2>4, ConstructedWritten DEF t
  <2> DEFINE yes == TRUE
             enc == der_encoder(d, v, tag_mode, tag)
  <2>5a. yes \in BOOLEAN
    OBVIOUS
  <2>6. enc = Ber(d, v, <<t>>, "der") /\ enc = Encoding(t, yes, body)
    <3> HIDE DEF yes
    <3>1. TLV(t, yes, body, "der") = Encoding(t, yes, body)
      BY <1>2, <2>4, <2>5a, DistinguishedTLV
    <3> QED BY <1>3, <2>2, <2>3, <2>5, <3>1 DEF yes
  <2>7. ASSUME NEW buf \in Seq(Octet), Begins(buf, enc)
        PROVE  Takes(ber_decoder(d, buf, tag_mode), buf, enc, Meaning(d, v))
    <3>1. ber_decoder(d, buf, tag_mode) = SEQUENCE_decode_ber(d, buf, tag_mode)
      <4>1. ber_decoder(d, buf, tag_mode) = DecoderOf(d, buf, tag_mode)
        BY Zenon DEF IsDecoder
      <4>2. DecoderOf(d, buf, tag_mode) = SEQUENCE_decode_ber(d, buf, tag_mode)
        BY DEF DecoderOf
      <4> QED BY <4>1, <4>2
    <3> HIDE DEF enc
    <3>2. Takes(SEQUENCE_decode_ber(d, buf, tag_mode), buf,
                Encoding(t, TRUE, FlattenSeq(parts)), Filled(vals, here, n, n + 1))
      BY <1>2, <2>1, <2>4, <2>6, <2>7, SequenceTakes DEF body
    <3> QED BY <1>5, <2>6, <3>1, <3>2 DEF body
  <2>8. Part(enc, d, tag_mode, t, Meaning(d, v))
    <3> HIDE DEF enc, yes
    <3> QED BY <2>4, <2>5a, <2>6, <2>7, Zenon DEF Part
  <2> QED BY <1>6, <2>6, <2>8 DEF FaithfulUnder, t
<1>7. CASE ~Chosen(d, v)
  <2>1. PICK k \in here : ~Chosen(d.elements[k].type, v[k][1])
    BY <1>5, <1>7
  <2>2. k \in 1 .. n /\ v[k] # <<>>
    BY DEF SequenceHere
  <2>3. MemberFaithful(d.elements[k], v[k][1])
    <3>1. MemberTagged(d.elements[k]) /\ d.elements[k].tag \in ShortTag
      BY <2>2 DEF SequenceValue, HasMembers
    <3>2. Faithful(d.elements[k].type, v[k][1])
      BY <2>2 DEF MembersAre
    <3> QED BY <3>1, <3>2, MembersFaithful
  <2>4. encs[k] = FAILED /\ k \in DOMAIN encs
    BY <2>1, <2>2, <2>3 DEF SequenceEncodings, MemberFaithful
  <2> HIDE DEF encs
  <2>5. Joined(encs) = FAILED
    BY <2>4, JoinedFails
  <2>6. der_encoder(d, v, tag_mode, tag) = FAILED
    BY <1>3, <2>5 DEF Constructed
  <2> QED BY <1>7, <2>6 DEF FaithfulUnder
<1> QED BY <1>6, <1>7

ListEncodings(d, v, n) == [k \in 1 .. n |-> der_encoder(d.element, v[k], 0, 0)]

ListParts(d, v, n) == [k \in 1 .. n |-> Ber(d.element, v[k], d.element.tags, "der")]

ListMeans(d, v, n) == [k \in 1 .. n |-> Meaning(d.element, v[k])]

ItemsAre(d, v, n) == \A k \in 1 .. n : Faithful(d.element, v[k])

(* A list: how it is encoded, and what X.690 says of it.                    *)
LEMMA ListIs ==
  ASSUME IsEncoder, IsMeaning, NEW d, d.kind = "SEQUENCE_OF", NEW n \in Nat, NEW v,
         ListValue(d, v, n), NEW tag_mode, NEW tag, NEW t
  PROVE  /\ der_encoder(d, v, tag_mode, tag)
              = Constructed(d, Joined(ListEncodings(d, v, n)), tag_mode, tag)
         /\ Ber(d, v, <<>>, "der") = FlattenSeq(ListParts(d, v, n))
         /\ Ber(d, v, <<t>>, "der") = TLV(t, TRUE, FlattenSeq(ListParts(d, v, n)), "der")
         /\ Meaning(d, v) = FirstOf(ListMeans(d, v, n), n)
         /\ Chosen(d, v) = \A k \in 1 .. n : Chosen(d.element, v[k])
<1>1. DOMAIN v = 1 .. n
  BY DEF ListValue
<1>2. EncoderOf(d, v, tag_mode, tag)
        = Constructed(d, Joined(ListEncodings(d, v, n)), tag_mode, tag)
  BY <1>1 DEF EncoderOf, SEQUENCE_OF_encode_der, ListEncodings
<1>3. BerOf(d, v, <<>>, "der") = FlattenSeq(ListParts(d, v, n))
  BY <1>1 DEF BerOf, ListParts
<1>4. BerOf(d, v, <<t>>, "der") = TLV(t, TRUE, FlattenSeq(ListParts(d, v, n)), "der")
  BY <1>1 DEF BerOf, ListParts
<1>5. MeaningOf(d, v) = FirstOf(ListMeans(d, v, n), n)
  BY <1>1 DEF MeaningOf, FirstOf, ListMeans
<1>6. ChosenIn(d, v) = \A k \in 1 .. n : Chosen(d.element, v[k])
  BY <1>1 DEF ChosenIn
<1>7. /\ Meaning(d, v) = MeaningOf(d, v) /\ Chosen(d, v) = ChosenIn(d, v)
      /\ Ber(d, v, <<>>, "der") = BerOf(d, v, <<>>, "der")
      /\ Ber(d, v, <<t>>, "der") = BerOf(d, v, <<t>>, "der")
  BY Zenon DEF IsMeaning
<1>8. der_encoder(d, v, tag_mode, tag) = EncoderOf(d, v, tag_mode, tag)
  BY Zenon DEF IsEncoder
<1> QED BY <1>2, <1>3, <1>4, <1>5, <1>6, <1>7, <1>8

(* One of its items.                                                        *)
LEMMA ItemFaithful ==
  ASSUME NEW d, NEW n \in Nat, NEW v, ListValue(d, v, n), NEW k \in 1 .. n,
         Faithful(d.element, v[k])
  PROVE  IF Chosen(d.element, v[k])
         THEN /\ ListEncodings(d, v, n)[k] = ListParts(d, v, n)[k]
              /\ Part(ListParts(d, v, n)[k], d.element, 0, d.element.tags[1],
                      ListMeans(d, v, n)[k])
         ELSE ListEncodings(d, v, n)[k] = FAILED
<1> DEFINE mode == 0
<1>1. mode \in {0, -1} /\ mode \in ShortTag /\ mode = 0
  BY SMT DEF ShortTag
<1>2. PICK t \in ShortTag : d.element.tags = <<t>>
  BY DEF ListValue, OwnTag
<1>3. Tagged(d.element, mode)
  BY <1>1, <1>2 DEF Tagged
<1>4. SentTag(d.element, mode, mode) = d.element.tags[1]
  BY <1>1 DEF SentTag
<1>5. d.element.tags = <<d.element.tags[1]>>
  BY <1>2
<1> HIDE DEF mode
<1>6. FaithfulUnder(d.element, v[k], mode, mode)
  BY <1>1, <1>3, Zenon DEF Faithful
<1>7. /\ ListEncodings(d, v, n)[k] = der_encoder(d.element, v[k], mode, mode)
      /\ ListParts(d, v, n)[k] = Ber(d.element, v[k], <<d.element.tags[1]>>, "der")
      /\ ListMeans(d, v, n)[k] = Meaning(d.element, v[k])
  BY <1>1, <1>5 DEF ListEncodings, ListParts, ListMeans
<1>8. CASE Chosen(d.element, v[k])
  <2>1. /\ ListEncodings(d, v, n)[k] = ListParts(d, v, n)[k]
        /\ Part(ListParts(d, v, n)[k], d.element, mode, d.element.tags[1],
                      ListMeans(d, v, n)[k])
    BY <1>4, <1>6, <1>7, <1>8 DEF FaithfulUnder
  <2> QED BY <1>1, <1>8, <2>1
<1>9. CASE ~Chosen(d.element, v[k])
  BY <1>6, <1>7, <1>9 DEF FaithfulUnder
<1> QED BY <1>8, <1>9

(* What is sent for a list whose CHOICEs are made.                          *)
LEMMA ListPartsAre ==
  ASSUME NEW d, NEW n \in Nat, NEW v, ListValue(d, v, n), ItemsAre(d, v, n),
         \A k \in 1 .. n : Chosen(d.element, v[k])
  PROVE  /\ ListEncodings(d, v, n) = ListParts(d, v, n)
         /\ ListParts(d, v, n) \in [1 .. n -> Seq(Octet)]
         /\ ItemParts(d, n, ListParts(d, v, n), ListMeans(d, v, n))
<1> DEFINE encs == ListEncodings(d, v, n)
           parts == ListParts(d, v, n)
           vals == ListMeans(d, v, n)
           first == d.element.tags[1]
<1>1. first \in ShortTag
  BY DEF ListValue, OwnTag
<1>2. ASSUME NEW k \in 1 .. n
      PROVE  encs[k] = parts[k] /\ Part(parts[k], d.element, 0, first, vals[k])
  BY ItemFaithful DEF ItemsAre
<1>3. DOMAIN encs = 1 .. n /\ DOMAIN parts = 1 .. n
      /\ encs = [k \in 1 .. n |-> encs[k]] /\ parts = [k \in 1 .. n |-> parts[k]]
  BY DEF ListEncodings, ListParts
<1> HIDE DEF encs, parts, vals, first
<1>4. encs = parts
  BY <1>2, <1>3
<1>5. parts \in [1 .. n -> Seq(Octet)]
  <2>1. ASSUME NEW k \in 1 .. n PROVE parts[k] \in Seq(Octet)
    <3> DEFINE mode == 0
    <3>1. Part(parts[k], d.element, mode, first, vals[k])
      BY <1>2
    <3> HIDE DEF mode
    <3> QED BY <1>1, <3>1, PartIs
  <2> QED BY <1>3, <2>1
<1>6. ItemParts(d, n, parts, vals)
  BY <1>1, <1>2 DEF ItemParts, first
<1> QED BY <1>4, <1>5, <1>6 DEF encs, parts, vals

(* The codec of a list is faithful if the one of its items is.              *)
LEMMA ListsFaithful ==
  ASSUME IsDecoder, IsEncoder, IsMeaning,
         NEW d, d.kind = "SEQUENCE_OF", OwnTag(d), NEW n \in Nat, NEW v, ListValue(d, v, n),
         ItemsAre(d, v, n), Chosen(d, v) => Len(Ber(d, v, <<>>, "der")) \in Lengths
  PROVE  Faithful(d, v)
<1> DEFINE encs == ListEncodings(d, v, n)
           parts == ListParts(d, v, n)
           vals == ListMeans(d, v, n)
           body == FlattenSeq(parts)
<1>0. d.tags # <<>>
  BY DEF OwnTag
<1>1. SUFFICES ASSUME NEW tag_mode, NEW tag, Tagged(d, tag_mode), tag \in ShortTag
               PROVE  FaithfulUnder(d, v, tag_mode, tag)
  BY <1>0, Zenon DEF Faithful
<1> DEFINE t == SentTag(d, tag_mode, tag)
<1>2. t \in ShortTag /\ (tag_mode = 0 => t = d.tags[1])
  BY <1>1, TagSent
<1>3. /\ der_encoder(d, v, tag_mode, tag) = Constructed(d, Joined(encs), tag_mode, tag)
      /\ Ber(d, v, <<>>, "der") = body
      /\ Ber(d, v, <<t>>, "der") = TLV(t, TRUE, body, "der")
      /\ Meaning(d, v) = FirstOf(vals, n)
      /\ Chosen(d, v) = \A k \in 1 .. n : Chosen(d.element, v[k])
  BY ListIs
<1>4. CASE Chosen(d, v)
  <2>1. encs = parts /\ parts \in [1 .. n -> Seq(Octet)] /\ ItemParts(d, n, parts, vals)
    <3>1. \A k \in 1 .. n : Chosen(d.element, v[k])
      BY <1>3, <1>4
    <3> QED BY <3>1, ListPartsAre
  <2> HIDE DEF encs, parts, vals
  <2>2. body \in Seq(Octet) /\ Joined(encs) = body
    BY <2>1, Flattened, JoinedAll
  <2>3. body \in Contents
    BY <1>3, <1>4, <2>2 DEF Contents
  <2> HIDE DEF body, t
  <2>4. Constructed(d, body, tag_mode, tag) = Encoding(t, TRUE, body)
    BY <1>1, <2>3, ConstructedWritten DEF t
  <2> DEFINE yes == TRUE
             enc == der_encoder(d, v, tag_mode, tag)
  <2>5. yes \in BOOLEAN
    OBVIOUS
  <2>6. enc = Ber(d, v, <<t>>, "der") /\ enc = Encoding(t, yes, body)
    <3> HIDE DEF yes
    <3>1. TLV(t, yes, body, "der") = Encoding(t, yes, body)
      BY <1>2, <2>3, <2>5, DistinguishedTLV
    <3> QED BY <1>3, <2>2, <2>4, <3>1 DEF yes
  <2>7. ASSUME NEW buf \in Seq(Octet), Begins(buf, enc)
        PROVE  Takes(ber_decoder(d, buf, tag_mode), buf, enc, Meaning(d, v))
    <3>1. ber_decoder(d, buf, tag_mode) = SET_OF_decode_ber(d, buf, tag_mode)
      <4>1. ber_decoder(d, buf, tag_mode) = DecoderOf(d, buf, tag_mode)
        BY Zenon DEF IsDecoder
      <4>2. DecoderOf(d, buf, tag_mode) = SET_OF_decode_ber(d, buf, tag_mode)
        BY DEF DecoderOf
      <4> QED BY <4>1, <4>2
    <3> HIDE DEF enc
    <3>2. Takes(SET_OF_decode_ber(d, buf, tag_mode), buf,
                Encoding(t, TRUE, FlattenSeq(parts)), FirstOf(vals, n))
      BY <1>2, <2>1, <2>3, <2>6, <2>7, ListTakes DEF body
    <3> QED BY <1>3, <2>6, <3>1, <3>2 DEF body
  <2>8. Part(enc, d, tag_mode, t, Meaning(d, v))
    <3> HIDE DEF enc, yes
    <3> QED BY <2>3, <2>5, <2>6, <2>7, Zenon DEF Part
  <2> QED BY <1>4, <2>6, <2>8 DEF FaithfulUnder, t
<1>5. CASE ~Chosen(d, v)
  <2>1. PICK k \in 1 .. n : ~Chosen(d.element, v[k])
    BY <1>3, <1>5
  <2>2. encs[k] = FAILED
    BY <2>1, ItemFaithful DEF ItemsAre
  <2>3. k \in DOMAIN encs
    BY DEF ListEncodings
  <2> HIDE DEF encs
  <2>4. Joined(encs) = FAILED
    BY <2>2, <2>3, JoinedFails
  <2>5. der_encoder(d, v, tag_mode, tag) = FAILED
    BY <1>3, <2>4 DEF Constructed
  <2> QED BY <1>5, <2>5 DEF FaithfulUnder
<1> QED BY <1>4, <1>5

AlternativeIs(d, v) == v.present # 0 => Faithful(d.elements[v.present].type, v.choice)

(* A CHOICE: how it is encoded, and what X.690 says of it.                  *)
LEMMA ChoiceMade ==
  ASSUME IsEncoder, IsMeaning, NEW d, d.kind = "CHOICE", NEW n \in Nat, NEW v,
         ChoiceValue(d, v, n), v.present # 0, NEW tag_mode, NEW tag, NEW t
  PROVE  LET e == d.elements[v.present]
             body == MemberEncoded(e, v.choice)
         IN  /\ der_encoder(d, v, tag_mode, tag)
                  = IF tag_mode = 1 THEN Constructed(d, body, tag_mode, tag) ELSE body
             /\ Ber(d, v, <<>>, "der") = Ber(e.type, v.choice, <<e.tag>>, "der")
             /\ Ber(d, v, <<t>>, "der") = TLV(t, TRUE, Ber(d, v, <<>>, "der"), "der")
             /\ Meaning(d, v) = Alternative(v.present, Meaning(e.type, v.choice))
             /\ Chosen(d, v) <=> Chosen(e.type, v.choice)
<1> DEFINE e == d.elements[v.present]
           body == MemberEncoded(e, v.choice)
<1>1. v.present \in DOMAIN d.elements /\ d.tags = <<>>
  BY DEF ChoiceValue, HasMembers
<1>2. EncoderOf(d, v, tag_mode, tag)
        = IF tag_mode = 1 THEN Constructed(d, body, tag_mode, tag) ELSE body
  BY <1>1 DEF EncoderOf, CHOICE_encode_der, MemberEncoded
<1>3. BerOf(d, v, <<>>, "der") = Ber(e.type, v.choice, <<e.tag>>, "der")
  BY DEF BerOf
<1>4. BerOf(d, v, <<t>>, "der") = TLV(t, TRUE, Ber(e.type, v.choice, <<e.tag>>, "der"), "der")
  BY DEF BerOf
<1>5. MeaningOf(d, v) = Alternative(v.present, Meaning(e.type, v.choice))
  <2>1. MeaningOf(d, v) = [v EXCEPT !.choice = Meaning(e.type, @)]
    BY DEF MeaningOf
  <2>2. v = [present |-> v.present, choice |-> v.choice]
    BY DEF ChoiceValue
  <2> QED BY <2>1, <2>2 DEF Alternative
<1>6. ChosenIn(d, v) <=> Chosen(e.type, v.choice)
  BY DEF ChosenIn
<1>7. /\ Meaning(d, v) = MeaningOf(d, v) /\ Chosen(d, v) = ChosenIn(d, v)
      /\ Ber(d, v, <<>>, "der") = BerOf(d, v, <<>>, "der")
      /\ Ber(d, v, <<t>>, "der") = BerOf(d, v, <<t>>, "der")
  BY Zenon DEF IsMeaning
<1>8. der_encoder(d, v, tag_mode, tag) = EncoderOf(d, v, tag_mode, tag)
  BY Zenon DEF IsEncoder
<1>9. Chosen(d, v) <=> Chosen(e.type, v.choice)
  BY <1>6, <1>7
<1>10. /\ der_encoder(d, v, tag_mode, tag)
            = IF tag_mode = 1 THEN Constructed(d, body, tag_mode, tag) ELSE body
       /\ Ber(d, v, <<>>, "der") = Ber(e.type, v.choice, <<e.tag>>, "der")
       /\ Ber(d, v, <<t>>, "der") = TLV(t, TRUE, Ber(d, v, <<>>, "der"), "der")
       /\ Meaning(d, v) = Alternative(v.present, Meaning(e.type, v.choice))
  BY <1>2, <1>3, <1>4, <1>5, <1>7, <1>8
<1> QED BY <1>9, <1>10

(* Without an alternative nothing is sent.                                  *)
LEMMA ChoiceNotMade ==
  ASSUME IsEncoder, IsMeaning, NEW d, d.kind = "CHOICE", NEW n \in Nat, NEW v,
         ChoiceValue(d, v, n), v.present = 0, NEW tag_mode, NEW tag
  PROVE  ~Chosen(d, v) /\ der_encoder(d, v, tag_mode, tag) = FAILED
<1>1. DOMAIN d.elements = 1 .. n /\ v.present \notin 1 .. n
  BY DEF ChoiceValue, HasMembers
<1>2. EncoderOf(d, v, tag_mode, tag) = FAILED
  BY <1>1 DEF EncoderOf, CHOICE_encode_der, Constructed
<1>3. ~ChosenIn(d, v)
  BY DEF ChosenIn
<1>4. Chosen(d, v) = ChosenIn(d, v)
  BY Zenon DEF IsMeaning
<1>5. der_encoder(d, v, tag_mode, tag) = EncoderOf(d, v, tag_mode, tag)
  BY Zenon DEF IsEncoder
<1> QED BY <1>2, <1>3, <1>4, <1>5

(* The codec of a CHOICE is faithful if the one of its alternative is.      *)
LEMMA ChoicesFaithful ==
  ASSUME IsDecoder, IsEncoder, IsMeaning,
         NEW d, d.kind = "CHOICE", NEW n \in Nat, NEW v, ChoiceValue(d, v, n),
         AlternativeIs(d, v), Chosen(d, v) => Len(Ber(d, v, <<>>, "der")) \in Lengths
  PROVE  Faithful(d, v)
<1> DEFINE e == d.elements[v.present]
           body == MemberEncoded(e, v.choice)
           value == Meaning(e.type, v.choice)
<1>1. CASE v.present = 0
  <2>1. \A tag_mode, tag : ~Chosen(d, v) /\ der_encoder(d, v, tag_mode, tag) = FAILED
    BY <1>1, ChoiceNotMade
  <2>2. \A tag_mode, tag : FaithfulUnder(d, v, tag_mode, tag)
    BY <2>1 DEF FaithfulUnder
  <2>3. FaithfulPlain(d, v)
    BY <2>1 DEF FaithfulPlain
  <2> QED BY <2>2, <2>3, Zenon DEF Faithful
<1>2. CASE v.present # 0
  <2>1. d.tags = <<>> /\ HasMembers(d, n) /\ v.present \in 1 .. n
        /\ MemberTagged(e) /\ e.tag \in ShortTag
    BY <1>2 DEF ChoiceValue, HasMembers
  <2>2. MemberFaithful(e, v.choice)
    BY <1>2, <2>1, MembersFaithful DEF AlternativeIs
  <2>3. ASSUME NEW tag_mode, NEW tag, NEW t
        PROVE  /\ der_encoder(d, v, tag_mode, tag)
                    = IF tag_mode = 1 THEN Constructed(d, body, tag_mode, tag) ELSE body
               /\ Ber(d, v, <<>>, "der") = Ber(e.type, v.choice, <<e.tag>>, "der")
               /\ Ber(d, v, <<t>>, "der") = TLV(t, TRUE, Ber(d, v, <<>>, "der"), "der")
               /\ Meaning(d, v) = Alternative(v.present, value)
               /\ Chosen(d, v) <=> Chosen(e.type, v.choice)
    BY <1>2, ChoiceMade
  <2>4. CASE ~Chosen(d, v)
    <3>1. body = FAILED
      BY <2>2, <2>3, <2>4 DEF MemberFaithful
    <3> HIDE DEF body, e
    <3>2. \A tag_mode, tag : der_encoder(d, v, tag_mode, tag) = FAILED
      BY <2>3, <3>1 DEF Constructed
    <3>3. \A tag_mode, tag : FaithfulUnder(d, v, tag_mode, tag)
      BY <2>4, <3>2 DEF FaithfulUnder
    <3>4. FaithfulPlain(d, v)
      BY <2>4, <3>2 DEF FaithfulPlain
    <3> QED BY <3>3, <3>4, Zenon DEF Faithful
  <2>5. CASE Chosen(d, v)
    <3>1. /\ body = Ber(d, v, <<>>, "der")
          /\ Part(body, e.type, e.tag_mode, e.tag, value)
      BY <2>2, <2>3, <2>5 DEF MemberFaithful
    <3> HIDE DEF body
    <3>2. body \in Seq(Octet) /\ body \in Contents
      <4>1. body \in Seq(Octet)
        <5> HIDE DEF e, value
        <5> QED BY <2>1, <3>1, PartIs
      <4> QED BY <2>5, <3>1, <4>1 DEF Contents
    <3>3. ChoicePart(d, n, v.present, body, value)
      BY <2>1, <3>1 DEF ChoicePart
    <3> HIDE DEF e, value
    <3>4. ASSUME NEW buf \in Seq(Octet), NEW tag_mode
          PROVE  ber_decoder(d, buf, tag_mode)
                   = CHOICE_decode_ber(d, buf, tag_mode)
      <4>1. ber_decoder(d, buf, tag_mode) = DecoderOf(d, buf, tag_mode)
        BY Zenon DEF IsDecoder
      <4>2. DecoderOf(d, buf, tag_mode)
              = CHOICE_decode_ber(d, buf, tag_mode)
        BY DEF DecoderOf
      <4> QED BY <4>1, <4>2
    <3>5. FaithfulPlain(d, v)
      <4>1. SUFFICES ASSUME NEW tag
                     PROVE  /\ der_encoder(d, v, 0, tag) = Ber(d, v, <<>>, "der")
                            /\ der_encoder(d, v, 0, tag) \in Seq(Octet)
                            /\ \A buf \in Seq(Octet) : Begins(buf, der_encoder(d, v, 0, tag)) =>
                                 Takes(ber_decoder(d, buf, 0), buf, der_encoder(d, v, 0, tag),
                                       Meaning(d, v))
        BY <2>5 DEF FaithfulPlain
      <4>2. der_encoder(d, v, 0, tag) = body /\ Meaning(d, v) = Alternative(v.present, value)
        <5> DEFINE mode == 0
        <5>1. mode # 1
          OBVIOUS
        <5> HIDE DEF mode
        <5>2. der_encoder(d, v, mode, tag) = body /\ Meaning(d, v) = Alternative(v.present, value)
          BY <2>3, <5>1
        <5> QED BY <5>2 DEF mode
      <4>3. ASSUME NEW buf \in Seq(Octet), Begins(buf, body)
            PROVE  Takes(ber_decoder(d, buf, 0), buf, body, Alternative(v.present, value))
        <5>1. Takes(CHOICE_decode_ber(d, buf, 0), buf, body,
                    Alternative(v.present, value))
          BY <2>1, <3>2, <3>3, <4>3, UntaggedChoiceTakes
        <5> QED BY <3>4, <5>1
      <4> QED BY <3>1, <3>2, <4>2, <4>3
    <3>6. ASSUME NEW tag_mode, NEW tag, Tagged(d, tag_mode), tag \in ShortTag
          PROVE  FaithfulUnder(d, v, tag_mode, tag)
      <4> DEFINE t == SentTag(d, tag_mode, tag)
                 enc == der_encoder(d, v, tag_mode, tag)
                 yes == TRUE
      <4>1. tag_mode = 1
        BY <2>1, <3>6 DEF Tagged
      <4>2. t \in ShortTag /\ (tag_mode = 0 => t = d.tags[1])
        BY <3>6, TagSent
      <4>3. Constructed(d, body, tag_mode, tag) = Encoding(t, TRUE, body)
        BY <3>2, <3>6, ConstructedWritten
      <4>4. yes \in BOOLEAN
        OBVIOUS
      <4> HIDE DEF t
      <4>5. enc = Ber(d, v, <<t>>, "der") /\ enc = Encoding(t, yes, body)
        <5> HIDE DEF yes
        <5>1. TLV(t, yes, body, "der") = Encoding(t, yes, body)
          BY <3>2, <4>2, <4>4, DistinguishedTLV
        <5>2. Ber(d, v, <<t>>, "der") = TLV(t, TRUE, body, "der")
          BY <2>3, <3>1
        <5>3. enc = Constructed(d, body, tag_mode, tag)
          BY <2>3, <4>1
        <5> QED BY <4>3, <5>1, <5>2, <5>3 DEF yes
      <4> HIDE DEF enc
      <4>6. ASSUME NEW buf \in Seq(Octet), Begins(buf, enc)
            PROVE  Takes(ber_decoder(d, buf, tag_mode), buf, enc, Meaning(d, v))
        <5>1. Begins(buf, Encoding(t, TRUE, body))
          BY <4>5, <4>6
        <5>1a. tag_mode # 0
          BY <4>1
        <5>2. Takes(CHOICE_decode_ber(d, buf, tag_mode), buf,
                    Encoding(t, TRUE, body), Alternative(v.present, value))
          BY <3>2, <3>3, <4>2, <5>1, <5>1a, TaggedChoiceTakes
        <5>3. Meaning(d, v) = Alternative(v.present, value)
          BY <2>3
        <5> QED BY <3>4, <4>5, <5>2, <5>3
      <4>7. Part(enc, d, tag_mode, t, Meaning(d, v))
        <5> HIDE DEF yes
        <5> QED BY <3>2, <4>4, <4>5, <4>6, Zenon DEF Part
      <4> QED BY <2>5, <4>5, <4>7 DEF FaithfulUnder, t, enc
    <3> QED BY <3>5, <3>6, Zenon DEF Faithful
  <2> QED BY <2>4, <2>5
<1> QED BY <1>1, <1>2
-----------------------------------------------------------------------------
(* Every value *)

(* The codec of a type is faithful if the codecs of its parts are.          *)
LEMMA FaithfulFromParts ==
  ASSUME IsDecoder, IsEncoder, IsMeaning, NEW d, NEW v, ValueOf(d, v), Fits(d, v),
         \A p \in PartsOf(d, v) : Faithful(p[1], p[2])
  PROVE  Faithful(d, v)
<1>1. CASE d.kind = "NativeInteger"
  BY <1>1, LongsFaithful DEF ValueOf, LongValue
<1>2. CASE d.kind = "INTEGER"
  BY <1>2, IntegersFaithful DEF ValueOf, IntegerValue
<1>3. CASE d.kind = "BOOLEAN"
  BY <1>3, BooleansFaithful DEF ValueOf, BooleanValue
<1>4. CASE d.kind = "OCTET_STRING"
  <2>1. StringValue(d, v)
    BY <1>4 DEF ValueOf
  <2>2. OwnTag(d)
    BY <2>1 DEF StringValue
  <2>3. StringContents(d, v) \in Seq(Octet)
    BY <2>1, StringHeld
  <2>4. Chosen(d, v)
    <3>1. ChosenIn(d, v)
      BY <1>4 DEF ChosenIn
    <3>2. Chosen(d, v) = ChosenIn(d, v)
      BY Zenon DEF IsMeaning
    <3> QED BY <3>1, <3>2
  <2>5. Ber(d, v, <<>>, "der") = StringContents(d, v)
    <3>1. Ber(d, v, <<>>, "der") = BerOf(d, v, <<>>, "der")
      BY Zenon DEF IsMeaning
    <3>2. ClearUnused(v) = StringCleared(v)
      BY <2>1, ClearedAlike
    <3>3. StringContents(d, v) = IF d.variant = "BIT"
                                 THEN <<v.bits_unused>> \o ClearUnused(v).octets ELSE v.octets
      BY <3>2 DEF StringContents, StringCleared
    <3>4. BerOf(d, v, <<>>, "der") = StringContents(d, v)
      BY <1>4, <3>3 DEF BerOf
    <3> QED BY <3>1, <3>4
  <2>6. StringContents(d, v) \in Contents
    BY <2>3, <2>4, <2>5 DEF Fits, Contents
  <2> QED BY <1>4, <2>1, <2>2, <2>6, StringsFaithful
<1>5. CASE d.kind = "SEQUENCE"
  <2>1. PICK n \in Nat : SequenceValue(d, v, n) /\ DOMAIN v = 1 .. n
    BY <1>5 DEF ValueOf, SequenceValue, HasMembers
  <2>2. OwnTag(d)
    BY <1>5 DEF ValueOf
  <2>3. MembersAre(d, v, n)
    <3>1. SUFFICES ASSUME NEW k \in 1 .. n, v[k] # <<>>
                   PROVE  Faithful(d.elements[k].type, v[k][1])
      BY DEF MembersAre
    <3>2. <<d.elements[k].type, v[k][1]>> \in PartsOf(d, v)
      BY <1>5, <2>1, <3>1 DEF PartsOf
    <3> QED BY <3>2
  <2> QED BY <1>5, <2>1, <2>2, <2>3, SequencesFaithful DEF Fits
<1>6. CASE d.kind = "SEQUENCE_OF"
  <2>1. PICK n \in Nat : ListValue(d, v, n) /\ DOMAIN v = 1 .. n
    BY <1>6 DEF ValueOf, ListValue
  <2>2. OwnTag(d)
    BY <1>6 DEF ValueOf
  <2>3. ItemsAre(d, v, n)
    <3>1. SUFFICES ASSUME NEW k \in 1 .. n PROVE Faithful(d.element, v[k])
      BY DEF ItemsAre
    <3>2. <<d.element, v[k]>> \in PartsOf(d, v)
      BY <1>6, <2>1 DEF PartsOf
    <3> QED BY <3>2
  <2> QED BY <1>6, <2>1, <2>2, <2>3, ListsFaithful DEF Fits
<1>7. CASE d.kind = "CHOICE"
  <2>1. PICK n \in Nat : ChoiceValue(d, v, n)
    BY <1>7 DEF ValueOf, ChoiceValue, HasMembers
  <2>2. AlternativeIs(d, v)
    <3>1. SUFFICES ASSUME v.present # 0
                   PROVE  Faithful(d.elements[v.present].type, v.choice)
      BY DEF AlternativeIs
    <3>2. <<d.elements[v.present].type, v.choice>> \in PartsOf(d, v)
      BY <1>7, <3>1 DEF PartsOf
    <3> QED BY <3>2
  <2> QED BY <1>7, <2>1, <2>2, ChoicesFaithful DEF Fits
<1> QED BY <1>1, <1>2, <1>3, <1>4, <1>5, <1>6, <1>7 DEF ValueOf

(* Every value of every type is encoded as X.690 demands, and the decoder   *)
(* reads back what was encoded: by induction on the depth of the types.     *)
THEOREM ValuesFaithful ==
  ASSUME IsDecoder, IsEncoder, IsMeaning, NEW x \in Values
  PROVE  Faithful(x[1], x[2])
<1> DEFINE bad == {k \in Nat : \E y \in Values : Depth(y[1]) = k /\ ~Faithful(y[1], y[2])}
<1>1. \A y \in Values :
        /\ ValueOf(y[1], y[2]) /\ Fits(y[1], y[2]) /\ Depth(y[1]) \in Nat
        /\ \A p \in PartsOf(y[1], y[2]) : p \in Values /\ Depth(p[1]) < Depth(y[1])
  BY ValuesAreNested, PartsAreValues
<1>2. SUFFICES ASSUME ~Faithful(x[1], x[2]) PROVE FALSE
  OBVIOUS
<1>3. bad \in SUBSET Nat /\ bad # {}
  BY <1>1, <1>2
<1>4. Min(bad) \in bad /\ \A k \in bad : Min(bad) <= k
  <2> HIDE DEF bad
  <2> QED BY <1>3, MinIsLeast
<1>5. PICK y \in Values : Depth(y[1]) = Min(bad) /\ ~Faithful(y[1], y[2])
  BY <1>4
<1>6. ASSUME NEW p \in PartsOf(y[1], y[2]) PROVE Faithful(p[1], p[2])
  <2>1. p \in Values /\ Depth(p[1]) < Depth(y[1]) /\ Depth(p[1]) \in Nat /\ Depth(y[1]) \in Nat
    BY <1>1
  <2>2. ~(Min(bad) <= Depth(p[1]))
    <3> HIDE DEF bad
    <3> QED BY <1>5, <2>1
  <2>3. Depth(p[1]) \notin bad
    <3> HIDE DEF bad
    <3> QED BY <1>4, <2>2
  <2> QED BY <2>1, <2>3
<1>7. ValueOf(y[1], y[2]) /\ Fits(y[1], y[2])
  BY <1>1
<1>8. Faithful(y[1], y[2])
  BY <1>6, <1>7, FaithfulFromParts
<1> QED BY <1>5, <1>8

\* What encode and decode do with a value.
Sent(d, v) ==
  IF Chosen(d, v)
  THEN /\ der_encode(d, v) = Ber(d, v, d.tags, "der")
       /\ der_encode(d, v) \in Seq(Octet) /\ der_encode(d, v) # FAILED
       /\ \A buf \in Seq(Octet) : Begins(buf, der_encode(d, v)) =>
            Takes(ber_decode(d, buf), buf, der_encode(d, v), Meaning(d, v))
  ELSE der_encode(d, v) = FAILED

(* The types of values have one tag or none.                                *)
LEMMA ValueTagged ==
  ASSUME NEW d, NEW v, ValueOf(d, v)
  PROVE  d.tags = <<>> \/ OwnTag(d)
BY DEF ValueOf, LongValue, IntegerValue, BooleanValue, StringValue, ChoiceValue

(* A faithful codec sends and reads back at the top of a message.           *)
LEMMA FaithfulSent ==
  ASSUME NEW d, NEW v, Faithful(d, v), d.tags = <<>> \/ OwnTag(d)
  PROVE  Sent(d, v)
<1> DEFINE zero == 0
<1>1. zero \in {0, -1} /\ zero \in ShortTag
  BY SMT DEF ShortTag
<1>2. CASE d.tags = <<>>
  <2>1. FaithfulPlain(d, v)
    BY <1>2 DEF Faithful
  <2>2. CASE Chosen(d, v)
    <3>1. /\ der_encode(d, v) = Ber(d, v, d.tags, "der") /\ der_encode(d, v) \in Seq(Octet)
          /\ \A buf \in Seq(Octet) : Begins(buf, der_encode(d, v)) =>
               Takes(ber_decode(d, buf), buf, der_encode(d, v), Meaning(d, v))
      BY <1>2, <2>1, <2>2 DEF FaithfulPlain, der_encode, ber_decode
    <3> QED BY <2>2, <3>1, OctetsNotFailed DEF Sent
  <2>3. CASE ~Chosen(d, v)
    BY <2>1, <2>3 DEF FaithfulPlain, Sent, der_encode
  <2> QED BY <2>2, <2>3
<1>3. CASE OwnTag(d)
  <2>1. PICK t \in ShortTag : d.tags = <<t>>
    BY <1>3 DEF OwnTag
  <2>2. Tagged(d, zero)
    BY <1>1, <2>1 DEF Tagged
  <2>3. SentTag(d, zero, zero) = t
    BY <2>1 DEF SentTag
  <2> DEFINE enc == der_encoder(d, v, zero, zero)
  <2> HIDE DEF zero
  <2>4. FaithfulUnder(d, v, zero, zero)
    BY <1>1, <2>2, Zenon DEF Faithful
  <2>5. CASE Chosen(d, v)
    <3>1. enc = Ber(d, v, d.tags, "der") /\ Part(enc, d, zero, t, Meaning(d, v))
      BY <2>1, <2>3, <2>4, <2>5 DEF FaithfulUnder
    <3> HIDE DEF enc
    <3>2. enc \in Seq(Octet)
      BY <3>1, PartIs
    <3>3. \A buf \in Seq(Octet) : Begins(buf, enc) =>
               Takes(ber_decoder(d, buf, zero), buf, enc, Meaning(d, v))
      BY <3>1, Zenon DEF Part
    <3>4. enc = der_encode(d, v) /\ \A buf : ber_decode(d, buf) = ber_decoder(d, buf, zero)
      BY DEF enc, zero, der_encode, ber_decode
    <3>5. enc # FAILED
      BY <3>2, OctetsNotFailed
    <3> QED BY <2>5, <3>1, <3>2, <3>3, <3>4, <3>5 DEF Sent
  <2>6. CASE ~Chosen(d, v)
    <3>1. enc = FAILED
      BY <2>4, <2>6 DEF FaithfulUnder
    <3>2. enc = der_encode(d, v)
      BY DEF enc, zero, der_encode
    <3> QED BY <2>6, <3>1, <3>2 DEF Sent
  <2> QED BY <2>5, <2>6
<1> QED BY <1>2, <1>3

(* DEREncoder sends every value as X.690 demands and reads it back.         *)
LEMMA ValuesSent ==
  ASSUME IsDecoder, IsEncoder, IsMeaning, NEW d, NEW v, <<d, v>> \in Values
  PROVE  Sent(d, v)
<1>1. Faithful(d, v)
  BY ValuesFaithful
<1>2. ValueOf(d, v)
  BY ValuesAreNested
<1> QED BY <1>1, <1>2, ValueTagged, FaithfulSent
-----------------------------------------------------------------------------
(* What was made of a value *)

\* What a receiver makes of a value it can send itself, in the same octets,
\* and make the same of it again.
Settled(d, v) ==
  LET w == Meaning(d, v)
  IN  /\ Faithful(d, w) /\ Meaning(d, w) = w
      /\ Chosen(d, w) <=> Chosen(d, v)
      /\ Chosen(d, v) => \A tags : Ber(d, w, tags, "der") = Ber(d, v, tags, "der")

(* That what was made of it is a value is enough for the first.             *)
LEMMA SettledIf ==
  ASSUME IsDecoder, IsEncoder, IsMeaning, NEW d, NEW v, Fits(d, v),
         NEW w, w = Meaning(d, v), ValueOf(d, w), Meaning(d, w) = w,
         Chosen(d, w) <=> Chosen(d, v),
         Chosen(d, v) => \A tags : Ber(d, w, tags, "der") = Ber(d, v, tags, "der"),
         \A p \in PartsOf(d, w) : Faithful(p[1], p[2])
  PROVE  Settled(d, v)
<1>1. Fits(d, w)
  BY DEF Fits
<1>2. Faithful(d, w)
  BY <1>1, FaithfulFromParts
<1> QED BY <1>2, Zenon DEF Settled

\* The kinds without parts.
Simple == {"NativeInteger", "INTEGER", "BOOLEAN", "OCTET_STRING"}

(* The types without parts.                                                 *)
LEMMA SimpleSettled ==
  ASSUME IsDecoder, IsEncoder, IsMeaning, NEW d, NEW v, Fits(d, v), d.kind \in Simple,
         NEW w, w = MeaningOf(d, v), ValueOf(d, w), MeaningOf(d, w) = w,
         \A tags : BerOf(d, w, tags, "der") = BerOf(d, v, tags, "der")
  PROVE  Settled(d, v)
<1>1. ChosenIn(d, w) /\ ChosenIn(d, v)
  BY DEF ChosenIn, Simple
<1>2. /\ Chosen(d, w) = ChosenIn(d, w) /\ Chosen(d, v) = ChosenIn(d, v)
      /\ Meaning(d, w) = MeaningOf(d, w) /\ Meaning(d, v) = MeaningOf(d, v)
  BY Zenon DEF IsMeaning
<1>3. \A tags : Ber(d, w, tags, "der") = Ber(d, v, tags, "der")
  <2>1. SUFFICES ASSUME NEW tags PROVE Ber(d, w, tags, "der") = Ber(d, v, tags, "der")
    OBVIOUS
  <2>2. /\ Ber(d, w, tags, "der") = BerOf(d, w, tags, "der")
        /\ Ber(d, v, tags, "der") = BerOf(d, v, tags, "der")
    BY Zenon DEF IsMeaning
  <2> QED BY <2>2
<1>4. PartsOf(d, w) = {}
  BY DEF PartsOf, Simple
<1> QED BY <1>1, <1>2, <1>3, <1>4, SettledIf

(* The canonical octets of a number are canonical.                          *)
LEMMA CanonicalKept ==
  ASSUME NEW o \in Seq(Octet), o # <<>>
  PROVE  Canonical(o) # <<>> /\ Canonical(Canonical(o)) = Canonical(o)
<1>1. PICK n \in Nat \ {0} : Len(o) = n
  OBVIOUS
<1>2. PICK k \in 1 .. n :
        /\ FirstKept(o, n, k) /\ Canonical(o) \in Seq(Octet)
        /\ Len(Canonical(o)) = n - k + 1
        /\ \A i \in 1 .. n - k + 1 : Canonical(o)[i] = o[i + k - 1]
  BY <1>1, CanonicalLength
<1> DEFINE c == Canonical(o)
           m == n - k + 1
<1>3. m \in Nat \ {0} /\ Len(c) = m
  BY <1>2
<1>4. ~Superfluous(c, 1)
  <2>1. c[1] = o[k]
    BY <1>2, <1>3
  <2>2. CASE m = 1
    BY <1>3, <2>2 DEF Superfluous
  <2>3. CASE m # 1
    <3>1. c[2] = o[k + 1] /\ k < n
      BY <1>2, <1>3, <2>3
    <3> HIDE DEF c
    <3> QED BY <1>1, <1>2, <1>3, <2>1, <2>3, <3>1 DEF Superfluous, FirstKept
  <2> QED BY <2>2, <2>3
<1> DEFINE one == 1
<1>5. one = 1 /\ one \in 1 .. m /\ FirstKept(c, m, one)
  BY <1>3, <1>4 DEF FirstKept
<1> HIDE DEF c, m, one
<1>6. Canonical(c) = SubSeq(c, one, m)
  BY <1>2, <1>3, <1>5, CanonicalFirst DEF c
<1>7. SubSeq(c, 1, m) = c
  BY <1>2, <1>3 DEF c
<1>8. c # <<>>
  BY <1>3
<1> QED BY <1>5, <1>6, <1>7, <1>8 DEF c

(* A native integer is what was made of it.                                 *)
LEMMA LongsSettled ==
  ASSUME IsDecoder, IsEncoder, IsMeaning, NEW d, NEW v, Fits(d, v),
         d.kind = "NativeInteger", ValueOf(d, v)
  PROVE  Settled(d, v)
<1>1. MeaningOf(d, v) = v
  BY DEF MeaningOf
<1>2. d.kind \in Simple
  BY DEF Simple
<1>3. \A tags : BerOf(d, v, tags, "der") = BerOf(d, v, tags, "der")
  OBVIOUS
<1> QED BY <1>1, <1>2, <1>3, SimpleSettled, Zenon

(* The fewest octets of a number are the fewest of themselves.              *)
LEMMA IntegersSettled ==
  ASSUME IsDecoder, IsEncoder, IsMeaning, NEW d, NEW v, Fits(d, v),
         d.kind = "INTEGER", ValueOf(d, v)
  PROVE  Settled(d, v)
<1>1. OwnTag(d) /\ v \in Contents /\ v # <<>> /\ v \in Seq(Octet)
  BY DEF ValueOf, IntegerValue, Contents
<1> DEFINE w == Shortest(v)
<1>2. w = Canonical(v)
  BY <1>1, CanonicalIsShortest
<1>3. w \in Contents /\ w # <<>> /\ w \in Seq(Octet) /\ Canonical(w) = w
  BY <1>1, <1>2, CanonicalContents, CanonicalKept DEF Contents
<1> HIDE DEF w
<1>4. Shortest(w) = w
  BY <1>3, CanonicalIsShortest
<1>5. MeaningOf(d, v) = w /\ MeaningOf(d, w) = w
  BY <1>4 DEF MeaningOf, w
<1>6. ValueOf(d, w)
  BY <1>1, <1>3 DEF ValueOf, IntegerValue
<1>7. \A tags : BerOf(d, w, tags, "der") = BerOf(d, v, tags, "der")
  BY <1>4 DEF BerOf, w
<1>8. d.kind \in Simple
  BY DEF Simple
<1> QED BY <1>5, <1>6, <1>7, <1>8, SimpleSettled

(* TRUE is 255 the second time, too.                                        *)
LEMMA BooleansSettled ==
  ASSUME IsDecoder, IsEncoder, IsMeaning, NEW d, NEW v, Fits(d, v),
         d.kind = "BOOLEAN", ValueOf(d, v)
  PROVE  Settled(d, v)
<1> DEFINE w == IF v = 0 THEN 0 ELSE 255
<1>1. OwnTag(d)
  BY DEF ValueOf, BooleanValue
<1>2. (IF w = 0 THEN 0 ELSE 255) = w /\ w \in Octet
  BY DEF Octet
<1> HIDE DEF w
<1>3. MeaningOf(d, v) = w /\ MeaningOf(d, w) = w
  BY <1>2 DEF MeaningOf, w
<1>4. ValueOf(d, w)
  BY <1>1, <1>2 DEF ValueOf, BooleanValue
<1> DEFINE body(x) == <<IF x = 0 THEN 0 ELSE 255>>
<1>5. ASSUME NEW x, NEW tags
      PROVE  BerOf(d, x, tags, "der")
               = IF tags = <<>> THEN body(x) ELSE TLV(tags[1], FALSE, body(x), "der")
  BY DEF BerOf
<1>6. body(w) = body(v)
  BY <1>2 DEF w
<1> HIDE DEF body
<1>7. \A tags : BerOf(d, w, tags, "der") = BerOf(d, v, tags, "der")
  BY <1>5, <1>6
<1>8. d.kind \in Simple
  BY DEF Simple
<1> QED BY <1>3, <1>4, <1>7, <1>8, SimpleSettled

(* Bits that were cleared are not cleared again.                            *)
LEMMA StringsSettled ==
  ASSUME IsDecoder, IsEncoder, IsMeaning, NEW d, NEW v, Fits(d, v),
         d.kind = "OCTET_STRING", ValueOf(d, v)
  PROVE  Settled(d, v)
<1>1. StringValue(d, v)
  BY DEF ValueOf
<1> DEFINE w == StringCleared(v)
           u == v.bits_unused
           o == v.octets
           c == Cleared(o, u)
<1>2. u \in 0 .. 7 /\ o \in Seq(Octet) /\ (d.variant # "BIT" => u = 0) /\ OwnTag(d)
  BY <1>1 DEF StringValue
<1>3. w = [bits_unused |-> u, octets |-> c]
  BY DEF StringCleared
<1> HIDE DEF u, o, c, w
<1>4. c \in Seq(Octet) /\ Cleared(c, u) = c /\ (u = 0 => c = o)
  BY <1>2, OctetsCleared DEF c
<1>5. w.bits_unused = u /\ w.octets = c /\ w \in [bits_unused : 0 .. 7, octets : Seq(Octet)]
  BY <1>2, <1>3, <1>4
<1>6. StringValue(d, w)
  BY <1>2, <1>5 DEF StringValue
<1>7. ClearUnused(v) = w /\ ClearUnused(w) = StringCleared(w)
  BY <1>1, <1>6, ClearedAlike DEF w
<1>8. ClearUnused(w) = w
  BY <1>3, <1>4, <1>5, <1>7 DEF StringCleared
<1>9. MeaningOf(d, v) = w /\ MeaningOf(d, w) = w
  BY <1>7, <1>8 DEF MeaningOf
<1>10. ValueOf(d, w)
  BY <1>6 DEF ValueOf
<1>11. v.octets = o /\ v.bits_unused = u /\ (d.variant # "BIT" => c = o)
  BY <1>2, <1>4 DEF o, u
<1> DEFINE string(x) == IF d.variant = "BIT" THEN <<x.bits_unused>> \o ClearUnused(x).octets
                                             ELSE x.octets
<1>12. string(w) = string(v)
  BY <1>5, <1>7, <1>8, <1>11
<1>13. ASSUME NEW x, NEW tags
       PROVE  BerOf(d, x, tags, "der")
                = IF tags = <<>> THEN string(x) ELSE TLV(tags[1], FALSE, string(x), "der")
  BY DEF BerOf
<1> HIDE DEF string
<1>14. \A tags : BerOf(d, w, tags, "der") = BerOf(d, v, tags, "der")
  BY <1>12, <1>13
<1>15. d.kind \in Simple
  BY DEF Simple
<1> QED BY <1>9, <1>10, <1>14, <1>15, SimpleSettled

(* A SEQUENCE is settled member by member.                                  *)
LEMMA SequencesSettled ==
  ASSUME IsDecoder, IsEncoder, IsMeaning, NEW d, NEW v, Fits(d, v),
         d.kind = "SEQUENCE", ValueOf(d, v),
         \A p \in PartsOf(d, v) : Settled(p[1], p[2])
  PROVE  Settled(d, v)
<1>1. OwnTag(d) /\ \E n \in Nat : SequenceValue(d, v, n) /\ n = Len(d.elements)
  BY DEF ValueOf, SequenceValue, HasMembers
<1>2. PICK n \in Nat : SequenceValue(d, v, n) /\ n = Len(d.elements)
  BY <1>1
<1>3. DOMAIN v = 1 .. n
  BY <1>2 DEF SequenceValue
<1> DEFINE typ(k) == d.elements[k].type
           mean(x) == [k \in 1 .. n |-> IF x[k] = <<>> THEN <<>>
                                        ELSE <<Meaning(typ(k), x[k][1])>>]
           w == mean(v)
<1>4. ASSUME NEW x, DOMAIN x = 1 .. n
      PROVE  /\ Meaning(d, x) = mean(x)
             /\ Chosen(d, x) <=> \A k \in 1 .. n : x[k] # <<>> => Chosen(typ(k), x[k][1])
  <2>1. MeaningOf(d, x) = mean(x)
    BY <1>4 DEF MeaningOf
  <2>2. ChosenIn(d, x) <=> \A k \in 1 .. n : x[k] # <<>> => Chosen(typ(k), x[k][1])
    BY <1>4 DEF ChosenIn
  <2>3. Meaning(d, x) = MeaningOf(d, x) /\ Chosen(d, x) = ChosenIn(d, x)
    BY Zenon DEF IsMeaning
  <2> HIDE DEF mean
  <2> QED BY <2>1, <2>2, <2>3
<1>5. DOMAIN w = 1 .. n
  OBVIOUS
<1>6. ASSUME NEW k \in 1 .. n
      PROVE  (w[k] = <<>> <=> v[k] = <<>>)
             /\ (v[k] # <<>> => w[k] = <<Meaning(typ(k), v[k][1])>>
                                /\ w[k][1] = Meaning(typ(k), v[k][1]))
  <2>1. \A y : <<y>> # <<>> /\ <<y>>[1] = y
    OBVIOUS
  <2> HIDE DEF typ
  <2> QED BY <2>1
<1>7. ASSUME NEW k \in 1 .. n, v[k] # <<>> PROVE Settled(typ(k), v[k][1])
  <2>1. <<typ(k), v[k][1]>> \in PartsOf(d, v)
    BY <1>3, <1>7 DEF PartsOf
  <2> QED BY <2>1
<1> HIDE DEF w
<1>8. Meaning(d, v) = w
  BY <1>3, <1>4 DEF w
<1>9. Meaning(d, w) = w
  <2>1. ASSUME NEW k \in 1 .. n
        PROVE  (IF w[k] = <<>> THEN <<>> ELSE <<Meaning(typ(k), w[k][1])>>) = w[k]
    <3> HIDE DEF typ
    <3> QED BY <1>6, <1>7 DEF Settled
  <2>2. w = [k \in 1 .. n |-> w[k]]
    BY DEF w
  <2>3. mean(w) = [k \in 1 .. n |-> w[k]]
    <3> HIDE DEF typ
    <3> QED BY <2>1
  <2> HIDE DEF mean
  <2> QED BY <1>4, <1>5, <2>2, <2>3
<1>10. ASSUME NEW k \in 1 .. n, v[k] # <<>>
       PROVE  Chosen(typ(k), w[k][1]) <=> Chosen(typ(k), v[k][1])
  <2> HIDE DEF typ
  <2> QED BY <1>6, <1>7, <1>10 DEF Settled
<1>11. Chosen(d, w) <=> Chosen(d, v)
  <2> HIDE DEF typ, mean
  <2> QED BY <1>3, <1>4, <1>5, <1>6, <1>10
<1> DEFINE member(x, k) == IF x[k] = <<>> THEN <<>>
                   ELSE LET e == d.elements[k]
                        IN  Ber(e.type, x[k][1],
                                <<e.tag>> \o IF e.type.tags = <<>> THEN <<>>
                                             ELSE Tail(e.type.tags), "der")
           body(x) == FlattenSeq([k \in 1 .. n |-> member(x, k)]) \o <<>>
<1>12. ASSUME NEW x, DOMAIN x = 1 .. n, NEW tags
       PROVE  Ber(d, x, tags, "der")
                = IF tags = <<>> THEN body(x) ELSE TLV(tags[1], TRUE, body(x), "der")
  <2>1. Ber(d, x, tags, "der") = BerOf(d, x, tags, "der")
    BY Zenon DEF IsMeaning
  <2>2. BerOf(d, x, tags, "der")
          = IF tags = <<>> THEN body(x) ELSE TLV(tags[1], TRUE, body(x), "der")
    BY <1>12 DEF BerOf
  <2> HIDE DEF body
  <2> QED BY <2>1, <2>2
<1>13. ASSUME Chosen(d, v) PROVE \A tags : Ber(d, w, tags, "der") = Ber(d, v, tags, "der")
  <2>1. ASSUME NEW k \in 1 .. n PROVE member(w, k) = member(v, k)
    <3>1. CASE v[k] = <<>>
      BY <1>6, <3>1
    <3>2. CASE v[k] # <<>>
      <4>1. Chosen(typ(k), v[k][1])
        BY <1>3, <1>4, <1>13, <3>2
      <4>2. \A tags : Ber(typ(k), w[k][1], tags, "der") = Ber(typ(k), v[k][1], tags, "der")
        <5> HIDE DEF typ
        <5> QED BY <1>6, <1>7, <3>2, <4>1 DEF Settled
      <4> QED BY <1>6, <3>2, <4>2
    <3> QED BY <3>1, <3>2
  <2>2. body(w) = body(v)
    <3> HIDE DEF member
    <3>1. [k \in 1 .. n |-> member(w, k)] = [k \in 1 .. n |-> member(v, k)]
      BY <2>1
    <3> QED BY <3>1
  <2> HIDE DEF body
  <2> QED BY <1>3, <1>5, <1>12, <2>2
<1>14. ValueOf(d, w)
  <2>1. SequenceValue(d, w, n)
    BY <1>2, <1>5, <1>6 DEF SequenceValue
  <2> QED BY <1>1, <1>2, <2>1 DEF ValueOf
<1>15. \A p \in PartsOf(d, w) : Faithful(p[1], p[2])
  <2>1. SUFFICES ASSUME NEW k \in 1 .. n, w[k] # <<>> PROVE Faithful(typ(k), w[k][1])
    BY <1>5 DEF PartsOf
  <2> HIDE DEF typ
  <2> QED BY <1>6, <1>7, <2>1 DEF Settled
<1> QED BY <1>8, <1>9, <1>11, <1>13, <1>14, <1>15, SettledIf

(* A list is settled item by item.                                          *)
LEMMA ListsSettled ==
  ASSUME IsDecoder, IsEncoder, IsMeaning, NEW d, NEW v, Fits(d, v),
         d.kind = "SEQUENCE_OF", ValueOf(d, v),
         \A p \in PartsOf(d, v) : Settled(p[1], p[2])
  PROVE  Settled(d, v)
<1>1. OwnTag(d) /\ \E n \in Nat : ListValue(d, v, n)
  BY DEF ValueOf, ListValue
<1>2. PICK n \in Nat : ListValue(d, v, n)
  BY <1>1
<1>3. DOMAIN v = 1 .. n /\ OwnTag(d.element)
  BY <1>2 DEF ListValue
<1> DEFINE mean(x) == [k \in 1 .. n |-> Meaning(d.element, x[k])]
           w == mean(v)
<1>4. ASSUME NEW x, DOMAIN x = 1 .. n
      PROVE  /\ Meaning(d, x) = mean(x)
             /\ Chosen(d, x) <=> \A k \in 1 .. n : Chosen(d.element, x[k])
  <2>1. MeaningOf(d, x) = mean(x)
    BY <1>4 DEF MeaningOf
  <2>2. ChosenIn(d, x) <=> \A k \in 1 .. n : Chosen(d.element, x[k])
    BY <1>4 DEF ChosenIn
  <2>3. Meaning(d, x) = MeaningOf(d, x) /\ Chosen(d, x) = ChosenIn(d, x)
    BY Zenon DEF IsMeaning
  <2> HIDE DEF mean
  <2> QED BY <2>1, <2>2, <2>3
<1>5. /\ DOMAIN w = 1 .. n /\ w = [k \in 1 .. n |-> w[k]] /\ Len(w) = n
      /\ \A k \in 1 .. n : w[k] = Meaning(d.element, v[k])
  OBVIOUS
<1>6. ASSUME NEW k \in 1 .. n PROVE Settled(d.element, v[k])
  <2>1. <<d.element, v[k]>> \in PartsOf(d, v)
    BY <1>3 DEF PartsOf
  <2> QED BY <2>1
<1> HIDE DEF w
<1>7. Meaning(d, v) = w
  BY <1>3, <1>4 DEF w
<1>8. Meaning(d, w) = w
  <2>1. mean(w) = [k \in 1 .. n |-> w[k]]
    BY <1>5, <1>6 DEF Settled
  <2> HIDE DEF mean
  <2> QED BY <1>4, <1>5, <2>1
<1>9. Chosen(d, w) <=> Chosen(d, v)
  <2>1. \A k \in 1 .. n : Chosen(d.element, w[k]) <=> Chosen(d.element, v[k])
    BY <1>5, <1>6 DEF Settled
  <2> HIDE DEF mean
  <2> QED BY <1>3, <1>4, <1>5, <2>1
<1> DEFINE body(x) == FlattenSeq([k \in 1 .. n |-> Ber(d.element, x[k], d.element.tags, "der")])
<1>10. ASSUME NEW x, DOMAIN x = 1 .. n, NEW tags
       PROVE  Ber(d, x, tags, "der")
                = IF tags = <<>> THEN body(x) ELSE TLV(tags[1], TRUE, body(x), "der")
  <2>1. Ber(d, x, tags, "der") = BerOf(d, x, tags, "der")
    BY Zenon DEF IsMeaning
  <2>2. BerOf(d, x, tags, "der")
          = IF tags = <<>> THEN body(x) ELSE TLV(tags[1], TRUE, body(x), "der")
    BY <1>10 DEF BerOf
  <2> HIDE DEF body
  <2> QED BY <2>1, <2>2
<1>11. ASSUME Chosen(d, v) PROVE \A tags : Ber(d, w, tags, "der") = Ber(d, v, tags, "der")
  <2>1. \A k \in 1 .. n : Chosen(d.element, v[k])
    BY <1>3, <1>4, <1>11
  <2>2. ASSUME NEW k \in 1 .. n
        PROVE  Ber(d.element, w[k], d.element.tags, "der") = Ber(d.element, v[k], d.element.tags, "der")
    BY <1>5, <1>6, <2>1 DEF Settled
  <2>3. body(w) = body(v)
    BY <2>2
  <2> HIDE DEF body
  <2> QED BY <1>3, <1>5, <1>10, <2>3
<1>12. ValueOf(d, w)
  BY <1>1, <1>3, <1>5 DEF ValueOf, ListValue
<1>13. \A p \in PartsOf(d, w) : Faithful(p[1], p[2])
  <2>1. SUFFICES ASSUME NEW k \in 1 .. n PROVE Faithful(d.element, w[k])
    BY <1>5 DEF PartsOf
  <2> QED BY <1>5, <1>6 DEF Settled
<1> QED BY <1>7, <1>8, <1>9, <1>11, <1>12, <1>13, SettledIf

(* A CHOICE is settled with its alternative.                                *)
LEMMA ChoicesSettled ==
  ASSUME IsDecoder, IsEncoder, IsMeaning, NEW d, NEW v, Fits(d, v),
         d.kind = "CHOICE", ValueOf(d, v),
         \A p \in PartsOf(d, v) : Settled(p[1], p[2])
  PROVE  Settled(d, v)
<1>1. \E n \in Nat : ChoiceValue(d, v, n) /\ n = Len(d.elements)
  BY DEF ValueOf, ChoiceValue, HasMembers
<1>2. PICK n \in Nat : ChoiceValue(d, v, n) /\ n = Len(d.elements)
  BY <1>1
<1>3. /\ HasMembers(d, n) /\ d.tags = <<>> /\ \A k \in 1 .. n : MemberTagged(d.elements[k])
      /\ v = [present |-> v.present, choice |-> v.choice] /\ v.present \in 0 .. n
  BY <1>2 DEF ChoiceValue
<1>4. CASE v.present = 0
  <2>1. MeaningOf(d, v) = v
    BY <1>4 DEF MeaningOf
  <2>2. Meaning(d, v) = MeaningOf(d, v)
    BY Zenon DEF IsMeaning
  <2>3. PartsOf(d, v) = {}
    BY <1>4 DEF PartsOf
  <2> QED BY <2>1, <2>2, <2>3, SettledIf
<1>5. CASE v.present # 0
  <2> DEFINE p == v.present
             typ == d.elements[p].type
             w == [present |-> p, choice |-> Meaning(typ, v.choice)]
  <2>1. w.present = p /\ w.choice = Meaning(typ, v.choice)
        /\ w = [present |-> w.present, choice |-> w.choice]
    OBVIOUS
  <2>2. Settled(typ, v.choice)
    <3>1. <<typ, v.choice>> \in PartsOf(d, v)
      BY <1>5 DEF PartsOf
    <3> QED BY <3>1
  <2>3. ChoiceValue(d, w, n)
    BY <1>3, <2>1 DEF ChoiceValue
  <2>4. ASSUME NEW x, x = [present |-> p, choice |-> x.choice], x.present = p
        PROVE  /\ Meaning(d, x) = [present |-> p, choice |-> Meaning(typ, x.choice)]
               /\ Chosen(d, x) <=> Chosen(typ, x.choice)
               /\ \A tags : Ber(d, x, tags, "der")
                    = LET body == Ber(typ, x.choice, <<d.elements[p].tag>>, "der")
                      IN  IF tags = <<>> THEN body ELSE TLV(tags[1], TRUE, body, "der")
    <3>1. MeaningOf(d, x) = [present |-> p, choice |-> Meaning(typ, x.choice)]
      <4>1. MeaningOf(d, x) = [x EXCEPT !.choice = Meaning(typ, @)]
        BY <1>5, <2>4 DEF MeaningOf
      <4> QED BY <2>4, <4>1
    <3>2. ChosenIn(d, x) <=> Chosen(typ, x.choice)
      BY <1>5, <2>4 DEF ChosenIn
    <3>3. ASSUME NEW tags
          PROVE  BerOf(d, x, tags, "der")
                    = LET body == Ber(typ, x.choice, <<d.elements[p].tag>>, "der")
                      IN  IF tags = <<>> THEN body ELSE TLV(tags[1], TRUE, body, "der")
      BY <1>5, <2>4 DEF BerOf
    <3>4. /\ Meaning(d, x) = MeaningOf(d, x) /\ Chosen(d, x) = ChosenIn(d, x)
          /\ \A tags : Ber(d, x, tags, "der") = BerOf(d, x, tags, "der")
      BY Zenon DEF IsMeaning
    <3> HIDE DEF p, typ
    <3>5. Meaning(d, x) = [present |-> p, choice |-> Meaning(typ, x.choice)]
      BY <3>1, <3>4
    <3>6. Chosen(d, x) <=> Chosen(typ, x.choice)
      BY <3>2, <3>4
    <3>7. \A tags : Ber(d, x, tags, "der")
                    = LET body == Ber(typ, x.choice, <<d.elements[p].tag>>, "der")
                      IN  IF tags = <<>> THEN body ELSE TLV(tags[1], TRUE, body, "der")
      BY <3>3, <3>4
    <3> QED BY <3>5, <3>6, <3>7
  <2> HIDE DEF typ, w
  <2>5. Meaning(d, v) = w
    BY <1>3, <2>4 DEF w
  <2>6. w = [present |-> p, choice |-> w.choice]
    BY <2>1
  <2>7. Meaning(d, w) = w
    <3>1. Meaning(typ, w.choice) = w.choice
      BY <2>1, <2>2 DEF Settled
    <3> QED BY <2>1, <2>4, <2>6, <3>1
  <2>8. Chosen(d, w) <=> Chosen(d, v)
    <3>1. Chosen(typ, w.choice) <=> Chosen(typ, v.choice)
      BY <2>1, <2>2 DEF Settled
    <3> QED BY <1>3, <2>1, <2>4, <2>6, <3>1
  <2>9. ASSUME Chosen(d, v) PROVE \A tags : Ber(d, w, tags, "der") = Ber(d, v, tags, "der")
    <3>1. Chosen(typ, v.choice)
      BY <1>3, <2>4, <2>9
    <3>2. Ber(typ, w.choice, <<d.elements[p].tag>>, "der")
            = Ber(typ, v.choice, <<d.elements[p].tag>>, "der")
      BY <2>1, <2>2, <3>1 DEF Settled
    <3>3. SUFFICES ASSUME NEW tags PROVE Ber(d, w, tags, "der") = Ber(d, v, tags, "der")
      OBVIOUS
    <3> DEFINE sent(body) == IF tags = <<>> THEN body ELSE TLV(tags[1], TRUE, body, "der")
    <3>4. /\ Ber(d, w, tags, "der") = sent(Ber(typ, w.choice, <<d.elements[p].tag>>, "der"))
          /\ Ber(d, v, tags, "der") = sent(Ber(typ, v.choice, <<d.elements[p].tag>>, "der"))
      BY <1>3, <2>1, <2>4, <2>6
    <3> HIDE DEF sent
    <3> QED BY <3>2, <3>4
  <2>10. ValueOf(d, w)
    BY <1>2, <2>3 DEF ValueOf
  <2>11. \A q \in PartsOf(d, w) : Faithful(q[1], q[2])
    <3>1. PartsOf(d, w) = {<<typ, w.choice>>}
      BY <1>5, <2>1 DEF PartsOf, typ
    <3>2. Faithful(typ, w.choice)
      BY <2>1, <2>2 DEF Settled
    <3> QED BY <3>1, <3>2
  <2> QED BY <2>5, <2>7, <2>8, <2>9, <2>10, <2>11, SettledIf
<1> QED BY <1>4, <1>5

(* So is every type if its parts are.                                       *)
LEMMA SettledFromParts ==
  ASSUME IsDecoder, IsEncoder, IsMeaning, NEW d, NEW v, ValueOf(d, v), Fits(d, v),
         \A p \in PartsOf(d, v) : Settled(p[1], p[2])
  PROVE  Settled(d, v)
<1>1. d.kind \in Simple \cup {"SEQUENCE", "SEQUENCE_OF", "CHOICE"}
  BY DEF ValueOf, Simple
<1> QED BY <1>1, LongsSettled, IntegersSettled, BooleansSettled, StringsSettled,
           SequencesSettled, ListsSettled, ChoicesSettled DEF Simple

\* What is left of a value whose alternatives the receiver does not know is
\* a value like that, and the same one if there were none.
Spent(d, v) ==
  LET u == Unchosen(d, v)
  IN  /\ Settled(d, u)
      /\ Chosen(d, u) => /\ Chosen(d, v)
                         /\ \A tags : Ber(d, u, tags, "der") = Ber(d, v, tags, "der")

(* What is left is settled like any value.                                  *)
LEMMA SpentIf ==
  ASSUME IsDecoder, IsEncoder, IsMeaning, NEW d, NEW v, Fits(d, v),
         NEW u, u = Unchosen(d, v), ValueOf(d, u),
         Chosen(d, u) => /\ Chosen(d, v)
                         /\ \A tags : Ber(d, u, tags, "der") = Ber(d, v, tags, "der"),
         \A p \in PartsOf(d, u) : Settled(p[1], p[2])
  PROVE  Spent(d, v)
<1>1. Fits(d, u)
  BY DEF Fits
<1>2. Settled(d, u)
  BY <1>1, SettledFromParts
<1> QED BY <1>2, Zenon DEF Spent

(* A SEQUENCE is spent member by member.                                    *)
LEMMA SequencesSpent ==
  ASSUME IsDecoder, IsEncoder, IsMeaning, NEW d, NEW v, Fits(d, v),
         d.kind = "SEQUENCE", ValueOf(d, v),
         \A p \in PartsOf(d, v) : Spent(p[1], p[2])
  PROVE  Spent(d, v)
<1>1. OwnTag(d) /\ \E n \in Nat : SequenceValue(d, v, n) /\ n = Len(d.elements)
  BY DEF ValueOf, SequenceValue, HasMembers
<1>2. PICK n \in Nat : SequenceValue(d, v, n) /\ n = Len(d.elements)
  BY <1>1
<1>3. DOMAIN v = 1 .. n
  BY <1>2 DEF SequenceValue
<1> DEFINE typ(k) == d.elements[k].type
           u == [k \in 1 .. n |-> IF v[k] = <<>> THEN <<>>
                                  ELSE <<Unchosen(typ(k), v[k][1])>>]
<1>4. Unchosen(d, v) = u
  <2>1. UnchosenIn(d, v) = u
    BY <1>3 DEF UnchosenIn
  <2>2. Unchosen(d, v) = UnchosenIn(d, v)
    BY Zenon DEF IsMeaning
  <2> HIDE DEF u
  <2> QED BY <2>1, <2>2
<1>5. DOMAIN u = 1 .. n
  OBVIOUS
<1>6. ASSUME NEW k \in 1 .. n
      PROVE  (u[k] = <<>> <=> v[k] = <<>>)
             /\ (v[k] # <<>> => u[k][1] = Unchosen(typ(k), v[k][1]))
  <2>1. \A y : <<y>> # <<>> /\ <<y>>[1] = y
    OBVIOUS
  <2> HIDE DEF typ
  <2> QED BY <2>1
<1>7. ASSUME NEW k \in 1 .. n, v[k] # <<>> PROVE Spent(typ(k), v[k][1])
  <2>1. <<typ(k), v[k][1]>> \in PartsOf(d, v)
    BY <1>3, <1>7 DEF PartsOf
  <2> QED BY <2>1
<1> HIDE DEF u
<1>8. ASSUME NEW x, DOMAIN x = 1 .. n
      PROVE  Chosen(d, x) <=> \A k \in 1 .. n : x[k] # <<>> => Chosen(typ(k), x[k][1])
  <2>1. ChosenIn(d, x) <=> \A k \in 1 .. n : x[k] # <<>> => Chosen(typ(k), x[k][1])
    BY <1>8 DEF ChosenIn
  <2>2. Chosen(d, x) = ChosenIn(d, x)
    BY Zenon DEF IsMeaning
  <2> QED BY <2>1, <2>2
<1> DEFINE member(x, k) == IF x[k] = <<>> THEN <<>>
                   ELSE LET e == d.elements[k]
                        IN  Ber(e.type, x[k][1],
                                <<e.tag>> \o IF e.type.tags = <<>> THEN <<>>
                                             ELSE Tail(e.type.tags), "der")
           body(x) == FlattenSeq([k \in 1 .. n |-> member(x, k)]) \o <<>>
<1>9. ASSUME NEW x, DOMAIN x = 1 .. n, NEW tags
      PROVE  Ber(d, x, tags, "der")
                = IF tags = <<>> THEN body(x) ELSE TLV(tags[1], TRUE, body(x), "der")
  <2>1. Ber(d, x, tags, "der") = BerOf(d, x, tags, "der")
    BY Zenon DEF IsMeaning
  <2>2. BerOf(d, x, tags, "der")
          = IF tags = <<>> THEN body(x) ELSE TLV(tags[1], TRUE, body(x), "der")
    BY <1>9 DEF BerOf
  <2> HIDE DEF body
  <2> QED BY <2>1, <2>2
<1>10. ASSUME Chosen(d, u)
       PROVE  Chosen(d, v) /\ \A tags : Ber(d, u, tags, "der") = Ber(d, v, tags, "der")
  <2>1. ASSUME NEW k \in 1 .. n, v[k] # <<>>
        PROVE  /\ Chosen(typ(k), v[k][1])
               /\ \A tags : Ber(typ(k), u[k][1], tags, "der") = Ber(typ(k), v[k][1], tags, "der")
    <3>1. Chosen(typ(k), u[k][1])
      BY <1>5, <1>6, <1>8, <1>10, <2>1
    <3> HIDE DEF typ
    <3> QED BY <1>6, <1>7, <2>1, <3>1 DEF Spent
  <2>2. Chosen(d, v)
    <3> HIDE DEF typ
    <3> QED BY <1>3, <1>8, <2>1
  <2>3. ASSUME NEW k \in 1 .. n PROVE member(u, k) = member(v, k)
    <3>1. CASE v[k] = <<>>
      BY <1>6, <3>1
    <3>2. CASE v[k] # <<>>
      BY <1>6, <2>1, <3>2
    <3> QED BY <3>1, <3>2
  <2>4. body(u) = body(v)
    <3> HIDE DEF member
    <3>1. [k \in 1 .. n |-> member(u, k)] = [k \in 1 .. n |-> member(v, k)]
      BY <2>3
    <3> QED BY <3>1
  <2> HIDE DEF body
  <2> QED BY <1>3, <1>5, <1>9, <2>2, <2>4
<1>11. ValueOf(d, u)
  <2>1. SequenceValue(d, u, n)
    BY <1>2, <1>5, <1>6 DEF SequenceValue
  <2> QED BY <1>1, <1>2, <2>1 DEF ValueOf
<1>12. \A p \in PartsOf(d, u) : Settled(p[1], p[2])
  <2>1. SUFFICES ASSUME NEW k \in 1 .. n, u[k] # <<>> PROVE Settled(typ(k), u[k][1])
    BY <1>5 DEF PartsOf
  <2> HIDE DEF typ
  <2> QED BY <1>6, <1>7, <2>1 DEF Spent
<1> QED BY <1>4, <1>10, <1>11, <1>12, SpentIf

(* A list is spent item by item.                                            *)
LEMMA ListsSpent ==
  ASSUME IsDecoder, IsEncoder, IsMeaning, NEW d, NEW v, Fits(d, v),
         d.kind = "SEQUENCE_OF", ValueOf(d, v),
         \A p \in PartsOf(d, v) : Spent(p[1], p[2])
  PROVE  Spent(d, v)
<1>1. OwnTag(d) /\ \E n \in Nat : ListValue(d, v, n)
  BY DEF ValueOf, ListValue
<1>2. PICK n \in Nat : ListValue(d, v, n)
  BY <1>1
<1>3. DOMAIN v = 1 .. n /\ OwnTag(d.element)
  BY <1>2 DEF ListValue
<1> DEFINE u == [k \in 1 .. n |-> Unchosen(d.element, v[k])]
<1>4. Unchosen(d, v) = u
  <2>1. UnchosenIn(d, v) = u
    BY <1>3 DEF UnchosenIn
  <2>2. Unchosen(d, v) = UnchosenIn(d, v)
    BY Zenon DEF IsMeaning
  <2> HIDE DEF u
  <2> QED BY <2>1, <2>2
<1>5. DOMAIN u = 1 .. n /\ Len(u) = n /\ \A k \in 1 .. n : u[k] = Unchosen(d.element, v[k])
  OBVIOUS
<1>6. ASSUME NEW k \in 1 .. n PROVE Spent(d.element, v[k])
  <2>1. <<d.element, v[k]>> \in PartsOf(d, v)
    BY <1>3 DEF PartsOf
  <2> QED BY <2>1
<1> HIDE DEF u
<1>7. ASSUME NEW x, DOMAIN x = 1 .. n
      PROVE  Chosen(d, x) <=> \A k \in 1 .. n : Chosen(d.element, x[k])
  <2>1. ChosenIn(d, x) <=> \A k \in 1 .. n : Chosen(d.element, x[k])
    BY <1>7 DEF ChosenIn
  <2>2. Chosen(d, x) = ChosenIn(d, x)
    BY Zenon DEF IsMeaning
  <2> QED BY <2>1, <2>2
<1> DEFINE body(x) == FlattenSeq([k \in 1 .. n |-> Ber(d.element, x[k], d.element.tags, "der")])
<1>8. ASSUME NEW x, DOMAIN x = 1 .. n, NEW tags
      PROVE  Ber(d, x, tags, "der")
                = IF tags = <<>> THEN body(x) ELSE TLV(tags[1], TRUE, body(x), "der")
  <2>1. Ber(d, x, tags, "der") = BerOf(d, x, tags, "der")
    BY Zenon DEF IsMeaning
  <2>2. BerOf(d, x, tags, "der")
          = IF tags = <<>> THEN body(x) ELSE TLV(tags[1], TRUE, body(x), "der")
    BY <1>8 DEF BerOf
  <2> HIDE DEF body
  <2> QED BY <2>1, <2>2
<1>9. ASSUME Chosen(d, u)
      PROVE  Chosen(d, v) /\ \A tags : Ber(d, u, tags, "der") = Ber(d, v, tags, "der")
  <2>1. \A k \in 1 .. n : Chosen(d.element, u[k])
    BY <1>5, <1>7, <1>9
  <2>2. ASSUME NEW k \in 1 .. n
        PROVE  /\ Chosen(d.element, v[k])
               /\ Ber(d.element, u[k], d.element.tags, "der")
                    = Ber(d.element, v[k], d.element.tags, "der")
    BY <1>5, <1>6, <2>1 DEF Spent
  <2>3. Chosen(d, v)
    BY <1>3, <1>7, <2>2
  <2>4. body(u) = body(v)
    BY <2>2
  <2> HIDE DEF body
  <2> QED BY <1>3, <1>5, <1>8, <2>3, <2>4
<1>10. ValueOf(d, u)
  BY <1>1, <1>3, <1>5 DEF ValueOf, ListValue
<1>11. \A p \in PartsOf(d, u) : Settled(p[1], p[2])
  <2>1. SUFFICES ASSUME NEW k \in 1 .. n PROVE Settled(d.element, u[k])
    BY <1>5 DEF PartsOf
  <2> QED BY <1>5, <1>6 DEF Spent
<1> QED BY <1>4, <1>9, <1>10, <1>11, SpentIf

(* Nothing is sent for a CHOICE that is not made.                           *)
LEMMA ChoicesSpent ==
  ASSUME IsDecoder, IsEncoder, IsMeaning, NEW d, NEW v, Fits(d, v),
         d.kind = "CHOICE", ValueOf(d, v)
  PROVE  Spent(d, v)
<1> DEFINE u == [present |-> 0, choice |-> <<>>]
<1>1. Unchosen(d, v) = u
  <2>1. UnchosenIn(d, v) = u
    BY DEF UnchosenIn
  <2>2. Unchosen(d, v) = UnchosenIn(d, v)
    BY Zenon DEF IsMeaning
  <2> QED BY <2>1, <2>2
<1>2. u.present = 0 /\ u = [present |-> u.present, choice |-> u.choice]
  OBVIOUS
<1> HIDE DEF u
<1>3. ValueOf(d, u)
  BY <1>2 DEF ValueOf, ChoiceValue, HasMembers
<1>4. ~Chosen(d, u)
  <2>1. ~ChosenIn(d, u)
    BY <1>2 DEF ChosenIn
  <2>2. Chosen(d, u) = ChosenIn(d, u)
    BY Zenon DEF IsMeaning
  <2> QED BY <2>1, <2>2
<1>5. PartsOf(d, u) = {}
  BY <1>2 DEF PartsOf
<1> QED BY <1>1, <1>3, <1>4, <1>5, SpentIf

(* The types without parts have no alternatives.                            *)
LEMMA SimplesSpent ==
  ASSUME IsDecoder, IsEncoder, IsMeaning, NEW d, NEW v, Fits(d, v),
         d.kind \in Simple, ValueOf(d, v)
  PROVE  Spent(d, v)
<1>1. Unchosen(d, v) = v
  <2>1. UnchosenIn(d, v) = v
    BY DEF UnchosenIn, Simple
  <2>2. Unchosen(d, v) = UnchosenIn(d, v)
    BY Zenon DEF IsMeaning
  <2> QED BY <2>1, <2>2
<1>2. PartsOf(d, v) = {}
  BY DEF PartsOf, Simple
<1> QED BY <1>1, <1>2, SpentIf

(* So is every type if its parts are.                                       *)
LEMMA SpentFromParts ==
  ASSUME IsDecoder, IsEncoder, IsMeaning, NEW d, NEW v, ValueOf(d, v), Fits(d, v),
         \A p \in PartsOf(d, v) : Spent(p[1], p[2])
  PROVE  Spent(d, v)
<1>1. d.kind \in Simple \cup {"SEQUENCE", "SEQUENCE_OF", "CHOICE"}
  BY DEF ValueOf, Simple
<1> QED BY <1>1, SimplesSpent, SequencesSpent, ListsSpent, ChoicesSpent

(* Every value of every type, by induction on the depth of the types.       *)
LEMMA ValuesSettled ==
  ASSUME IsDecoder, IsEncoder, IsMeaning, NEW x \in Values
  PROVE  Settled(x[1], x[2]) /\ Spent(x[1], x[2])
<1> DEFINE good(y) == Settled(y[1], y[2]) /\ Spent(y[1], y[2])
           bad == {k \in Nat : \E y \in Values : Depth(y[1]) = k /\ ~good(y)}
<1>1. \A y \in Values :
        /\ ValueOf(y[1], y[2]) /\ Fits(y[1], y[2]) /\ Depth(y[1]) \in Nat
        /\ \A p \in PartsOf(y[1], y[2]) : p \in Values /\ Depth(p[1]) < Depth(y[1])
  BY ValuesAreNested, PartsAreValues
<1>2. ASSUME NEW y \in Values, \A p \in PartsOf(y[1], y[2]) : good(p) PROVE good(y)
  <2>1. ValueOf(y[1], y[2]) /\ Fits(y[1], y[2])
    BY <1>1
  <2> QED BY <1>2, <2>1, SettledFromParts, SpentFromParts
<1> HIDE DEF good
<1>3. SUFFICES ASSUME ~good(x) PROVE FALSE
  BY DEF good
<1>4. bad \in SUBSET Nat /\ bad # {}
  BY <1>1, <1>3
<1>5. Min(bad) \in bad /\ \A k \in bad : Min(bad) <= k
  <2> HIDE DEF bad
  <2> QED BY <1>4, MinIsLeast
<1>6. PICK y \in Values : Depth(y[1]) = Min(bad) /\ ~good(y)
  BY <1>5
<1>7. ASSUME NEW p \in PartsOf(y[1], y[2]) PROVE good(p)
  <2>1. p \in Values /\ Depth(p[1]) < Depth(y[1]) /\ Depth(p[1]) \in Nat /\ Depth(y[1]) \in Nat
    BY <1>1
  <2>2. ~(Min(bad) <= Depth(p[1]))
    <3> HIDE DEF bad
    <3> QED BY <1>6, <2>1
  <2>3. Depth(p[1]) \notin bad
    <3> HIDE DEF bad
    <3> QED BY <1>5, <2>2
  <2> QED BY <2>1, <2>3
<1> QED BY <1>2, <1>6, <1>7

(* What was made of a message is sent like any value, and read back as it   *)
(* is, also when alternatives of the message were not known.                *)
LEMMA MeantSent ==
  ASSUME IsDecoder, IsEncoder, IsMeaning, NEW d, NEW v, <<d, v>> \in Values,
         NEW known \in {v, Unchosen(d, v)}
  PROVE  LET w == Meaning(d, known)
         IN  Sent(d, w) /\ Meaning(d, w) = w /\ (Chosen(d, w) <=> Chosen(d, known))
<1>1. Settled(d, v) /\ Spent(d, v)
  BY ValuesSettled
<1>2. Settled(d, known)
  BY <1>1 DEF Spent
<1>3. d.tags = <<>> \/ OwnTag(d)
  <2>1. ValueOf(d, v)
    BY ValuesAreNested
  <2> QED BY <2>1, ValueTagged
<1>4. Faithful(d, Meaning(d, known))
  BY <1>2 DEF Settled
<1>5. Sent(d, Meaning(d, known))
  BY <1>3, <1>4, FaithfulSent
<1> QED BY <1>2, <1>5 DEF Settled
-----------------------------------------------------------------------------
(* The messages *)

\* A beginning of what is sent, but not all of it.
Cut(d, v, octets) ==
  \E n \in 1 .. Len(der_encode(d, v)) - 1 : octets = SubSeq(der_encode(d, v), 1, n)

\* The message is the library's own up to the first decoding.
OwnMessage ==
  /\ Chosen(descriptor, message)
  /\ stage \in {"encoded", "decoded", "copied", "CopyException"}
  /\ stage \in {"encoded", "decoded"} => buffer = der_encode(descriptor, message)
  /\ stage = "decoded" => result = Ok(Len(buffer), Meaning(descriptor, message))

\* The first datagram of a message.
CutMessage ==
  /\ Chosen(descriptor, message) /\ stage \in {"arrived", "DecodeException"}
  /\ stage = "arrived" => Cut(descriptor, message, buffer)

\* The inductive invariant: until the octets are read, the buffer is what
\* fate says of it.
IInv ==
  /\ fate \in Styles \cup {"none", "der", "start", "rest", "other"}
  /\ fate # "other" => <<descriptor, message>> \in Values
  /\ stage = "built" => fate = "none"
  /\ stage = "encoded" => fate = "der"
  /\ stage = "EncodeException" => fate = "none"
  /\ fate = "none" => stage \in {"built", "EncodeException"}
  /\ stage = "EncodeException" => ~Chosen(descriptor, message)
  /\ fate = "der" => OwnMessage
  /\ fate = "start" => CutMessage

(* A message that was sent is read back, and one that was cut is not.       *)
LEMMA SentRead ==
  ASSUME NEW d, NEW v, Sent(d, v), Chosen(d, v), NEW octets
  PROVE  /\ octets = der_encode(d, v) => ber_decode(d, octets) = Ok(Len(octets), Meaning(d, v))
         /\ Cut(d, v, octets) => ber_decode(d, octets) = More
<1> DEFINE enc == der_encode(d, v)
<1>1. enc \in Seq(Octet)
  BY DEF Sent
<1>2. \A buf \in Seq(Octet) : Begins(buf, enc) =>
        Takes(ber_decode(d, buf), buf, enc, Meaning(d, v))
  BY DEF Sent
<1> HIDE DEF enc
<1>3. PICK l \in Nat : Len(enc) = l
  BY <1>1
<1>4. ber_decode(d, enc) = Ok(Len(enc), Meaning(d, v))
  <2>1. Begins(enc, enc)
    BY DEF Begins
  <2>2. Takes(ber_decode(d, enc), enc, enc, Meaning(d, v))
    BY <1>1, <1>2, <2>1
  <2> QED BY <1>3, <2>2 DEF Takes
<1>5. ASSUME NEW n \in 1 .. l - 1, octets = SubSeq(enc, 1, n)
      PROVE  ber_decode(d, octets) = More
  <2>1. /\ octets \in Seq(Octet) /\ Len(octets) = n
        /\ \A i \in 1 .. n : octets[i] = enc[i]
    BY <1>1, <1>3, <1>5
  <2>2. Begins(octets, enc)
    BY <1>3, <2>1 DEF Begins
  <2>3. Takes(ber_decode(d, octets), octets, enc, Meaning(d, v))
    BY <1>2, <2>1, <2>2
  <2>4. ~(l <= n)
    OBVIOUS
  <2> QED BY <1>3, <2>1, <2>3, <2>4 DEF Takes
<1> QED BY <1>3, <1>4, <1>5 DEF Cut, enc

(* The initial states.                                                      *)
LEMMA InitHolds ==
  ASSUME Init
  PROVE  IInv
<1>1. PICK m \in Messages : type = m[1] /\ message = m[2]
  BY DEF Init
<1>2. <<Types[m[1]], m[2]>> \in Values
  BY MessagesAreValues
<1>3. <<descriptor, message>> \in Values
  BY <1>1, <1>2 DEF descriptor
<1>4. stage = "built" /\ fate = "none"
  BY DEF Init
<1> QED BY <1>3, <1>4 DEF IInv

(* Every step keeps the invariant.                                          *)
LEMMA StepKeeps ==
  ASSUME IsDecoder, IsEncoder, IsMeaning, IInv, [Next]_vars
  PROVE  IInv'
<1>1. fate # "other" => Sent(descriptor, message)
  BY ValuesSent DEF IInv
<1>2. CASE UNCHANGED vars
  BY <1>2 DEF vars, IInv, OwnMessage, CutMessage, descriptor
<1>3. CASE encode
  <2>1. fate = "none" /\ <<descriptor, message>> \in Values /\ Sent(descriptor, message)
    BY <1>1, <1>3 DEF encode, IInv
  <2>2. UNCHANGED <<type, message, result>> /\ descriptor' = descriptor
    BY <1>3 DEF encode, descriptor
  <2>3. CASE Chosen(descriptor, message)
    <3>1. der_encode(descriptor, message) # FAILED
      BY <2>1, <2>3 DEF Sent
    <3>2. stage' = "encoded" /\ fate' = "der" /\ buffer' = der_encode(descriptor, message)
      BY <1>3, <3>1 DEF encode
    <3> QED BY <2>1, <2>2, <2>3, <3>2 DEF IInv, OwnMessage
  <2>4. CASE ~Chosen(descriptor, message)
    <3>1. der_encode(descriptor, message) = FAILED
      BY <2>1, <2>4 DEF Sent
    <3>2. stage' = "EncodeException" /\ UNCHANGED <<fate, buffer>>
      BY <1>3, <3>1 DEF encode
    <3> QED BY <2>1, <2>2, <2>4, <3>2 DEF IInv
  <2> QED BY <2>3, <2>4
<1>4. CASE decode
  <2>1. UNCHANGED <<type, message, fate, buffer>> /\ descriptor' = descriptor
        /\ result' = ber_decode(descriptor, buffer)
        /\ stage \in {"encoded", "arrived"}
    BY <1>4 DEF decode, descriptor
  <2>0. stage' = IF result'.code = "RC_OK" THEN "decoded" ELSE "DecodeException"
    BY <1>4, Zenon DEF decode
  <2>2. fate # "none" /\ fate' # "none"
    BY <2>1 DEF IInv
  <2>3. ASSUME fate = "der" PROVE OwnMessage'
    <3>1. Sent(descriptor, message) /\ Chosen(descriptor, message) /\ stage = "encoded"
          /\ buffer = der_encode(descriptor, message)
      BY <1>1, <2>1, <2>3 DEF IInv, OwnMessage
    <3>2. result' = Ok(Len(buffer), Meaning(descriptor, message))
      BY <2>1, <3>1, SentRead
    <3>3. stage' = "decoded"
      BY <2>0, <3>2 DEF Ok
    <3> QED BY <2>1, <3>1, <3>2, <3>3 DEF OwnMessage
  <2>4. ASSUME fate = "start" PROVE CutMessage'
    <3>1. Sent(descriptor, message) /\ Chosen(descriptor, message) /\ stage = "arrived"
          /\ Cut(descriptor, message, buffer)
      BY <1>1, <2>1, <2>4 DEF IInv, CutMessage
    <3>2. result' = More
      BY <2>1, <3>1, SentRead
    <3>3. stage' = "DecodeException"
      BY <2>0, <3>2 DEF More
    <3> QED BY <2>1, <3>1, <3>3 DEF CutMessage
  <2>5. stage' \in {"decoded", "DecodeException"}
    BY <2>0
  <2>6. fate' # "other" => <<descriptor', message'>> \in Values
    BY <2>1 DEF IInv
  <2>7. (fate' = "der" => OwnMessage') /\ (fate' = "start" => CutMessage')
    BY <2>1, <2>3, <2>4
  <2>8. fate' \in Styles \cup {"none", "der", "start", "rest", "other"}
    BY <2>1 DEF IInv
  <2> QED BY <2>2, <2>5, <2>6, <2>7, <2>8 DEF IInv
<1>5. CASE copy
  <2>1. UNCHANGED <<type, message, fate>> /\ descriptor' = descriptor
        /\ stage = "decoded" /\ stage' \in {"copied", "CopyException"}
    BY <1>5 DEF copy, descriptor
  <2> QED BY <2>1 DEF IInv, OwnMessage, CutMessage
<1>6. CASE ReceivePart
  <2>1. UNCHANGED <<type, message, result>> /\ descriptor' = descriptor
        /\ stage = "encoded" /\ stage' = "arrived" /\ fate' \in {"start", "rest"}
    BY <1>6 DEF ReceivePart, descriptor
  <2>2. Chosen(descriptor, message) /\ buffer = der_encode(descriptor, message)
        /\ <<descriptor, message>> \in Values
    BY <2>1 DEF IInv, OwnMessage
  <2>3. fate' = "start" => Cut(descriptor, message, buffer')
    BY <1>6, <2>2 DEF ReceivePart, Cut
  <2> QED BY <2>1, <2>2, <2>3 DEF IInv, CutMessage
<1>7. CASE \E style \in Styles : Receive(style)
  <2>1. UNCHANGED <<type, message, result>> /\ descriptor' = descriptor
        /\ stage = "built" /\ stage' = "arrived" /\ fate' \in Styles
    BY <1>7 DEF Receive, descriptor
  <2>2. <<descriptor, message>> \in Values
    BY <2>1 DEF IInv
  <2> QED BY <2>1, <2>2 DEF IInv, Styles
<1>8. CASE \E n \in PDUs : ReceiveOther(n)
  BY <1>8 DEF ReceiveOther, IInv
<1> QED BY <1>2, <1>3, <1>4, <1>5, <1>6, <1>7, <1>8 DEF Next

\* What the decoder has accepted is what the message meant.
Understood ==
  stage = "decoded" => /\ <<descriptor, message>> \in Values
                       /\ result = Ok(Len(buffer), Meaning(descriptor, Known))

(* Then so is its copy.                                                     *)
LEMMA CopyKeeps ==
  ASSUME IsDecoder, IsEncoder, IsMeaning, Understood, CopyFaithful, [Next]_vars
  PROVE  CopyFaithful'
<1>1. CASE copy
  <2>1. /\ stage = "decoded" /\ UNCHANGED <<type, message, fate>>
        /\ descriptor' = descriptor /\ Known' = Known
    BY <1>1 DEF copy, descriptor, Known
  <2> DEFINE w == Meaning(descriptor, Known)
  <2>2. <<descriptor, message>> \in Values /\ result.value = w
    BY <2>1 DEF Understood, Ok
  <2>3. Known \in {message, Unchosen(descriptor, message)}
    BY DEF Known
  <2>4. Sent(descriptor, w) /\ Meaning(descriptor, w) = w
        /\ (Chosen(descriptor, w) <=> Chosen(descriptor, Known))
    BY <2>2, <2>3, MeantSent
  <2> HIDE DEF w
  <2>5. CASE Chosen(descriptor, w)
    <3>1. der_encode(descriptor, w) # FAILED
      BY <2>4, <2>5 DEF Sent
    <3>2. /\ buffer' = der_encode(descriptor, w)
          /\ result' = ber_decode(descriptor, der_encode(descriptor, w))
          /\ stage' = IF result'.code = "RC_OK" THEN "copied" ELSE "CopyException"
      BY <1>1, <2>2, <3>1 DEF copy
    <3>3. result' = Ok(Len(buffer'), w)
      BY <2>4, <2>5, <3>2, SentRead
    <3>4. stage' = "copied"
      BY <3>2, <3>3 DEF Ok
    <3> QED BY <2>1, <3>3, <3>4 DEF CopyFaithful, w
  <2>6. CASE ~Chosen(descriptor, w)
    <3>1. der_encode(descriptor, w) = FAILED
      BY <2>4, <2>6 DEF Sent
    <3>2. stage' = "CopyException"
      BY <1>1, <2>2, <3>1 DEF copy
    <3> QED BY <2>1, <2>4, <2>6, <3>2 DEF CopyFaithful
  <2> QED BY <2>5, <2>6
<1>2. CASE UNCHANGED vars
  BY <1>2 DEF vars, CopyFaithful, descriptor, Known
<1>3. CASE Next /\ ~copy
  <2>1. stage' \notin {"copied", "CopyException"}
    BY <1>3 DEF Next, encode, decode, ReceivePart, Receive, ReceiveOther
  <2> QED BY <2>1 DEF CopyFaithful
<1> QED BY <1>1, <1>2, <1>3

\* What the theorems assume of the operators: that they are the recursions
\* that AsnCodec and AsnMeaning spell out.
Codecs == IsDecoder /\ IsEncoder /\ IsMeaning

(* The invariant holds in every behaviour.                                  *)
LEMMA IInvHolds ==
  ASSUME Codecs
  PROVE  Spec => []IInv
<1>1. Init => IInv
  BY InitHolds
<1>2. IInv /\ [Next]_vars => IInv'
  BY StepKeeps DEF Codecs
<1> QED BY <1>1, <1>2, PTL DEF Spec

(* What the library sends is the distinguished encoding of the message, and *)
(* encode throws exactly when a CHOICE of the message is not made           *)
(* (DEREncoder<T>::encode).                                                 *)
THEOREM SendsDER ==
  ASSUME Codecs
  PROVE  Spec => []EncodesDER
<1>1. IInv => EncodesDER
  <2>1. ASSUME IInv, stage = "encoded"
        PROVE  Chosen(descriptor, message)
               /\ buffer = Ber(descriptor, message, descriptor.tags, "der")
    <3>1. /\ <<descriptor, message>> \in Values /\ Chosen(descriptor, message)
          /\ buffer = der_encode(descriptor, message)
      BY <2>1 DEF IInv, OwnMessage
    <3>2. Sent(descriptor, message)
      BY <3>1, ValuesSent DEF Codecs
    <3> QED BY <3>1, <3>2 DEF Sent
  <2> QED BY <2>1 DEF IInv, EncodesDER
<1> QED BY <1>1, IInvHolds, PTL

(* What the library sends it decodes to the message that was meant, and the *)
(* decoder stops where the message ends (DEREncoder<T>::decode).            *)
THEOREM ReadsBack ==
  ASSUME Codecs
  PROVE  Spec => []RoundTrip
<1>1. IInv => RoundTrip
  BY DEF IInv, OwnMessage, RoundTrip
<1> QED BY <1>1, IInvHolds, PTL

(* The first of the datagrams into which UDPSocket::send cuts a message is  *)
(* not accepted for the whole, wherever it was cut.                         *)
THEOREM BeginningsRejected ==
  ASSUME Codecs
  PROVE  Spec => [](fate = "start" => stage # "decoded")
<1>1. IInv => (fate = "start" => stage # "decoded")
  BY DEF IInv, CutMessage
<1> QED BY <1>1, IInvHolds, PTL

(* The copy of a message that the library sent and accepted is that message *)
(* (the copy constructors of the wrappers).                                 *)
THEOREM OwnCopiesFaithful ==
  ASSUME Codecs
  PROVE  Spec => [](fate = "der" => CopyFaithful)
<1> DEFINE Own == fate = "der" => CopyFaithful
<1>1. Init => Own
  BY DEF Init
<1>2. IInv /\ Own /\ [Next]_vars => Own'
  <2>1. SUFFICES ASSUME IInv, Own, [Next]_vars, fate' = "der" PROVE CopyFaithful'
    OBVIOUS
  <2>2. CASE fate = "der"
    <3>1. Understood
      BY <2>1, <2>2 DEF IInv, OwnMessage, Understood, Known
    <3> QED BY <2>1, <2>2, <3>1, CopyKeeps DEF Codecs
  <2>3. CASE fate # "der"
    <3>1. stage' = "encoded"
      BY <2>1, <2>3 DEF Next, vars, encode, decode, copy, ReceivePart, Receive, ReceiveOther, Styles
    <3> QED BY <3>1 DEF CopyFaithful
  <2> QED BY <2>2, <2>3
<1> QED BY <1>1, <1>2, IInvHolds, PTL DEF Spec

(* The copy of any message that was accepted is that message, provided that *)
(* the decoder understands what other stations send and accepts no part of  *)
(* a message for a whole one.                                               *)
THEOREM CopiesFaithful ==
  ASSUME Codecs
  PROVE  Spec /\ []Interoperates /\ []PartsRejected => []CopyFaithful
<1>1. Init => CopyFaithful
  BY DEF Init, CopyFaithful
<1>2. IInv /\ Interoperates /\ PartsRejected => Understood
  BY DEF IInv, OwnMessage, Interoperates, PartsRejected, Understood, Known
<1>3. Understood /\ CopyFaithful /\ [Next]_vars => CopyFaithful'
  BY CopyKeeps DEF Codecs
<1> QED BY <1>1, <1>2, <1>3, IInvHolds, PTL DEF Spec
=============================================================================
