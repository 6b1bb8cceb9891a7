------------------------- MODULE AsnPrimitivesProofs -------------------------
(***************************************************************************)
(* Proofs about AsnPrimitives: what the encoders of the types without      *)
(* members write, the decoders read back, whatever follows it.             *)
(***************************************************************************)
EXTENDS AsnPrimitives, SequenceTheorems, WellFoundedInduction, TLAPS

\* Whether a buffer holds an encoding, or a beginning of it and no more.
Begins(buf, enc) == \A i \in 1 .. Len(enc) : i <= Len(buf) => buf[i] = enc[i]

(* Octets are numbers below 256.                                            *)
LEMMA OctetIsInt ==
  ASSUME NEW x \in Octet
  PROVE  x \in Int /\ 0 <= x /\ x <= 255
BY DEF Octet
-----------------------------------------------------------------------------
(* Least elements *)

(* The least element of a set of natural numbers.                           *)
LEMMA MinIsLeast ==
  ASSUME NEW S \in SUBSET Nat, S # {}
  PROVE  Min(S) \in S /\ \A y \in S : Min(S) <= y
<1>1. PICK x \in S : \A y \in S : <<y, x>> \notin OpToRel(<, Nat)
  BY WFMin, NatLessThanWellFounded
<1>2. \A y \in S : ~(y < x)
  BY <1>1 DEF OpToRel
<1>3. \A y \in S : x <= y
  BY <1>2
<1> QED BY <1>3 DEF Min

(* It is the only one.                                                      *)
LEMMA MinIsUnique ==
  ASSUME NEW S \in SUBSET Nat, NEW x \in S, \A y \in S : x <= y
  PROVE  Min(S) = x
<1>1. Min(S) \in S /\ Min(S) <= x
  BY MinIsLeast
<1>2. x <= Min(S) /\ x \in Nat /\ Min(S) \in Nat
  BY <1>1
<1> QED BY <1>1, <1>2
-----------------------------------------------------------------------------
(* An octet in front of others.                                             *)
LEMMA InFront ==
  ASSUME NEW S, NEW x \in S, NEW s \in Seq(S)
  PROVE  /\ <<x>> \o s \in Seq(S) /\ Len(<<x>> \o s) = Len(s) + 1
         /\ (<<x>> \o s)[1] = x /\ \A i \in 1 .. Len(s) : (<<x>> \o s)[i + 1] = s[i]
OBVIOUS

LEMMA InFrontOfOne ==
  ASSUME NEW x \in Nat, NEW a \in Nat
  PROVE  <<x>> \o <<a>> = <<x, a>>
<1> DEFINE s == <<a>>
           xs == <<x, a>>
           t == <<x>> \o s
<1>1. s \in Seq(Nat)
  OBVIOUS
<1>2. Len(s) = 1 /\ s[1] = a
  OBVIOUS
<1>3. xs \in Seq(Nat) /\ Len(xs) = 2 /\ xs[1] = x /\ xs[2] = a
  OBVIOUS
<1> HIDE DEF s, xs
<1>4. t \in Seq(Nat)
  BY <1>1, InFront, Zenon
<1>5. Len(t) = Len(s) + 1
  BY <1>1, InFront
<1>6. t[1] = x
  BY <1>1, InFront
<1>7. \A i \in 1 .. Len(s) : t[i + 1] = s[i]
  BY <1>1, InFront
<1> HIDE DEF t
<1>8. Len(t) = 2 /\ t[1] = xs[1] /\ t[2] = xs[2]
  BY <1>2, <1>3, <1>5, <1>6, <1>7
<1>9. Len(t) = Len(xs) /\ \A i \in 1 .. Len(t) : t[i] = xs[i]
  BY <1>3, <1>8
<1>10. t = xs
  BY <1>3, <1>4, <1>9, SeqEqual, Zenon
<1> QED BY <1>10 DEF t, s, xs

LEMMA InFrontOfTwo ==
  ASSUME NEW x \in Nat, NEW a \in Nat, NEW b \in Nat
  PROVE  <<x>> \o <<a, b>> = <<x, a, b>>
<1> DEFINE s == <<a, b>>
           xs == <<x, a, b>>
           t == <<x>> \o s
<1>1. s \in Seq(Nat)
  OBVIOUS
<1>2. Len(s) = 2 /\ s[1] = a /\ s[2] = b
  OBVIOUS
<1>3. xs \in Seq(Nat) /\ Len(xs) = 3 /\ xs[1] = x /\ xs[2] = a /\ xs[3] = b
  OBVIOUS
<1> HIDE DEF s, xs
<1>4. t \in Seq(Nat)
  BY <1>1, InFront, Zenon
<1>5. Len(t) = Len(s) + 1
  BY <1>1, InFront
<1>6. t[1] = x
  BY <1>1, InFront
<1>7. \A i \in 1 .. Len(s) : t[i + 1] = s[i]
  BY <1>1, InFront
<1> HIDE DEF t
<1>8. Len(t) = 3 /\ t[1] = xs[1] /\ t[2] = xs[2] /\ t[3] = xs[3]
  BY <1>2, <1>3, <1>5, <1>6, <1>7
<1>9. Len(t) = Len(xs) /\ \A i \in 1 .. Len(t) : t[i] = xs[i]
  BY <1>3, <1>8
<1>10. t = xs
  BY <1>3, <1>4, <1>9, SeqEqual, Zenon
<1> QED BY <1>10 DEF t, s, xs

LEMMA InFrontOfThree ==
  ASSUME NEW x \in Nat, NEW a \in Nat, NEW b \in Nat, NEW c \in Nat
  PROVE  <<x>> \o <<a, b, c>> = <<x, a, b, c>>
<1> DEFINE s == <<a, b, c>>
           xs == <<x, a, b, c>>
           t == <<x>> \o s
<1>1. s \in Seq(Nat)
  OBVIOUS
<1>2. Len(s) = 3 /\ s[1] = a /\ s[2] = b /\ s[3] = c
  OBVIOUS
<1>3. xs \in Seq(Nat) /\ Len(xs) = 4 /\ xs[1] = x /\ xs[2] = a /\ xs[3] = b /\ xs[4] = c
  OBVIOUS
<1> HIDE DEF s, xs
<1>4. t \in Seq(Nat)
  BY <1>1, InFront, Zenon
<1>5. Len(t) = Len(s) + 1
  BY <1>1, InFront
<1>6. t[1] = x
  BY <1>1, InFront
<1>7. \A i \in 1 .. Len(s) : t[i + 1] = s[i]
  BY <1>1, InFront
<1> HIDE DEF t
<1>8. Len(t) = 4 /\ t[1] = xs[1] /\ t[2] = xs[2] /\ t[3] = xs[3] /\ t[4] = xs[4]
  BY <1>2, <1>3, <1>5, <1>6, <1>7
<1>9. Len(t) = Len(xs) /\ \A i \in 1 .. Len(t) : t[i] = xs[i]
  BY <1>3, <1>8
<1>10. t = xs
  BY <1>3, <1>4, <1>9, SeqEqual, Zenon
<1> QED BY <1>10 DEF t, s, xs

(* Lengths *)

\* The octets of a length, by X.690.
LengthOctets(n) ==
  CASE n <= 127 -> <<n>>
    [] n > 127 /\ n <= 255 -> <<129, n>>
    [] n > 255 /\ n \div 256 <= 255 -> <<130, n \div 256, n % 256>>
    [] OTHER -> <<131, (n \div 256) \div 256, (n \div 256) % 256, n % 256>>

\* One, two or three digits to the base of 256.
TwoDigits(n, a, b) == a \in 1 .. 255 /\ b \in Octet /\ n = 256 * a + b
ThreeDigits(n, a, b, c) ==
  a \in 1 .. 255 /\ b \in Octet /\ c \in Octet /\ n = 256 * (256 * a + b) + c

(* How many they are, and what they are.                                    *)
LEMMA LengthOctetsAre ==
  ASSUME NEW n \in Lengths
  PROVE  \/ n \in 0 .. 127 /\ LengthOctets(n) = <<n>>
         \/ n \in 128 .. 255 /\ LengthOctets(n) = <<129, n>>
         \/ \E a, b : TwoDigits(n, a, b) /\ LengthOctets(n) = <<130, a, b>>
         \/ \E a, b, c : ThreeDigits(n, a, b, c) /\ LengthOctets(n) = <<131, a, b, c>>
<1>0. n \in Nat /\ (n \div 256) \div 256 <= 255
  BY DEF Lengths
<1>1. CASE n <= 127
  BY <1>0, <1>1 DEF LengthOctets
<1>2. CASE n > 127 /\ n <= 255
  BY <1>0, <1>2 DEF LengthOctets
<1>3. CASE n > 255 /\ n \div 256 <= 255
  <2> DEFINE a == n \div 256
             b == n % 256
  <2>1. TwoDigits(n, a, b)
    BY <1>0, <1>3, SMTT(30) DEF Octet, TwoDigits
  <2>2. LengthOctets(n) = <<130, a, b>>
    BY <1>0, <1>3 DEF LengthOctets
  <2> HIDE DEF a, b
  <2> QED BY <2>1, <2>2
<1>4. CASE n > 255 /\ ~(n \div 256 <= 255)
  <2> DEFINE a == (n \div 256) \div 256
             b == (n \div 256) % 256
             c == n % 256
  <2>1. ThreeDigits(n, a, b, c)
    BY <1>0, <1>4, SMTT(30) DEF Octet, ThreeDigits
  <2>2. LengthOctets(n) = <<131, a, b, c>>
    BY <1>0, <1>4 DEF LengthOctets
  <2> HIDE DEF a, b, c
  <2> QED BY <2>1, <2>2
<1> QED BY <1>0, <1>1, <1>2, <1>3, <1>4

(* The number of digits of a length to the base of 256.                     *)
LEMMA DigitsOfLength ==
  ASSUME NEW n \in Lengths, n > 127, NEW k \in 1 .. 5
  PROVE  (n < 256 ^ k /\ (k = 1 \/ n >= 256 ^ (k - 1)))
           <=> k = IF n <= 255 THEN 1 ELSE IF n \div 256 <= 255 THEN 2 ELSE 3
<1> DEFINE power(i) == 256 ^ i
<1>1. n \in Nat /\ (n \div 256) \div 256 <= 255
  BY DEF Lengths
<1>2. /\ power(0) = 1 /\ power(1) = 256 /\ power(2) = 65536 /\ power(3) = 16777216
      /\ power(4) = 4294967296
  BY SMT
<1> HIDE DEF power
<1>3. n < 16777216 /\ (n \div 256 <= 255 <=> n < 65536)
  BY <1>1, SMT
<1>4. k \in {1, 2, 3, 4, 5} /\ 1 - 1 = 0 /\ 2 - 1 = 1 /\ 3 - 1 = 2 /\ 4 - 1 = 3 /\ 5 - 1 = 4
  BY SMT
<1>5. (n < power(k) /\ (k = 1 \/ n >= power(k - 1)))
        <=> k = IF n <= 255 THEN 1 ELSE IF n \div 256 <= 255 THEN 2 ELSE 3
  BY <1>1, <1>2, <1>3, <1>4, SMT
<1> QED BY <1>5, SMT DEF power

(* der_tlv_length_serialize writes them.                                    *)
LEMMA LengthWritten ==
  ASSUME NEW n \in Lengths
  PROVE  der_tlv_length_serialize(n) = LengthOctets(n)
<1>0. n \in Nat
  BY DEF Lengths
<1>1. CASE n <= 127
  BY <1>0, <1>1 DEF LengthOctets, der_tlv_length_serialize
<1>2. CASE n > 127
  <2> DEFINE size == IF n <= 255 THEN 1 ELSE IF n \div 256 <= 255 THEN 2 ELSE 3
             fits(k) == n < 256 ^ k /\ (k = 1 \/ n >= 256 ^ (k - 1))
             chosen == CHOOSE k \in 1 .. 5 : fits(k)
             power(i) == 256 ^ i
             digit(k, i) == (n \div power(k - i)) % 256
  <2>1. chosen = size
    <3>1. \A k \in 1 .. 5 : fits(k) <=> k = size
      BY <1>2, DigitsOfLength
    <3>2. size \in 1 .. 5
      OBVIOUS
    <3> HIDE DEF size, fits
    <3> QED BY <3>1, <3>2
  <2>2. Digits(n, 256) = [i \in 1 .. chosen |-> digit(chosen, i)]
    BY Zenon DEF Digits
  <2>3. n \div power(0) = n /\ n \div power(1) = n \div 256
        /\ n \div power(2) = (n \div 256) \div 256
    <3>1. 256 ^ 0 = 1 /\ 256 ^ 1 = 256 /\ 256 ^ 2 = 65536
      BY SMT
    <3>2. n \div 1 = n /\ n \div 65536 = (n \div 256) \div 256
      BY <1>0, SMT
    <3> QED BY <3>1, <3>2, SMT
  <2>4. der_tlv_length_serialize(n) = <<128 + Len(Digits(n, 256))>> \o Digits(n, 256)
    <3>1. ~(n <= 127)
      BY <1>0, <1>2
    <3> QED BY <3>1, Zenon DEF der_tlv_length_serialize, LengthBytes
  <2> HIDE DEF chosen, power
  <2>5. CASE n <= 255
    <3>1. chosen = 1 /\ 1 - 1 = 0
      BY <1>0, <2>1, <2>5
    <3>2. digit(1, 1) = n
      BY <1>0, <2>3, <2>5
    <3>3. Digits(n, 256) = <<n>>
      BY <2>2, <3>1, <3>2
    <3>4. <<128 + 1>> \o <<n>> = <<129, n>>
      BY <1>0, InFrontOfOne
    <3>5. LengthOctets(n) = <<129, n>>
      BY <1>0, <1>2, <2>5 DEF LengthOctets
    <3>6. Len(<<n>>) = 1
      OBVIOUS
    <3> QED BY <2>4, <3>3, <3>4, <3>5, <3>6, Zenon
  <2>6. CASE n > 255 /\ n \div 256 <= 255
    <3> DEFINE a == n \div 256
               b == n % 256
    <3>1. chosen = 2 /\ 2 - 1 = 1 /\ 2 - 2 = 0
      BY <1>0, <2>1, <2>6
    <3>2. digit(2, 1) = a /\ digit(2, 2) = b /\ a \in Nat /\ b \in Nat
      BY <1>0, <2>3, <2>6
    <3> HIDE DEF digit
    <3>3. Digits(n, 256) = <<a, b>>
      <4>1. Digits(n, 256) = [i \in 1 .. 2 |-> digit(2, i)]
        BY <2>2, <3>1
      <4> HIDE DEF a, b
      <4> QED BY <3>2, <4>1
    <3>4. LengthOctets(n) = <<130, a, b>>
      BY <1>0, <1>2, <2>6 DEF LengthOctets
    <3> HIDE DEF a, b
    <3>5. <<128 + 2>> \o <<a, b>> = <<130, a, b>>
      BY <3>2, InFrontOfTwo
    <3> QED BY <2>4, <3>3, <3>4, <3>5
  <2>7. CASE n > 255 /\ ~(n \div 256 <= 255)
    <3> DEFINE a == (n \div 256) \div 256
               b == (n \div 256) % 256
               c == n % 256
    <3>1. chosen = 3 /\ 3 - 1 = 2 /\ 3 - 2 = 1 /\ 3 - 3 = 0
      BY <1>0, <2>1, <2>7
    <3>2. digit(3, 1) = a /\ digit(3, 2) = b /\ digit(3, 3) = c
          /\ a \in Nat /\ b \in Nat /\ c \in Nat
      <4>1. (n \div 256) \div 256 <= 255
        BY DEF Lengths
      <4>2. a % 256 = a /\ a \in Nat
        BY <1>0, <4>1
      <4> QED BY <1>0, <2>3, <3>1, <4>2
    <3> HIDE DEF digit
    <3>3. Digits(n, 256) = <<a, b, c>>
      <4>1. Digits(n, 256) = [i \in 1 .. 3 |-> digit(3, i)]
        BY <2>2, <3>1
      <4> HIDE DEF a, b, c
      <4> QED BY <3>2, <4>1
    <3>4. LengthOctets(n) = <<131, a, b, c>>
      BY <1>0, <1>2, <2>7 DEF LengthOctets
    <3> HIDE DEF a, b, c
    <3>5. <<128 + 3>> \o <<a, b, c>> = <<131, a, b, c>>
      BY <3>2, InFrontOfThree
    <3> QED BY <2>4, <3>3, <3>4, <3>5
  <2> QED BY <1>0, <1>2, <2>5, <2>6, <2>7
<1> QED BY <1>0, <1>1, <1>2

(* A length without leading zeros is its own significant part.              *)
LEMMA Significant ==
  ASSUME NEW o \in Seq(Octet), o # <<>> => o[1] # 0
  PROVE  NoLeadingZeros(o) = o
<1> DEFINE S == {i \in DOMAIN o : o[i] # 0} \cup {Len(o) + 1}
<1>1. PICK n \in Nat : n = Len(o)
  OBVIOUS
<1>2. S \in SUBSET Nat /\ 1 \in S /\ \A i \in S : 1 <= i
  <2>1. S \subseteq 1 .. n + 1
    BY <1>1
  <2>2. 1 \in S
    <3>1. CASE n = 0
      BY <1>1, <3>1
    <3>2. CASE n # 0
      <4>1. 1 \in DOMAIN o /\ o # <<>>
        BY <1>1, <3>2
      <4> QED BY <4>1
    <3> QED BY <3>1, <3>2
  <2> QED BY <2>1, <2>2
<1> HIDE DEF S
<1>3. Min(S) = 1
  BY <1>2, MinIsUnique
<1>4. NoLeadingZeros(o) = SubSeq(o, 1, Len(o))
  BY <1>3 DEF NoLeadingZeros, S
<1> QED BY <1>4

\* What the long form of a length with m octets is read as.
LongFetched(buf, l, m) ==
  IF l < m + 1 THEN Fetched(0, 0)
  ELSE Fetched(m + 1, buf[m + 1] + 256 * (IF m > 1 THEN buf[m] ELSE 0)
                        + 65536 * (IF m > 2 THEN buf[m - 1] ELSE 0))

(* What a length of m octets is read as, as far as they are there.          *)
LEMMA LongLengthRead ==
  ASSUME NEW m \in 1 .. 3, NEW buf \in Seq(Octet), NEW l \in Nat, Len(buf) = l, l >= 1,
         buf[1] = 128 + m, l >= 2 => buf[2] # 0, NEW c \in BOOLEAN
  PROVE  ber_fetch_length(c, buf) = LongFetched(buf, l, m)
<1> DEFINE last == IF m + 1 <= l THEN m + 1 ELSE l
           got == SubSeq(buf, 2, last)
<1>1. Min({m + 1, Len(buf)}) = last
  <2>1. {m + 1, Len(buf)} \in SUBSET Nat /\ last \in {m + 1, Len(buf)}
        /\ \A y \in {m + 1, Len(buf)} : last <= y
    OBVIOUS
  <2> QED BY <2>1, MinIsUnique
<1>2. /\ got \in Seq(Octet) /\ Len(got) = last - 1
      /\ \A i \in 1 .. last - 1 : got[i] = buf[i + 1]
  <2>1. \A i \in 2 .. last : buf[i] \in Octet
    OBVIOUS
  <2>2. last \in 1 .. l
    OBVIOUS
  <2> HIDE DEF last
  <2>3. last \in Int /\ 2 <= last + 1
    BY <2>2
  <2> QED BY <2>1, <2>3, SubSeqProperties
<1>3. got # <<>> => got[1] # 0
  <2>1. SUFFICES ASSUME got # <<>> PROVE got[1] # 0
    OBVIOUS
  <2>2. last >= 2 /\ l >= 2
    BY <1>2, <2>1
  <2> QED BY <1>2, <2>2
<1> HIDE DEF got
<1>4. NoLeadingZeros(got) = got
  BY <1>2, <1>3, Significant
<1>5. ber_fetch_length(c, buf) = LongLength(m, got, got)
  <2>1. buf[1] - 128 = m /\ Len(buf) # 0 /\ ~(m < 0) /\ ~(m = 0)
    OBVIOUS
  <2>2. SubSeq(buf, 2, Min({m + 1, Len(buf)})) = got
    BY <1>1 DEF got
  <2>3. ber_fetch_length(c, buf)
          = LET some == SubSeq(buf, 2, Min({m + 1, Len(buf)}))
            IN  LongLength(m, some, NoLeadingZeros(some))
    BY <2>1 DEF ber_fetch_length
  <2> QED BY <1>4, <2>2, <2>3, Zenon
<1>6. CASE l < m + 1
  <2>1. Len(got) = l - 1 /\ m # 127 /\ ~(l - 1 > 8) /\ l - 1 # 8 /\ l - 1 < m
    BY <1>2, <1>6
  <2> QED BY <1>5, <1>6, <2>1 DEF LongLength, LongFetched
<1>7. CASE ~(l < m + 1)
  <2>1. /\ Len(got) = m /\ m # 127 /\ ~(m > 8) /\ m # 8 /\ ~(m < m) /\ ~(m > 3)
        /\ \A i \in 1 .. m : got[i] = buf[i + 1]
    BY <1>2, <1>7
  <2> DEFINE digit(i) == IF i < Len(got) THEN got[Len(got) - i] ELSE 0
  <2>2. LongLength(m, got, got) = Fetched(m + 1, digit(0) + 256 * digit(1) + 65536 * digit(2))
    BY <2>1 DEF LongLength
  <2>3. digit(0) = buf[m + 1] /\ digit(1) = (IF m > 1 THEN buf[m] ELSE 0)
        /\ digit(2) = (IF m > 2 THEN buf[m - 1] ELSE 0)
    BY <2>1
  <2> HIDE DEF digit
  <2> QED BY <1>5, <1>7, <2>2, <2>3, SMT DEF LongFetched
<1> QED BY <1>6, <1>7

(* A length is read as itself, or more octets are asked for.                *)
LEMMA LengthRead ==
  ASSUME NEW n \in Lengths, NEW buf \in Seq(Octet), Begins(buf, LengthOctets(n)),
         NEW c \in BOOLEAN
  PROVE  ber_fetch_length(c, buf) =
           IF Len(buf) < Len(LengthOctets(n)) THEN Fetched(0, 0)
           ELSE Fetched(Len(LengthOctets(n)), n)
<1>0. PICK l \in Nat : Len(buf) = l
  OBVIOUS
<1>1. CASE l = 0
  <2>1. Len(LengthOctets(n)) > 0
    BY LengthOctetsAre
  <2>2. ber_fetch_length(c, buf) = Fetched(0, 0)
    BY <1>0, <1>1 DEF ber_fetch_length
  <2> QED BY <1>0, <1>1, <2>1, <2>2
<1>2. CASE l >= 1 /\ n \in 0 .. 127 /\ LengthOctets(n) = <<n>>
  <2>1. buf[1] = n
    BY <1>0, <1>2 DEF Begins
  <2>2. n - 128 < 0 /\ Len(<<n>>) = 1 /\ ~(l < 1)
    BY <1>2
  <2>3. ber_fetch_length(c, buf) = Fetched(1, n)
    BY <1>0, <1>2, <2>1, <2>2 DEF ber_fetch_length
  <2> QED BY <1>0, <1>2, <2>2, <2>3
<1>3. CASE l >= 1 /\ n \in 128 .. 255 /\ LengthOctets(n) = <<129, n>>
  <2>1. buf[1] = 129 /\ (l >= 2 => buf[2] = n) /\ Len(<<129, n>>) = 2
    BY <1>0, <1>3 DEF Begins
  <2> DEFINE m == 1
  <2>2. m \in 1 .. 3 /\ buf[1] = 128 + m /\ (l >= 2 => buf[2] # 0)
    BY <1>3, <2>1
  <2> HIDE DEF m
  <2>3. ber_fetch_length(c, buf) = LongFetched(buf, l, m)
    <3>1. l >= 1
      BY <1>3
    <3> QED BY <1>0, <2>2, <3>1, LongLengthRead, Zenon
  <2>4. m = 1
    BY DEF m
  <2>5. CASE l < 2
    BY <1>0, <1>3, <2>1, <2>3, <2>4, <2>5, SMT DEF LongFetched
  <2>6. CASE ~(l < 2)
    <3>1. buf[2] = n
      BY <2>1, <2>6
    <3> QED BY <1>0, <1>3, <2>1, <2>3, <2>4, <2>6, <3>1, SMT DEF LongFetched
  <2> QED BY <2>5, <2>6
<1>4. ASSUME l >= 1, NEW a, NEW b, TwoDigits(n, a, b), LengthOctets(n) = <<130, a, b>>
      PROVE  ber_fetch_length(c, buf) =
               IF Len(buf) < Len(LengthOctets(n)) THEN Fetched(0, 0)
               ELSE Fetched(Len(LengthOctets(n)), n)
  <2>0. a \in 1 .. 255 /\ b \in Octet /\ n = 256 * a + b
    BY <1>4 DEF TwoDigits
  <2>1. buf[1] = 130 /\ (l >= 2 => buf[2] = a) /\ (l >= 3 => buf[3] = b) /\ Len(<<130, a, b>>) = 3
    BY <1>0, <1>4 DEF Begins
  <2> DEFINE m == 2
  <2>2. m \in 1 .. 3 /\ buf[1] = 128 + m /\ (l >= 2 => buf[2] # 0)
    <3>1. m \in 1 .. 3 /\ buf[1] = 128 + m
      BY <2>1
    <3>2. a # 0
      BY <2>0
    <3> QED BY <2>1, <3>1, <3>2, Zenon
  <2> HIDE DEF m
  <2>3. ber_fetch_length(c, buf) = LongFetched(buf, l, m)
    <3>1. l >= 1
      BY <1>4
    <3> QED BY <1>0, <2>2, <3>1, LongLengthRead, Zenon
  <2>4. m = 2
    BY DEF m
  <2>5. CASE l < 3
    BY <1>0, <1>4, <2>1, <2>3, <2>4, <2>5, SMT DEF LongFetched
  <2>6. CASE ~(l < 3)
    <3>1. buf[2] = a /\ buf[3] = b
      BY <2>1, <2>6
    <3> QED BY <1>0, <1>4, <2>0, <2>1, <2>3, <2>4, <2>6, <3>1, SMT DEF Octet, LongFetched
  <2> QED BY <2>5, <2>6
<1>5. ASSUME l >= 1, NEW a, NEW b, NEW d, ThreeDigits(n, a, b, d),
             LengthOctets(n) = <<131, a, b, d>>
      PROVE  ber_fetch_length(c, buf) =
               IF Len(buf) < Len(LengthOctets(n)) THEN Fetched(0, 0)
               ELSE Fetched(Len(LengthOctets(n)), n)
  <2>0. a \in 1 .. 255 /\ b \in Octet /\ d \in Octet /\ n = 256 * (256 * a + b) + d
    BY <1>5 DEF ThreeDigits
  <2>1. /\ buf[1] = 131 /\ (l >= 2 => buf[2] = a) /\ (l >= 3 => buf[3] = b)
        /\ (l >= 4 => buf[4] = d) /\ Len(<<131, a, b, d>>) = 4
    BY <1>0, <1>5 DEF Begins
  <2> DEFINE m == 3
  <2>2. m \in 1 .. 3 /\ buf[1] = 128 + m /\ (l >= 2 => buf[2] # 0)
    <3>1. m \in 1 .. 3 /\ buf[1] = 128 + m
      BY <2>1
    <3>2. a # 0
      BY <2>0
    <3> QED BY <2>1, <3>1, <3>2, Zenon
  <2> HIDE DEF m
  <2>3. ber_fetch_length(c, buf) = LongFetched(buf, l, m)
    BY <1>0, <1>5, <2>2, LongLengthRead, SMT
  <2>4. m = 3
    BY DEF m
  <2>5. CASE l < 4
    BY <1>0, <1>5, <2>1, <2>3, <2>4, <2>5, SMT DEF LongFetched
  <2>6. CASE ~(l < 4)
    <3>1. buf[2] = a /\ buf[3] = b /\ buf[4] = d
      BY <2>1, <2>6
    <3> QED BY <1>0, <1>5, <2>0, <2>1, <2>3, <2>4, <2>6, <3>1, SMT DEF Octet, LongFetched
  <2> QED BY <2>5, <2>6
<1>6. CASE l >= 1
  BY <1>2, <1>3, <1>4, <1>5, <1>6, LengthOctetsAre, Zenon
<1>7. l = 0 \/ l >= 1
  OBVIOUS
<1> QED BY <1>1, <1>6, <1>7, Zenon

(* Tags *)

\* The octet of a short tag.
TagOctet(t, constructed) == 64 * (t % 4) + (t \div 4) + IF constructed THEN 32 ELSE 0

(* What it gives back.                                                      *)
LEMMA TagOctetRead ==
  ASSUME NEW t \in ShortTag, NEW c \in BOOLEAN
  PROVE  /\ TagOctet(t, c) \in Octet
         /\ TagOctet(t, c) % 32 # 31
         /\ 4 * (TagOctet(t, c) % 32) + (TagOctet(t, c) \div 64) = t
         /\ ((TagOctet(t, c) \div 32) % 2 = 1) = c
<1>1. PICK r \in 0 .. 3, q \in 0 .. 30 : t = 4 * q + r
  BY DEF ShortTag
<1>2. t % 4 = r /\ t \div 4 = q
  BY <1>1, SMTT(30)
<1>3. CASE c = TRUE
  <2>1. TagOctet(t, c) = 64 * r + q + 32
    BY <1>2, <1>3 DEF TagOctet
  <2>2. /\ (64 * r + q + 32) % 32 = q /\ (64 * r + q + 32) \div 64 = r
        /\ (64 * r + q + 32) \div 32 = 2 * r + 1 /\ (2 * r + 1) % 2 = 1
    BY SMTT(30)
  <2>3. ((TagOctet(t, c) \div 32) % 2 = 1) = c
    BY <1>3, <2>1, <2>2
  <2> QED BY <1>1, <2>1, <2>2, <2>3 DEF Octet
<1>4. CASE c = FALSE
  <2>1. TagOctet(t, c) = 64 * r + q
    BY <1>2, <1>4 DEF TagOctet
  <2>2. /\ (64 * r + q) % 32 = q /\ (64 * r + q) \div 64 = r
        /\ (64 * r + q) \div 32 = 2 * r /\ (2 * r) % 2 = 0
    BY SMTT(30)
  <2>3. ((TagOctet(t, c) \div 32) % 2 = 1) = c
    BY <1>4, <2>1, <2>2
  <2> QED BY <1>1, <2>1, <2>2, <2>3 DEF Octet
<1> QED BY <1>3, <1>4

\* A tag and a length.
Header(t, constructed, n) == <<TagOctet(t, constructed)>> \o LengthOctets(n)

(* The octets of a length are octets.                                       *)
LEMMA LengthIsOctets ==
  ASSUME NEW n \in Lengths
  PROVE  LengthOctets(n) \in Seq(Octet) /\ \E m \in 1 .. 4 : Len(LengthOctets(n)) = m
<1>1. CASE n \in 0 .. 127 /\ LengthOctets(n) = <<n>>
  BY <1>1 DEF Octet
<1>2. CASE n \in 128 .. 255 /\ LengthOctets(n) = <<129, n>>
  BY <1>2 DEF Octet
<1>3. ASSUME NEW a, NEW b, TwoDigits(n, a, b), LengthOctets(n) = <<130, a, b>>
      PROVE  LengthOctets(n) \in Seq(Octet) /\ \E m \in 1 .. 4 : Len(LengthOctets(n)) = m
  <2>1. a \in Octet /\ b \in Octet /\ 130 \in Octet
    BY <1>3 DEF TwoDigits, Octet
  <2>2. <<130, a, b>> \in Seq(Octet) /\ Len(<<130, a, b>>) = 3 /\ 3 \in 1 .. 4
    BY <2>1
  <2> QED BY <1>3, <2>2
<1>4. ASSUME NEW a, NEW b, NEW d, ThreeDigits(n, a, b, d), LengthOctets(n) = <<131, a, b, d>>
      PROVE  LengthOctets(n) \in Seq(Octet) /\ \E m \in 1 .. 4 : Len(LengthOctets(n)) = m
  <2>1. a \in Octet /\ b \in Octet /\ d \in Octet /\ 131 \in Octet
    BY <1>4 DEF ThreeDigits, Octet
  <2>2. <<131, a, b, d>> \in Seq(Octet) /\ Len(<<131, a, b, d>>) = 4 /\ 4 \in 1 .. 4
    BY <2>1
  <2> QED BY <1>4, <2>2
<1> QED BY <1>1, <1>2, <1>3, <1>4, LengthOctetsAre, Zenon

(* The octets of a header.                                                  *)
LEMMA HeaderIs ==
  ASSUME NEW t \in ShortTag, NEW c \in BOOLEAN, NEW n \in Lengths
  PROVE  /\ Header(t, c, n) \in Seq(Octet)
         /\ \E m \in 2 .. 5 : Len(Header(t, c, n)) = m
         /\ Len(Header(t, c, n)) = Len(LengthOctets(n)) + 1
         /\ Header(t, c, n)[1] = TagOctet(t, c)
         /\ \A i \in 1 .. Len(LengthOctets(n)) : Header(t, c, n)[i + 1] = LengthOctets(n)[i]
<1> DEFINE x == TagOctet(t, c)
           l == LengthOctets(n)
           h == <<x>> \o l
<1>1. x \in Octet
  BY TagOctetRead
<1>2. l \in Seq(Octet) /\ \E m \in 1 .. 4 : Len(l) = m
  BY LengthIsOctets
<1> HIDE DEF x, l
<1>3. h \in Seq(Octet)
  BY <1>1, <1>2, InFront, Zenon
<1>4. Len(h) = Len(l) + 1
  BY <1>1, <1>2, InFront
<1>5. h[1] = x
  BY <1>1, <1>2, InFront
<1>6. \A i \in 1 .. Len(l) : h[i + 1] = l[i]
  BY <1>1, <1>2, InFront
<1> HIDE DEF h
<1>7. \E m \in 2 .. 5 : Len(h) = m
  BY <1>2, <1>4
<1> QED BY <1>3, <1>4, <1>5, <1>6, <1>7 DEF h, x, l, Header
(* One tag in front of contents.                                            *)
LEMMA OneTag ==
  ASSUME NEW t \in ShortTag, NEW c \in BOOLEAN, NEW n \in Lengths
  PROVE  WriteTags(<<t>>, n, c) = Header(t, c, n)
<1> DEFINE tags == <<t>>
           id == 64 * (t % 4) + (t \div 4)
           h == Header(t, c, n)
           bit(i) == IF c \/ i < Len(tags) THEN 32 ELSE 0
           at(f, i) == IF i > Len(tags) THEN <<>>
                       ELSE der_write_TL(tags[i], n + Len(f[i + 1]), c \/ i < Len(tags))
                              \o f[i + 1]
           written(f) == [i \in 1 .. Len(tags) + 1 |-> at(f, i)]
           g == [i \in 1 .. 2 |-> IF i = 1 THEN h ELSE <<>>]
<1>1. Len(tags) = 1 /\ tags[1] = t
  OBVIOUS
<1>2. t \div 4 <= 30 /\ id \in Int /\ n \in Nat
  BY DEF ShortTag, Lengths
<1>3. ber_tlv_tag_serialize(t) = <<id>>
  BY <1>2 DEF ber_tlv_tag_serialize
<1>4. der_tlv_length_serialize(n) = LengthOctets(n)
  BY LengthWritten
<1>5. h \o <<>> = h
  BY HeaderIs, ConcatEmptySeq
<1>6. TagOctet(t, c) = id + IF c THEN 32 ELSE 0
  BY DEF TagOctet
<1> HIDE DEF tags, id
<1>7. bit(1) = IF c THEN 32 ELSE 0
  BY <1>1
<1> HIDE DEF bit
<1>8. [<<id>> EXCEPT ![1] = @ + bit(1)] = <<TagOctet(t, c)>>
  BY <1>2, <1>6, <1>7
<1>9. <<TagOctet(t, c)>> \o LengthOctets(n) = h
  BY DEF Header
<1>10. n + Len(<<>>) = n
  BY <1>2
<1> HIDE DEF h
<1>11. ASSUME NEW i \in 1 .. 2, NEW f, f[2] = <<>>
       PROVE  at(f, i) = g[i]
  <2>1. CASE i = 1
    <3>1. tags[1] = t /\ f[i + 1] = <<>> /\ ~(i > Len(tags)) /\ g[i] = h /\ i = 1
      BY <1>1, <1>11, <2>1
    <3>2. at(f, 1) = ([ber_tlv_tag_serialize(tags[1]) EXCEPT ![1] = @ + bit(1)]
                        \o der_tlv_length_serialize(n + Len(f[i + 1]))) \o f[i + 1]
      BY <3>1, Zenon DEF der_write_TL, bit
    <3>3. at(f, 1) = (<<TagOctet(t, c)>> \o LengthOctets(n)) \o <<>>
      BY <1>3, <1>4, <1>8, <1>10, <3>1, <3>2, Zenon
    <3> QED BY <1>5, <1>9, <3>1, <3>3, Zenon
  <2>2. CASE i = 2
    BY <1>1, <2>2
  <2> QED BY <2>1, <2>2
<1> HIDE DEF at
<1>12. g = written(g)
  BY <1>1, <1>11
<1> DEFINE from == CHOOSE f : f = written(f)
<1>13. from = written(from)
  BY <1>12, Zenon
<1> HIDE DEF from
<1>14. from[2] = <<>>
  <2>1. at(from, 2) = <<>>
    BY <1>1 DEF at
  <2> QED BY <1>1, <1>13, <2>1
<1>15. from[1] = h
  BY <1>1, <1>11, <1>13, <1>14
<1> QED BY <1>15 DEF WriteTags, from, at, tags, h

\* The ways a value is tagged: with the type's own tag, with another one in
\* its place, or with one in front of a type that has none.
Tagged(td, tag_mode) ==
  \/ tag_mode \in {0, -1} /\ \E t \in ShortTag : td.tags = <<t>>
  \/ tag_mode = 1 /\ td.tags = <<>>

\* The tag a value is sent under.
SentTag(td, tag_mode, tag) == IF tag_mode = 0 THEN td.tags[1] ELSE tag

(* It is a short one, and der_write_tags writes no other.                   *)
LEMMA TagsWritten ==
  ASSUME NEW td, NEW tag_mode, Tagged(td, tag_mode), NEW tag \in ShortTag,
         NEW c \in BOOLEAN, NEW n \in Lengths
  PROVE  /\ SentTag(td, tag_mode, tag) \in ShortTag
         /\ der_write_tags(td, n, tag_mode, c, tag) = Header(SentTag(td, tag_mode, tag), c, n)
<1> DEFINE t == SentTag(td, tag_mode, tag)
           front == <<tag>> \o IF tag_mode = -1 /\ td.tags # <<>> THEN Tail(td.tags)
                                                                  ELSE td.tags
<1>1. <<tag>> \o <<>> = <<tag>>
  <2>1. <<tag>> \in Seq({tag})
    OBVIOUS
  <2> QED BY <2>1, ConcatEmptySeq
<1>2. t \in ShortTag /\ (IF tag_mode = 0 THEN td.tags ELSE front) = <<t>>
  <2>1. CASE tag_mode = 0
    BY <2>1 DEF Tagged, SentTag
  <2>2. CASE tag_mode = -1
    <3>1. PICK own \in ShortTag : td.tags = <<own>>
      BY <2>2 DEF Tagged
    <3>2. td.tags # <<>> /\ Tail(td.tags) = <<>>
      BY <3>1
    <3>3. tag_mode # 0 /\ t = tag
      BY <2>2 DEF SentTag
    <3> QED BY <1>1, <2>2, <3>2, <3>3, Zenon
  <2>3. CASE tag_mode = 1
    <3>1. td.tags = <<>> /\ tag_mode # 0 /\ tag_mode # -1 /\ t = tag
      BY <2>3 DEF Tagged, SentTag
    <3> QED BY <1>1, <3>1, Zenon
  <2> QED BY <2>1, <2>2, <2>3 DEF Tagged
<1> HIDE DEF t
<1>3. der_write_tags(td, n, tag_mode, c, tag) = WriteTags(<<t>>, n, c)
  BY <1>2, Zenon DEF der_write_tags
<1> QED BY <1>2, <1>3, OneTag DEF t

(* A header is read as its tag and its length, or more octets are asked for. *)
LEMMA HeaderFetched ==
  ASSUME NEW t \in ShortTag, NEW c \in BOOLEAN, NEW n \in Lengths,
         NEW buf \in Seq(Octet), Begins(buf, Header(t, c, n))
  PROVE  /\ Len(buf) = 0 => ber_fetch_tag(buf) = Fetched(0, 0)
         /\ Len(buf) # 0 =>
              /\ ber_fetch_tag(buf) = Fetched(1, t) /\ BER_TLV_CONSTRUCTED(buf) = c
              /\ LengthAfter(Fetched(1, t), buf) =
                   IF Len(buf) < Len(Header(t, c, n)) THEN Fetched(0, 0)
                   ELSE Fetched(Len(Header(t, c, n)) - 1, n)
<1> DEFINE h == Header(t, c, n)
<1>0. PICK l \in Nat : Len(buf) = l
  OBVIOUS
<1>1. PICK m \in 2 .. 5 : /\ Len(h) = m /\ Len(LengthOctets(n)) = m - 1
                          /\ h[1] = TagOctet(t, c)
                          /\ \A i \in 1 .. m - 1 : h[i + 1] = LengthOctets(n)[i]
  <2>1. PICK k \in 1 .. 4 : Len(LengthOctets(n)) = k
    BY LengthIsOctets
  <2>2. /\ Len(h) = k + 1 /\ h[1] = TagOctet(t, c)
        /\ \A i \in 1 .. k : h[i + 1] = LengthOctets(n)[i]
    BY <2>1, HeaderIs
  <2>3. k + 1 \in 2 .. 5 /\ (k + 1) - 1 = k
    OBVIOUS
  <2> HIDE DEF h
  <2> QED BY <2>1, <2>2, <2>3
<1> HIDE DEF h
<1>2. CASE l = 0
  <2>1. ber_fetch_tag(buf) = Fetched(0, 0)
    BY <1>0, <1>2 DEF ber_fetch_tag
  <2> QED BY <1>0, <1>1, <1>2, <2>1 DEF h
<1>3. CASE l > 0
  <2> DEFINE o == TagOctet(t, c)
             rest == Drop(buf, 1)
  <2>1. buf[1] = o
    BY <1>0, <1>1, <1>3 DEF Begins, h
  <2>2. o \in Octet /\ o % 32 # 31 /\ 4 * (o % 32) + (o \div 64) = t
        /\ ((o \div 32) % 2 = 1) = c
    BY TagOctetRead
  <2> HIDE DEF o
  <2>3. ber_fetch_tag(buf) = Fetched(1, t)
    BY <1>0, <1>3, <2>1, <2>2 DEF ber_fetch_tag
  <2>4. BER_TLV_CONSTRUCTED(buf) = c
    BY <2>1, <2>2 DEF BER_TLV_CONSTRUCTED
  <2>5. /\ rest \in Seq(Octet) /\ Len(rest) = l - 1
        /\ \A i \in 1 .. l - 1 : rest[i] = buf[i + 1]
    <3>1. \A i \in 2 .. l : buf[i] \in Octet
      BY <1>0
    <3>2. rest = SubSeq(buf, 2, l)
      BY <1>0 DEF Drop
    <3> HIDE DEF rest
    <3> QED BY <1>3, <3>1, <3>2, SubSeqProperties
  <2> HIDE DEF rest
  <2>6. Begins(rest, LengthOctets(n))
    <3>1. SUFFICES ASSUME NEW i \in 1 .. m - 1, i <= l - 1
                   PROVE  rest[i] = LengthOctets(n)[i]
      BY <1>1, <2>5 DEF Begins
    <3>2. i + 1 \in 1 .. m /\ i + 1 <= l
      BY <3>1
    <3>3. buf[i + 1] = h[i + 1]
      BY <1>0, <1>1, <3>2 DEF Begins, h
    <3> QED BY <1>1, <2>5, <3>1, <3>3
  <2>7. ber_fetch_length(c, rest) = IF l < m THEN Fetched(0, 0) ELSE Fetched(m - 1, n)
    <3>1. ber_fetch_length(c, rest) =
            IF Len(rest) < Len(LengthOctets(n)) THEN Fetched(0, 0)
            ELSE Fetched(Len(LengthOctets(n)), n)
      BY <2>5, <2>6, LengthRead
    <3> QED BY <1>1, <2>5, <3>1
  <2>8. LengthAfter(Fetched(1, t), buf) = IF l < m THEN Fetched(0, 0) ELSE Fetched(m - 1, n)
    BY <2>4, <2>7 DEF LengthAfter, Fetched, rest
  <2> QED BY <1>0, <1>1, <1>3, <2>3, <2>4, <2>8 DEF h
<1>4. l = 0 \/ l > 0
  OBVIOUS
<1> QED BY <1>2, <1>3, <1>4, Zenon

(* So ber_check_tags compares the tag and returns the length.               *)
LEMMA TagsChecked ==
  ASSUME NEW td, NEW tag_mode, NEW t \in ShortTag, tag_mode = 0 => t = td.tags[1],
         NEW c \in BOOLEAN, NEW n \in Lengths,
         NEW form, form = -1 \/ form = IF c THEN 1 ELSE 0,
         NEW buf \in Seq(Octet), Begins(buf, Header(t, c, n))
  PROVE  ber_check_tags(td, buf, tag_mode, form) =
           IF Len(buf) < Len(Header(t, c, n)) THEN More
           ELSE [code |-> "RC_OK", consumed |-> Len(Header(t, c, n)), length |-> n]
<1>0. PICK l \in Nat : Len(buf) = l
  OBVIOUS
<1>1. PICK m \in 2 .. 5 : Len(Header(t, c, n)) = m
  BY HeaderIs
<1>2. CASE l = 0
  <2>0. Len(buf) = 0
    BY <1>0, <1>2
  <2>1. ber_fetch_tag(buf) = Fetched(0, 0)
    BY <2>0 DEF ber_fetch_tag
  <2>2. ber_check_tags(td, buf, tag_mode, form) = More
    BY <2>1 DEF ber_check_tags, Fetched, FetchError
  <2> QED BY <1>0, <1>1, <1>2, <2>2
<1>3. CASE l # 0
  <2>1. /\ ber_fetch_tag(buf) = Fetched(1, t) /\ BER_TLV_CONSTRUCTED(buf) = c
        /\ LengthAfter(Fetched(1, t), buf) =
             IF l < m THEN Fetched(0, 0) ELSE Fetched(m - 1, n)
    BY <1>0, <1>1, <1>3, HeaderFetched
  <2>2. form = -1 \/ form = IF BER_TLV_CONSTRUCTED(buf) THEN 1 ELSE 0
    BY <2>1
  <2>3. CASE l < m
    <3>1. ber_check_tags(td, buf, tag_mode, form) = More
      BY <2>1, <2>2, <2>3 DEF ber_check_tags, Fetched, FetchError
    <3> QED BY <1>0, <1>1, <2>3, <3>1
  <2>4. CASE ~(l < m)
    <3>1. ~(m - 1 <= 0) /\ 1 + (m - 1) = m
      OBVIOUS
    <3>2. ber_check_tags(td, buf, tag_mode, form) =
            [code |-> "RC_OK", consumed |-> m, length |-> n]
      BY <2>1, <2>2, <2>4, <3>1 DEF ber_check_tags, Fetched
    <3> QED BY <1>0, <1>1, <2>4, <3>2
  <2> QED BY <2>3, <2>4
<1> QED BY <1>2, <1>3
-----------------------------------------------------------------------------
(* Contents under one tag *)

Encoding(t, constructed, body) == Header(t, constructed, Len(body)) \o body

\* What a decoder makes of a buffer that holds enc, or of a beginning of it.
Takes(returned, buf, enc, value) ==
  returned = IF Len(enc) <= Len(buf) THEN Ok(Len(enc), value) ELSE More

(* The octets of an encoding.                                               *)
LEMMA EncodingIs ==
  ASSUME NEW t \in ShortTag, NEW c \in BOOLEAN, NEW body \in Contents
  PROVE  \E n \in Lengths, h \in 2 .. 5 :
           /\ n \in Nat /\ Len(body) = n /\ Len(Header(t, c, n)) = h
           /\ Encoding(t, c, body) \in Seq(Octet)
           /\ Len(Encoding(t, c, body)) = h + n
           /\ \A i \in 1 .. h : Encoding(t, c, body)[i] = Header(t, c, n)[i]
           /\ \A i \in 1 .. n : Encoding(t, c, body)[h + i] = body[i]
<1>1. PICK n \in Lengths : Len(body) = n
  BY DEF Contents
<1>2. n \in Nat /\ body \in Seq(Octet)
  BY DEF Lengths, Contents
<1> DEFINE head == Header(t, c, n)
           enc == head \o body
<1>3. head \in Seq(Octet)
  BY HeaderIs
<1>4. PICK h \in 2 .. 5 : Len(head) = h
  BY HeaderIs
<1> HIDE DEF head
<1>5. /\ enc \in Seq(Octet) /\ Len(enc) = Len(head) + Len(body)
      /\ \A i \in 1 .. Len(head) + Len(body) :
           enc[i] = IF i <= Len(head) THEN head[i] ELSE body[i - Len(head)]
  BY <1>2, <1>3, ConcatProperties, Zenon
<1> HIDE DEF enc
<1>6. Len(enc) = h + n
  BY <1>1, <1>4, <1>5
<1>7. \A i \in 1 .. h : i \in 1 .. h + n /\ i <= h
  BY <1>2
<1>8. \A i \in 1 .. h : enc[i] = head[i]
  BY <1>1, <1>4, <1>5, <1>7
<1>9. \A i \in 1 .. n : h + i \in 1 .. h + n /\ ~(h + i <= h) /\ (h + i) - h = i
  BY <1>2
<1>10. \A i \in 1 .. n : enc[h + i] = body[i]
  BY <1>1, <1>4, <1>5, <1>9
<1>11. Encoding(t, c, body) = enc
  BY <1>1 DEF Encoding, enc, head
<1> QED BY <1>1, <1>2, <1>4, <1>5, <1>6, <1>8, <1>10, <1>11 DEF head

(* A buffer that holds an encoding, or a beginning of it, does of its       *)
(* header and, after that, of the contents.                                 *)
LEMMA EncodingBegins ==
  ASSUME NEW t \in ShortTag, NEW c \in BOOLEAN, NEW body \in Contents,
         NEW buf \in Seq(Octet), Begins(buf, Encoding(t, c, body))
  PROVE  \E n \in Lengths, h \in 2 .. 5 :
           /\ n \in Nat /\ Len(body) = n /\ Len(Header(t, c, n)) = h
           /\ Encoding(t, c, body) \in Seq(Octet)
           /\ Len(Encoding(t, c, body)) = h + n
           /\ Begins(buf, Header(t, c, n))
           /\ \A i \in 1 .. n : h + i <= Len(buf) => buf[h + i] = body[i]
<1> DEFINE enc == Encoding(t, c, body)
<1>1. PICK n \in Lengths, h \in 2 .. 5 :
        /\ n \in Nat /\ Len(body) = n /\ Len(Header(t, c, n)) = h
        /\ enc \in Seq(Octet) /\ Len(enc) = h + n
        /\ \A i \in 1 .. h : enc[i] = Header(t, c, n)[i]
        /\ \A i \in 1 .. n : enc[h + i] = body[i]
  BY EncodingIs
<1>2. \A i \in 1 .. h + n : i <= Len(buf) => buf[i] = enc[i]
  BY <1>1 DEF Begins
<1> HIDE DEF enc
<1>3. Begins(buf, Header(t, c, n))
  <2>1. \A i \in 1 .. h : i \in 1 .. h + n
    BY <1>1
  <2> QED BY <1>1, <1>2, <2>1 DEF Begins
<1>4. \A i \in 1 .. n : h + i <= Len(buf) => buf[h + i] = body[i]
  <2>1. \A i \in 1 .. n : h + i \in 1 .. h + n
    BY <1>1
  <2> QED BY <1>1, <1>2, <2>1
<1> QED BY <1>1, <1>3, <1>4 DEF enc

(* der_encode_primitive writes one.                                         *)
LEMMA PrimitiveWritten ==
  ASSUME NEW td, NEW tag_mode, Tagged(td, tag_mode), NEW tag \in ShortTag,
         NEW octets \in Contents
  PROVE  /\ SentTag(td, tag_mode, tag) \in ShortTag
         /\ der_encode_primitive(td, octets, tag_mode, tag)
              = Encoding(SentTag(td, tag_mode, tag), FALSE, octets)
<1>1. Len(octets) \in Lengths
  BY DEF Contents
<1> QED BY <1>1, TagsWritten DEF der_encode_primitive, Encoding

(* What was encoded is decoded, whatever follows, and the decoder stops     *)
(* where the encoding ends; of a beginning of it more octets are wanted.    *)
LEMMA PrimitiveRead ==
  ASSUME NEW td, NEW tag_mode, Tagged(td, tag_mode), NEW tag \in ShortTag,
         NEW octets \in Contents, NEW buf \in Seq(Octet),
         Begins(buf, der_encode_primitive(td, octets, tag_mode, tag))
  PROVE  Takes(ber_decode_primitive(td, buf, tag_mode), buf,
               der_encode_primitive(td, octets, tag_mode, tag), octets)
<1> DEFINE t == SentTag(td, tag_mode, tag)
           enc == Encoding(t, FALSE, octets)
<1>1. t \in ShortTag /\ der_encode_primitive(td, octets, tag_mode, tag) = enc
  BY PrimitiveWritten
<1>2. tag_mode = 0 => t = td.tags[1]
  BY DEF SentTag
<1>3. PICK l \in Nat : Len(buf) = l
  OBVIOUS
<1> HIDE DEF t
<1>4. PICK n \in Lengths, h \in 2 .. 5 :
        /\ n \in Nat /\ Len(octets) = n /\ Len(Header(t, FALSE, n)) = h
        /\ enc \in Seq(Octet)
        /\ Len(enc) = h + n
        /\ Begins(buf, Header(t, FALSE, n))
        /\ \A i \in 1 .. n : h + i <= Len(buf) => buf[h + i] = octets[i]
  <2> DEFINE no == FALSE
  <2>1. no \in BOOLEAN /\ Begins(buf, Encoding(t, no, octets))
    BY <1>1
  <2> HIDE DEF no
  <2>2. \E n \in Lengths, h \in 2 .. 5 :
          /\ n \in Nat /\ Len(octets) = n /\ Len(Header(t, no, n)) = h
          /\ Encoding(t, no, octets) \in Seq(Octet)
          /\ Len(Encoding(t, no, octets)) = h + n
          /\ Begins(buf, Header(t, no, n))
          /\ \A i \in 1 .. n : h + i <= Len(buf) => buf[h + i] = octets[i]
    BY <1>1, <2>1, EncodingBegins
  <2> QED BY <2>2 DEF no
<1> HIDE DEF enc
<1> DEFINE c == ber_check_tags(td, buf, tag_mode, 0)
<1>5. c = IF l < h THEN More ELSE [code |-> "RC_OK", consumed |-> h, length |-> n]
  <2> DEFINE no == FALSE
             form == 0
  <2>1. no \in BOOLEAN /\ no = FALSE /\ form = 0 /\ form = IF no THEN 1 ELSE 0
    OBVIOUS
  <2> HIDE DEF no, form
  <2>2. Begins(buf, Header(t, no, n))
    BY <1>4, <2>1
  <2>3. ber_check_tags(td, buf, tag_mode, form) =
          IF Len(buf) < Len(Header(t, no, n)) THEN More
          ELSE [code |-> "RC_OK", consumed |-> Len(Header(t, no, n)), length |-> n]
    BY <1>1, <1>2, <2>1, <2>2, TagsChecked
  <2> QED BY <1>3, <1>4, <2>1, <2>3
<1>6. ber_decode_primitive(td, buf, tag_mode) =
        IF c.code # "RC_OK" THEN c
        ELSE IF c.length > l - c.consumed THEN More
        ELSE Ok(c.consumed + c.length, SubSeq(buf, c.consumed + 1, c.consumed + c.length))
  BY <1>3, Zenon DEF ber_decode_primitive
<1> HIDE DEF c
<1>7. CASE l < h
  <2>1. c = More /\ More.code # "RC_OK"
    BY <1>5, <1>7 DEF More
  <2>2. ~(h + n <= l)
    BY <1>4, <1>7
  <2> QED BY <1>1, <1>3, <1>4, <1>6, <2>1, <2>2 DEF Takes
<1>8. CASE ~(l < h)
  <2>1. c.code = "RC_OK" /\ c.consumed = h /\ c.length = n
    BY <1>5, <1>8
  <2>2. CASE n > l - h
    <3>1. ~(h + n <= l)
      BY <1>4, <2>2
    <3>2. ber_decode_primitive(td, buf, tag_mode) = More
      BY <1>6, <2>1, <2>2
    <3> QED BY <1>1, <1>3, <1>4, <3>1, <3>2 DEF Takes
  <2>3. CASE ~(n > l - h)
    <3>1. h + n <= l
      BY <1>4, <2>3
    <3>2. ber_decode_primitive(td, buf, tag_mode) = Ok(h + n, SubSeq(buf, h + 1, h + n))
      BY <1>6, <2>1, <2>3
    <3>3. SubSeq(buf, h + 1, h + n) = octets
      <4>1. \A i \in h + 1 .. h + n : buf[i] \in Octet
        BY <1>3, <1>4, <3>1
      <4>2. h + 1 <= h + n + 1 /\ h + n - (h + 1) + 1 = n
        BY <1>4
      <4>3. /\ SubSeq(buf, h + 1, h + n) \in Seq(Octet)
            /\ Len(SubSeq(buf, h + 1, h + n)) = n
            /\ \A i \in 1 .. n : SubSeq(buf, h + 1, h + n)[i] = buf[h + 1 + i - 1]
        BY <1>4, <4>1, <4>2, SubSeqProperties
      <4>4. \A i \in 1 .. n : h + 1 + i - 1 = h + i /\ h + i <= l
        BY <1>4, <3>1
      <4>5. octets \in Seq(Octet)
        BY DEF Contents
      <4> QED BY <1>3, <1>4, <4>3, <4>4, <4>5, SeqEqual
    <3> QED BY <1>1, <1>3, <1>4, <3>1, <3>2, <3>3 DEF Takes
  <2> QED BY <2>2, <2>3
<1> QED BY <1>7, <1>8
-----------------------------------------------------------------------------
(* The octets of a number *)

\* The octet that repeats the sign of an octet before it.
Sign(octet) == IF octet >= 128 THEN 255 ELSE 0

\* Octet k is the first that Canonical keeps.
FirstKept(o, n, k) ==
  /\ k \in 1 .. n /\ ~Superfluous(o, k)
  /\ \A i \in 1 .. k - 1 : Superfluous(o, i)

(* There is one, and Canonical keeps the octets from there on.              *)
LEMMA CanonicalFirst ==
  ASSUME NEW o \in Seq(Octet), NEW n \in Nat \ {0}, Len(o) = n
  PROVE  /\ \E k \in 1 .. n : FirstKept(o, n, k)
         /\ \A k \in 1 .. n : FirstKept(o, n, k) => Canonical(o) = SubSeq(o, k, n)
<1> DEFINE kept == {i \in DOMAIN o : ~Superfluous(o, i)}
<1>1. DOMAIN o = 1 .. n /\ o # <<>>
  OBVIOUS
<1>2. kept \in SUBSET Nat
  BY <1>1
<1>3. \A i \in 1 .. n : i \in kept <=> ~Superfluous(o, i)
  BY <1>1
<1>4. n \in kept
  BY <1>3 DEF Superfluous
<1>5. kept \subseteq 1 .. n
  BY <1>1
<1> HIDE DEF kept
<1>6. PICK m \in kept : m = Min(kept) /\ \A y \in kept : m <= y
  BY <1>2, <1>4, MinIsLeast
<1>7. FirstKept(o, n, m)
  BY <1>3, <1>5, <1>6 DEF FirstKept
<1>8. ASSUME NEW k \in 1 .. n, FirstKept(o, n, k)
      PROVE  Canonical(o) = SubSeq(o, k, n)
  <2>1. k \in kept
    BY <1>3, <1>8 DEF FirstKept
  <2>2. ASSUME NEW y \in kept PROVE k <= y
    <3>1. y \in 1 .. n /\ ~Superfluous(o, y)
      BY <1>3, <1>5
    <3> QED BY <1>8, <3>1 DEF FirstKept
  <2>3. Min(kept) = k
    BY <1>2, <2>1, <2>2, MinIsUnique
  <2>4. Canonical(o) = SubSeq(o, (Min(kept) - 1) + 1, n)
    BY <1>1 DEF Canonical, Drop, kept
  <2>5. (k - 1) + 1 = k
    OBVIOUS
  <2> QED BY <2>3, <2>4, <2>5
<1> QED BY <1>5, <1>6, <1>7, <1>8

(* The octets in front of it all repeat its sign.                           *)
LEMMA DroppedSign ==
  ASSUME NEW o \in Seq(Octet), NEW n \in Nat, Len(o) = n,
         NEW k \in 1 .. n, FirstKept(o, n, k), NEW i \in 1 .. k - 1
  PROVE  o[i] = Sign(o[k])
<1> DEFINE S == {j \in 1 .. k - 1 : o[j] # Sign(o[k])}
           D == {k - j : j \in S}
<1> SUFFICES ASSUME i \in S PROVE FALSE
  OBVIOUS
<1>1. D \in SUBSET Nat /\ k - i \in D
  OBVIOUS
<1>2. PICK d \in D : \A y \in D : d <= y
  BY <1>1, MinIsLeast
<1>3. PICK j \in S : d = k - j
  OBVIOUS
<1>4. j \in 1 .. k - 1 /\ o[j] # Sign(o[k])
  OBVIOUS
<1>5. Superfluous(o, j)
  BY <1>4 DEF FirstKept
<1>6. j + 1 = k \/ o[j + 1] = Sign(o[k])
  <2>1. SUFFICES ASSUME j + 1 # k, o[j + 1] # Sign(o[k]) PROVE FALSE
    OBVIOUS
  <2>2. j + 1 \in 1 .. k - 1
    BY <1>4, <2>1
  <2>3. j + 1 \in S
    BY <2>1, <2>2
  <2>4. k - (j + 1) \in D
    BY <2>3
  <2>5. k - j <= k - (j + 1)
    BY <1>2, <1>3, <2>4
  <2> QED BY <1>4, <2>5
<1>7. \/ o[j] = 0 /\ o[j + 1] < 128
      \/ o[j] = 255 /\ o[j + 1] >= 128
  BY <1>5 DEF Superfluous
<1>8. o[k] \in Octet /\ o[j + 1] \in Octet
  <2>1. j + 1 \in 1 .. n /\ k \in 1 .. n
    BY <1>4
  <2> QED BY <2>1
<1> HIDE DEF S, D
<1>9. CASE j + 1 = k
  <2>1. \/ o[j] = 0 /\ o[k] < 128
        \/ o[j] = 255 /\ o[k] >= 128
    BY <1>7, <1>9, Zenon
  <2>2. o[k] \in Int
    BY <1>8, OctetIsInt
  <2> QED BY <1>4, <2>1, <2>2 DEF Sign
<1>10. CASE o[j + 1] = Sign(o[k])
  BY <1>4, <1>7, <1>8, <1>10 DEF Sign, Octet
<1> QED BY <1>6, <1>9, <1>10

(* The octets that Canonical keeps, and their number.                       *)
LEMMA KeptOctets ==
  ASSUME NEW o \in Seq(Octet), NEW n \in Nat, Len(o) = n, NEW k \in 1 .. n
  PROVE  /\ SubSeq(o, k, n) \in Seq(Octet) /\ Len(SubSeq(o, k, n)) = n - k + 1
         /\ \A i \in 1 .. n - k + 1 : SubSeq(o, k, n)[i] = o[i + k - 1]
<1>1. \A i \in k .. n : o[i] \in Octet
  OBVIOUS
<1>2. /\ SubSeq(o, k, n) \in Seq(Octet) /\ Len(SubSeq(o, k, n)) = n - k + 1
      /\ \A i \in 1 .. n - k + 1 : SubSeq(o, k, n)[i] = o[k + i - 1]
  BY <1>1, SubSeqProperties
<1>3. ASSUME NEW i \in 1 .. n - k + 1 PROVE k + i - 1 = i + k - 1
  OBVIOUS
<1> QED BY <1>2, <1>3

(* The contents octets that INTEGER_encode_der leaves are as few as can     *)
(* carry the sign, as the distinguished encoding asks.                      *)
THEOREM CanonicalIsShortest ==
  ASSUME NEW o \in Seq(Octet), o # <<>>
  PROVE  Canonical(o) = Shortest(o)
<1>1. PICK n \in Nat \ {0} : Len(o) = n
  OBVIOUS
<1>2. PICK k \in 1 .. n : FirstKept(o, n, k) /\ Canonical(o) = SubSeq(o, k, n)
  BY <1>1, CanonicalFirst
<1>3. \A i \in 1 .. n : o[i] \in Int
  BY <1>1, OctetIsInt
<1>4. \A i \in 1 .. k - 1 : o[i] = Sign(o[k])
  BY <1>1, <1>2, DroppedSign
<1> DEFINE sign == IF o[1] >= 128 THEN 255 ELSE 0
           c(m) == Drop(o, n - m)
           enough(m) == /\ (c(m)[1] >= 128) = (sign = 255)
                        /\ \A i \in 1 .. n - m : o[i] = sign
           S == {m \in 1 .. n : m = n \/ enough(m)}
           fewest == n - k + 1
<1>5. \A m \in 1 .. n : c(m)[1] = o[n - m + 1]
  <2>1. SUFFICES ASSUME NEW m \in 1 .. n PROVE c(m)[1] = o[n - m + 1]
    OBVIOUS
  <2>2. n - m + 1 \in 1 .. n /\ n - (n - m + 1) + 1 = m /\ 1 \in 1 .. m
    OBVIOUS
  <2>3. SubSeq(o, n - m + 1, n)[1] = o[1 + (n - m + 1) - 1]
    BY <1>1, <2>2, KeptOctets
  <2>4. 1 + (n - m + 1) - 1 = n - m + 1
    OBVIOUS
  <2> QED BY <1>1, <2>3, <2>4 DEF Drop
<1> HIDE DEF c, sign
<1>6. k > 1 => sign = Sign(o[k])
  <2>1. SUFFICES ASSUME k > 1 PROVE sign = Sign(o[k])
    OBVIOUS
  <2>2. 1 \in 1 .. k - 1
    BY <2>1
  <2>3. o[1] = Sign(o[k])
    BY <1>4, <2>2
  <2> QED BY <1>3, <2>3 DEF sign, Sign
<1>7. fewest \in S
  <2>1. CASE k = 1
    BY <2>1
  <2>2. CASE k > 1
    <3>1. fewest \in 1 .. n /\ n - fewest + 1 = k /\ n - fewest = k - 1
      OBVIOUS
    <3>2. c(fewest)[1] = o[k]
      BY <1>5, <3>1
    <3>3. (o[k] >= 128) = (sign = 255)
      BY <1>3, <1>6, <2>2 DEF Sign
    <3>4. \A i \in 1 .. n - fewest : o[i] = sign
      BY <1>4, <1>6, <2>2, <3>1
    <3> QED BY <3>1, <3>2, <3>3, <3>4
  <2> QED BY <2>1, <2>2
<1>8. ASSUME NEW m \in S PROVE fewest <= m
  <2> SUFFICES ASSUME m < fewest PROVE FALSE
    BY <1>8
  <2>1. m \in 1 .. n /\ m # n /\ k \in 1 .. n - m /\ k + 1 \in 1 .. n - m + 1 /\ k < n
    BY <1>8
  <2>2. /\ (c(m)[1] >= 128) = (sign = 255)
        /\ \A i \in 1 .. n - m : o[i] = sign
    BY <1>8, <2>1
  <2>3. o[k] = sign
    BY <2>1, <2>2
  <2>4. (o[k + 1] >= 128) = (sign = 255)
    <3>1. CASE k = n - m
      BY <1>5, <2>1, <2>2, <3>1
    <3>2. CASE k # n - m
      <4>1. k + 1 \in 1 .. n - m
        BY <2>1, <3>2
      <4>2. o[k + 1] = sign
        BY <2>2, <4>1
      <4> QED BY <4>2 DEF sign
    <3> QED BY <3>1, <3>2
  <2>5. sign = 255 \/ sign = 0
    BY DEF sign
  <2>6. o[k + 1] \in Int
    BY <1>3, <2>1
  <2>7. Superfluous(o, k)
    BY <1>1, <2>1, <2>3, <2>4, <2>5, <2>6 DEF Superfluous
  <2> QED BY <1>2, <2>7 DEF FirstKept
<1>9. Min(S) = fewest
  <2>1. S \in SUBSET Nat
    OBVIOUS
  <2> HIDE DEF S, fewest
  <2> QED BY <1>7, <1>8, <2>1, MinIsUnique
<1>10. Shortest(o) = Drop(o, n - Min(S))
  BY <1>1 DEF Shortest, c, sign
<1>11. Drop(o, n - fewest) = SubSeq(o, k, n)
  <2>1. (n - fewest) + 1 = k
    OBVIOUS
  <2> QED BY <1>1, <2>1 DEF Drop
<1> QED BY <1>2, <1>9, <1>10, <1>11

(* A number and what is left of it, by its length and its first octet.      *)
LEMMA CanonicalLength ==
  ASSUME NEW o \in Seq(Octet), NEW n \in Nat \ {0}, Len(o) = n
  PROVE  \E k \in 1 .. n :
           /\ FirstKept(o, n, k) /\ Canonical(o) = SubSeq(o, k, n)
           /\ Canonical(o) \in Seq(Octet) /\ Len(Canonical(o)) = n - k + 1
           /\ \A i \in 1 .. n - k + 1 : Canonical(o)[i] = o[i + k - 1]
<1>1. PICK k \in 1 .. n : FirstKept(o, n, k) /\ Canonical(o) = SubSeq(o, k, n)
  BY CanonicalFirst
<1> QED BY <1>1, KeptOctets

(* Putting the sign back in front restores the eight octets.                *)
LEMMA Extended ==
  ASSUME NEW v \in Seq(Octet), Len(v) = 8, NEW k \in 1 .. 8, NEW fill \in Octet,
         \A i \in 1 .. k - 1 : v[i] = fill
  PROVE  Extend(SubSeq(v, k, 8), fill) = v
<1> DEFINE tail == SubSeq(v, k, 8)
           front == [i \in 1 .. k - 1 |-> fill]
<1>1. /\ tail \in Seq(Octet) /\ Len(tail) = 9 - k
      /\ \A i \in 1 .. 9 - k : tail[i] = v[i + k - 1]
  <2>1. /\ tail \in Seq(Octet) /\ Len(tail) = 8 - k + 1
        /\ \A i \in 1 .. 8 - k + 1 : tail[i] = v[i + k - 1]
    BY KeptOctets
  <2>2. 8 - k + 1 = 9 - k
    OBVIOUS
  <2> QED BY <2>1, <2>2
<1> HIDE DEF tail
<1>2. 8 - Len(tail) = k - 1
  BY <1>1
<1>3. Extend(tail, fill) = front \o tail
  BY <1>2 DEF Extend
<1>4. front \in Seq(Octet) /\ Len(front) = k - 1 /\ \A i \in 1 .. k - 1 : front[i] = fill
  OBVIOUS
<1> HIDE DEF front
<1>5. /\ front \o tail \in Seq(Octet) /\ Len(front \o tail) = 8
      /\ \A i \in 1 .. 8 : (front \o tail)[i] = IF i <= k - 1 THEN front[i] ELSE tail[i - (k - 1)]
  <2>1. /\ front \o tail \in Seq(Octet) /\ Len(front \o tail) = Len(front) + Len(tail)
        /\ \A i \in 1 .. Len(front) + Len(tail) :
             (front \o tail)[i] = IF i <= Len(front) THEN front[i] ELSE tail[i - Len(front)]
    <3>1. front \in Seq(Octet) /\ tail \in Seq(Octet)
      BY <1>1, <1>4
    <3> QED BY <3>1, ConcatProperties, Zenon
  <2>2. Len(front) + Len(tail) = 8
    BY <1>1, <1>4
  <2> QED BY <1>4, <2>1, <2>2, Zenon
<1>6. ASSUME NEW i \in 1 .. 8 PROVE (front \o tail)[i] = v[i]
  <2>1. CASE i <= k - 1
    <3>1. i \in 1 .. k - 1
      BY <2>1
    <3>2. (front \o tail)[i] = front[i]
      BY <1>5, <2>1, Zenon
    <3> QED BY <1>4, <3>1, <3>2, Zenon
  <2>2. CASE ~(i <= k - 1)
    <3>1. i - (k - 1) \in 1 .. 9 - k /\ i - (k - 1) + k - 1 = i
      BY <2>2
    <3>2. tail[i - (k - 1)] = v[i]
      BY <1>1, <3>1
    <3> QED BY <1>5, <2>2, <3>2
  <2> QED BY <2>1, <2>2
<1> QED BY <1>3, <1>5, <1>6, SeqEqual DEF tail

(* Of the octets of a long, some are left.                                  *)
LEMMA EightKept ==
  ASSUME NEW v \in Seq(Octet), Len(v) = 8
  PROVE  \E k \in 1 .. 8 :
           Canonical(v) \in Seq(Octet) /\ Len(Canonical(v)) = 8 - k + 1
<1>1. 8 \in Nat \ {0}
  OBVIOUS
<1>2. PICK k \in 1 .. 8 :
        /\ FirstKept(v, 8, k) /\ Canonical(v) = SubSeq(v, k, 8)
        /\ Canonical(v) \in Seq(Octet) /\ Len(Canonical(v)) = 8 - k + 1
        /\ \A i \in 1 .. 8 - k + 1 : Canonical(v)[i] = v[i + k - 1]
  BY <1>1, CanonicalLength
<1> QED BY <1>2

(* The octets of a long are not too many for a length.                      *)
LEMMA EightOctets ==
  ASSUME NEW v \in Seq(Octet), Len(v) = 8
  PROVE  v \in Contents /\ v # <<>>
<1>1. 8 \in Lengths
  BY SMT DEF Lengths
<1>2. 8 # 0 /\ Len(<<>>) = 0
  OBVIOUS
<1> QED BY <1>1, <1>2, Zenon DEF Contents

(* What was encoded is never taken for a failed conversion.                 *)
LEMMA NotFailed ==
  ASSUME NEW v, Len(v) = 8
  PROVE  v # FAILED
BY DEF FAILED

(* What asn_INTEGER2long makes of the canonical octets of a long.           *)
LEMMA SignedBack ==
  ASSUME NEW v \in Seq(Octet), Len(v) = 8
  PROVE  asn_INTEGER2long(Canonical(v)) = v
<1>1. 8 \in Nat \ {0}
  OBVIOUS
<1>2. PICK k \in 1 .. 8 :
        /\ FirstKept(v, 8, k) /\ Canonical(v) = SubSeq(v, k, 8)
        /\ Canonical(v) \in Seq(Octet) /\ Len(Canonical(v)) = 8 - k + 1
        /\ \A i \in 1 .. 8 - k + 1 : Canonical(v)[i] = v[i + k - 1]
  BY <1>1, CanonicalLength
<1>3. \A i \in 1 .. k - 1 : v[i] = Sign(v[k])
  BY <1>2, DroppedSign
<1>4. v[k] \in Octet /\ Sign(v[k]) \in Octet
  <2>1. v[k] \in Octet
    <3>1. k \in 1 .. Len(v)
      OBVIOUS
    <3> QED BY <3>1, ElementOfSeq
  <2> QED BY <2>1 DEF Sign, Octet
<1>5. Extend(SubSeq(v, k, 8), Sign(v[k])) = v
  BY <1>3, <1>4, Extended
<1>6. Canonical(v) # <<>> /\ ~(Len(Canonical(v)) > 8)
  <2>1. 8 - k + 1 >= 1 /\ 8 - k + 1 <= 8 /\ 8 - k + 1 # 0
    OBVIOUS
  <2>2. PICK m \in 1 .. 8 : Len(Canonical(v)) = m
    BY <1>2, <2>1
  <2>3. Len(<<>>) = 0 /\ m # 0 /\ ~(m > 8)
    OBVIOUS
  <2> QED BY <2>2, <2>3, Zenon
<1>7. Canonical(v)[1] = v[k]
  <2>1. 1 \in 1 .. 8 - k + 1 /\ 1 + k - 1 = k
    OBVIOUS
  <2> QED BY <1>2, <2>1
<1> DEFINE o == Canonical(v)
<1>8. asn_INTEGER2long(o) = Extend(o, IF o # <<>> /\ o[1] >= 128 THEN 255 ELSE 0)
  <2> HIDE DEF o
  <2> QED BY <1>6 DEF asn_INTEGER2long, o
<1>9. (IF o # <<>> /\ o[1] >= 128 THEN 255 ELSE 0) = Sign(v[k])
  BY <1>6, <1>7 DEF Sign
<1> QED BY <1>2, <1>5, <1>8, <1>9

(* Zeros in front of fewer octets make eight.                               *)
LEMMA ZeroExtended ==
  ASSUME NEW o \in Seq(Octet), NEW k \in 1 .. 8, Len(o) = 8 - k + 1
  PROVE  /\ Len(Extend(o, 0)) = 8
         /\ \A i \in 1 .. k - 1 : Extend(o, 0)[i] = 0
<1> DEFINE front == [i \in 1 .. k - 1 |-> 0]
<1>1. 8 - Len(o) = k - 1
  OBVIOUS
<1>2. Extend(o, 0) = front \o o
  BY <1>1 DEF Extend
<1>3. 0 \in Octet
  BY DEF Octet
<1>4. front \in Seq(Octet) /\ Len(front) = k - 1 /\ \A i \in 1 .. k - 1 : front[i] = 0
  BY <1>3
<1> HIDE DEF front
<1>5. /\ Len(front \o o) = Len(front) + Len(o)
      /\ \A i \in 1 .. Len(front) + Len(o) :
           (front \o o)[i] = IF i <= Len(front) THEN front[i] ELSE o[i - Len(front)]
  BY <1>4, ConcatProperties, Zenon
<1>6. Len(front) + Len(o) = 8
  BY <1>4
<1>7. \A i \in 1 .. k - 1 : i \in 1 .. 8 /\ i <= k - 1
  OBVIOUS
<1> QED BY <1>2, <1>4, <1>5, <1>6, <1>7, Zenon

(* What asn_INTEGER2ulong makes of them: the octets that were dropped come  *)
(* back as zeros.                                                           *)
LEMMA UnsignedBack ==
  ASSUME NEW v \in Seq(Octet), Len(v) = 8
  PROVE  asn_INTEGER2ulong(Canonical(v)) = Extend(Canonical(v), 0)
<1>1. 8 \in Nat \ {0}
  OBVIOUS
<1>2. PICK k \in 1 .. 8 : Len(Canonical(v)) = 8 - k + 1
  BY <1>1, CanonicalLength
<1>3. ~(Len(Canonical(v)) > 8) /\ ~\E i \in 1 .. Len(Canonical(v)) - 8 : Canonical(v)[i] # 0
  BY <1>2
<1> QED BY <1>3 DEF asn_INTEGER2ulong

(* Nothing is lost unless the leading ones of a negative number are dropped. *)
LEMMA UnsignedKept ==
  ASSUME NEW v \in Seq(Octet), Len(v) = 8, ~(v[1] = 255 /\ v[2] >= 128)
  PROVE  Extend(Canonical(v), 0) = v
<1>1. 8 \in Nat \ {0}
  OBVIOUS
<1>2. PICK k \in 1 .. 8 : FirstKept(v, 8, k) /\ Canonical(v) = SubSeq(v, k, 8)
  BY <1>1, CanonicalLength
<1>3. \A i \in 1 .. k - 1 : v[i] = Sign(v[k])
  BY <1>2, DroppedSign
<1>4. \A i \in 1 .. k - 1 : v[i] = 0
  <2>1. SUFFICES ASSUME NEW i \in 1 .. k - 1 PROVE v[i] = 0
    OBVIOUS
  <2>2. 1 \in 1 .. k - 1
    BY <2>1
  <2>3. Superfluous(v, 1)
    BY <1>2, <2>2 DEF FirstKept
  <2>4. v[1] = 0
    BY <2>3 DEF Superfluous
  <2> QED BY <1>3, <2>1, <2>2, <2>4
<1>5. 0 \in Octet
  BY DEF Octet
<1> QED BY <1>2, <1>4, <1>5, Extended
-----------------------------------------------------------------------------
(* Encoding and decoding *)

(* Canonical makes nothing longer.                                          *)
LEMMA CanonicalContents ==
  ASSUME NEW o \in Contents, o # <<>>
  PROVE  Canonical(o) \in Contents
<1>1. PICK n \in Lengths : Len(o) = n
  BY DEF Contents
<1>2. o \in Seq(Octet) /\ n \in Nat /\ (n \div 256) \div 256 <= 255
  BY DEF Lengths, Contents
<1>3. n # 0
  BY <1>1, <1>2
<1>4. PICK k \in 1 .. n :
        Canonical(o) \in Seq(Octet) /\ Len(Canonical(o)) = n - k + 1
  BY <1>1, <1>2, <1>3, CanonicalLength
<1>5. n - k + 1 \in Lengths
  BY <1>2, SMT DEF Lengths
<1> QED BY <1>4, <1>5 DEF Contents

(* An INTEGER of any octets is sent as its canonical octets and read back as *)
(* them.                                                                    *)
LEMMA IntegerRead ==
  ASSUME NEW td, NEW tag_mode, Tagged(td, tag_mode), NEW tag \in ShortTag,
         NEW o \in Contents, o # <<>>, NEW buf \in Seq(Octet),
         Begins(buf, INTEGER_encode_der(td, o, tag_mode, tag))
  PROVE  Takes(ber_decode_primitive(td, buf, tag_mode), buf,
               INTEGER_encode_der(td, o, tag_mode, tag), Canonical(o))
<1>1. Canonical(o) \in Contents
  BY CanonicalContents
<1> QED BY <1>1, PrimitiveRead DEF INTEGER_encode_der

(* An INTEGER is read back with the fewest octets that carry its sign,      *)
(* whatever follows it in the buffer; of a beginning of it more is wanted.  *)
THEOREM INTEGERRoundTrip ==
  ASSUME NEW td, NEW tag_mode, Tagged(td, tag_mode), NEW tag \in ShortTag,
         NEW o \in Contents, o # <<>>, NEW buf \in Seq(Octet),
         Begins(buf, INTEGER_encode_der(td, o, tag_mode, tag))
  PROVE  Takes(INTEGER_decode_ber(td, buf, tag_mode), buf,
               INTEGER_encode_der(td, o, tag_mode, tag), Shortest(o))
<1>1. Canonical(o) = Shortest(o)
  BY CanonicalIsShortest DEF Contents
<1> QED BY <1>1, IntegerRead DEF INTEGER_decode_ber

(* Every value of a signed long is read back, whatever follows it in the    *)
(* buffer; of a beginning of it more is wanted.                             *)
THEOREM NativeIntegerRoundTrip ==
  ASSUME NEW td, NEW tag_mode, Tagged(td, tag_mode), ~td.field_unsigned,
         NEW tag \in ShortTag, NEW v \in Seq(Octet), Len(v) = 8,
         NEW buf \in Seq(Octet),
         Begins(buf, NativeInteger_encode_der(td, v, tag_mode, tag))
  PROVE  Takes(NativeInteger_decode_ber(td, buf, tag_mode), buf,
               NativeInteger_encode_der(td, v, tag_mode, tag), v)
<1> DEFINE enc == INTEGER_encode_der(td, v, tag_mode, tag)
           whole == Len(enc) <= Len(buf)
           used == Len(enc)
<1>1. ber_decode_primitive(td, buf, tag_mode) =
        IF whole THEN Ok(used, Canonical(v)) ELSE More
  BY EightOctets, IntegerRead DEF NativeInteger_encode_der, Takes
<1>2. asn_INTEGER2long(Canonical(v)) = v /\ v # FAILED
  BY SignedBack, NotFailed
<1> HIDE DEF enc, whole, used
<1>3. NativeInteger_decode_ber(td, buf, tag_mode) = IF whole THEN Ok(used, v) ELSE More
  BY <1>1, <1>2 DEF NativeInteger_decode_ber, Converted, Ok, More
<1> QED BY <1>3 DEF NativeInteger_encode_der, Takes, enc, whole, used

(* An unsigned long is read back with zeros for the octets that were        *)
(* dropped: as it was, unless leading ones of a negative number were.       *)
THEOREM NativeUnsignedRoundTrip ==
  ASSUME NEW td, NEW tag_mode, Tagged(td, tag_mode), td.field_unsigned,
         NEW tag \in ShortTag, NEW v \in Seq(Octet), Len(v) = 8,
         NEW buf \in Seq(Octet),
         Begins(buf, NativeInteger_encode_der(td, v, tag_mode, tag))
  PROVE  /\ Takes(NativeInteger_decode_ber(td, buf, tag_mode), buf,
                  NativeInteger_encode_der(td, v, tag_mode, tag), Extend(Canonical(v), 0))
         /\ ~(v[1] = 255 /\ v[2] >= 128) => Extend(Canonical(v), 0) = v
<1> DEFINE enc == INTEGER_encode_der(td, v, tag_mode, tag)
           whole == Len(enc) <= Len(buf)
           used == Len(enc)
           zeros == Extend(Canonical(v), 0)
<1>1. ber_decode_primitive(td, buf, tag_mode) =
        IF whole THEN Ok(used, Canonical(v)) ELSE More
  BY EightOctets, IntegerRead DEF NativeInteger_encode_der, Takes
<1>2. asn_INTEGER2ulong(Canonical(v)) = zeros
  BY UnsignedBack
<1>3. zeros # FAILED
  <2>1. PICK k \in 1 .. 8 :
          Canonical(v) \in Seq(Octet) /\ Len(Canonical(v)) = 8 - k + 1
    BY EightKept, Zenon
  <2> QED BY <2>1, ZeroExtended, NotFailed
<1>4. ~(v[1] = 255 /\ v[2] >= 128) => zeros = v
  BY UnsignedKept
<1> HIDE DEF enc, whole, used, zeros
<1>5. NativeInteger_decode_ber(td, buf, tag_mode) = IF whole THEN Ok(used, zeros) ELSE More
  BY <1>1, <1>2, <1>3 DEF NativeInteger_decode_ber, Converted, Ok, More
<1> QED BY <1>4, <1>5 DEF NativeInteger_encode_der, Takes, enc, whole, used, zeros

(* A BOOLEAN is read back as 0 or as the octet that DER has for TRUE,       *)
(* whatever follows it in the buffer; of a beginning of it more is wanted.  *)
THEOREM BOOLEANRoundTrip ==
  ASSUME NEW td, NEW tag_mode, Tagged(td, tag_mode), NEW tag \in ShortTag,
         NEW st \in Octet, NEW buf \in Seq(Octet),
         Begins(buf, BOOLEAN_encode_der(td, st, tag_mode, tag))
  PROVE  Takes(BOOLEAN_decode_ber(td, buf, tag_mode), buf,
               BOOLEAN_encode_der(td, st, tag_mode, tag), IF st = 0 THEN 0 ELSE 255)
<1> DEFINE octet == IF st # 0 THEN 255 ELSE 0
           set == {i \in DOMAIN <<octet>> : <<octet>>[i] # 0}
           enc == BOOLEAN_encode_der(td, st, tag_mode, tag)
           whole == Len(enc) <= Len(buf)
           used == Len(enc)
<1>1. octet \in Octet /\ octet = IF st = 0 THEN 0 ELSE 255
  BY DEF Octet
<1> HIDE DEF octet
<1>2. <<octet>> \in Contents
  <2>1. 1 \in Lengths
    BY SMT DEF Lengths
  <2> QED BY <1>1, <2>1 DEF Contents
<1>3. enc = der_encode_primitive(td, <<octet>>, tag_mode, tag)
  BY DEF BOOLEAN_encode_der, octet
<1>4. ber_decode_primitive(td, buf, tag_mode) =
        IF whole THEN Ok(used, <<octet>>) ELSE More
  BY <1>2, <1>3, PrimitiveRead DEF Takes
<1>5. FirstSet(<<octet>>) = octet
  <2>1. CASE octet = 0
    <3>1. set = {}
      BY <2>1
    <3> QED BY <2>1, <3>1 DEF FirstSet
  <2>2. CASE octet # 0
    <3>1. set = {1}
      BY <2>2
    <3>2. Min({1}) = 1
      BY MinIsUnique
    <3> HIDE DEF set
    <3>3. FirstSet(<<octet>>) = <<octet>>[Min(set)]
      BY <3>1 DEF FirstSet, set
    <3> QED BY <3>1, <3>2, <3>3
  <2> QED BY <2>1, <2>2
<1> HIDE DEF enc, whole, used
<1>6. BOOLEAN_decode_ber(td, buf, tag_mode) = IF whole THEN Ok(used, octet) ELSE More
  BY <1>4, <1>5 DEF BOOLEAN_decode_ber, Ok, More
<1> QED BY <1>1, <1>6 DEF Takes, enc, whole, used
===============================================================================
