----------------------------- MODULE DENProofs -----------------------------
(***************************************************************************)
(* Proofs about DENBasicService, for any number of threads and calls, any  *)
(* event types and any garbage behind them, and every station id below     *)
(* 0xFF800000.  That the codec copies these ids is proved, too.            *)
(***************************************************************************)
EXTENDS DENBasicService, AsnPrimitivesProofs, TLAPS

\* The steps of createDENM after "Assign unused action id".
Numbered == {"build", "send", "insert"}

\* Every message that createDENM can build.
DENMs == UNION {UNION {Messages(id, e) : e \in EventTypes} : id \in ActionIds}

\* The message of a call is the one of its action id.
Built ==
  \A t \in Threads :
    /\ pc[t] \in Numbered => actionId[t] \in ActionIds
    /\ pc[t] \in {"send", "insert"} =>
         \E e \in EventTypes : denm[t] \in Messages(actionId[t], e)

\* Numbers are handed out once: they are below the next one, no two calls have
\* the same, and a call that has not yet sent finds its number unused.
NumbersOnce ==
  /\ \A i \in DOMAIN sent : sent[i].sequenceNumber < nextSequenceNr
  /\ \A i, j \in DOMAIN sent : sent[i].sequenceNumber = sent[j].sequenceNumber => i = j
  /\ \A t \in Threads : pc[t] \in Numbered =>
       /\ actionId[t].sequenceNumber < nextSequenceNr
       /\ \A u \in Threads \ {t} : pc[u] \in Numbered =>
            actionId[u].sequenceNumber # actionId[t].sequenceNumber
       /\ pc[t] # "insert" => \A i \in DOMAIN sent :
            sent[i].sequenceNumber # actionId[t].sequenceNumber

\* What is stored is what receivers decode of something sent, and a call that
\* is about to store has sent its message.
SentFirst ==
  /\ StoredWasSent
  /\ \A t \in Threads : pc[t] = "insert" => \E i \in DOMAIN sent : sent[i] = denm[t]

DENInv ==
  /\ TypeOK /\ sent \in Seq(DENMs) /\ denm \in [Threads -> DENMs \cup {NoDENM}]
  /\ Built /\ NumbersOnce /\ SentFirst /\ ReturnedIsStored

(* The message carries the number of its action id, and its station id as   *)
(* DENMWrapper's int widens it.                                             *)
LEMMA MessageFields ==
  ASSUME NEW id \in ActionIds, NEW e \in EventTypes, NEW m \in Messages(id, e)
  PROVE  /\ m \in DENMs
         /\ m.sequenceNumber = id.sequenceNumber /\ m.stationID = Widen(id.stationID)
<1>1. m \in DENMs
  BY DEF DENMs
<1>2. PICK c : m = [stationID |-> Widen(id.stationID),
                    sequenceNumber |-> id.sequenceNumber, cause |-> c]
  BY DEF Messages
<1> QED BY <1>1, <1>2

(* The type of the station id: an unsigned integer under a short tag.       *)
LEMMA StationIDType ==
  /\ Tagged(StationID, -1) /\ StationID.field_unsigned
  /\ CONTEXT(0) \in ShortTag
<1>1. StationID.tags = <<8>> /\ StationID.field_unsigned
  BY DEF StationID, NativeUnsigned, UNIVERSAL
<1>2. 8 \in ShortTag /\ CONTEXT(0) \in ShortTag
  BY DEF ShortTag, CONTEXT
<1> QED BY <1>1, <1>2 DEF Tagged

\* What a receiver decodes of the octets of an unsigned long.
Received(long) ==
  NativeInteger_decode_ber(
    StationID, NativeInteger_encode_der(StationID, long, -1, CONTEXT(0)), -1).value

(* It has zeros for the octets that the encoding drops.                     *)
LEMMA ReceivedOctets ==
  ASSUME NEW v \in Seq(Octet), Len(v) = 8
  PROVE  Received(v) = Extend(Canonical(v), 0)
<1> DEFINE td == StationID
           mode == -1
           tag == CONTEXT(0)
           enc == NativeInteger_encode_der(td, v, mode, tag)
<1>1. Tagged(td, mode) /\ td.field_unsigned /\ tag \in ShortTag
  BY StationIDType
<1> HIDE DEF td, mode, tag
<1>2. enc \in Seq(Octet)
  <2>1. v \in Contents /\ v # <<>> /\ Canonical(v) \in Contents
    BY EightOctets, CanonicalContents
  <2>2. /\ SentTag(td, mode, tag) \in ShortTag
        /\ enc = Encoding(SentTag(td, mode, tag), FALSE, Canonical(v))
    BY <1>1, <2>1, PrimitiveWritten DEF NativeInteger_encode_der, INTEGER_encode_der
  <2> HIDE DEF enc
  <2>3. ASSUME NEW no \in BOOLEAN
        PROVE  Encoding(SentTag(td, mode, tag), no, Canonical(v)) \in Seq(Octet)
    BY <2>1, <2>2, EncodingIs
  <2> QED BY <2>2, <2>3
<1>3. Takes(NativeInteger_decode_ber(td, enc, mode), enc, enc, Extend(Canonical(v), 0))
  <2>1. Begins(enc, enc)
    BY DEF Begins
  <2> QED BY <1>1, <1>2, <2>1, NativeUnsignedRoundTrip
<1>4. Received(v) = NativeInteger_decode_ber(td, enc, mode).value
  BY DEF Received, td, mode, tag
<1> HIDE DEF enc
<1>5. Len(enc) <= Len(enc)
  BY <1>2
<1> QED BY <1>3, <1>4, <1>5 DEF Takes, Ok

(* The octets of a station id, sign extended or not.                        *)
LEMMA StationIDOctets ==
  ASSUME NEW id \in [1 .. 4 -> Octet]
  PROVE  /\ Widen(id) \in Seq(Octet) /\ Len(Widen(id)) = 8
         /\ Plain(id) \in Seq(Octet) /\ Len(Plain(id)) = 8
         /\ \A i \in 1 .. 4 : /\ Widen(id)[i] = IF id[1] >= 128 THEN 255 ELSE 0
                              /\ Plain(id)[i] = 0
                              /\ Widen(id)[i + 4] = id[i] /\ Plain(id)[i + 4] = id[i]
<1>1. 0 \in Octet /\ 255 \in Octet
  BY DEF Octet
<1>2. id \in Seq(Octet) /\ Len(id) = 4
  <2>1. \A i \in 1 .. 4 : id[i] \in Octet
    OBVIOUS
  <2>2. id = [i \in 1 .. 4 |-> id[i]]
    OBVIOUS
  <2> QED BY <2>1, <2>2
<1> DEFINE ones == [i \in 1 .. 4 |-> IF id[1] >= 128 THEN 255 ELSE 0]
<1>3. /\ ones \in Seq(Octet) /\ Len(ones) = 4
      /\ \A i \in 1 .. 4 : ones[i] = IF id[1] >= 128 THEN 255 ELSE 0
  BY <1>1
<1> DEFINE zeros == <<0, 0, 0, 0>>
<1>4. zeros \in Seq(Octet) /\ Len(zeros) = 4 /\ \A i \in 1 .. 4 : zeros[i] = 0
  BY <1>1
<1> HIDE DEF ones, zeros
<1>5. ASSUME NEW front \in Seq(Octet), Len(front) = 4
      PROVE  /\ front \o id \in Seq(Octet) /\ Len(front \o id) = 8
             /\ \A i \in 1 .. 4 : (front \o id)[i] = front[i] /\ (front \o id)[i + 4] = id[i]
  <2>1. /\ front \o id \in Seq(Octet) /\ Len(front \o id) = Len(front) + Len(id)
        /\ \A i \in 1 .. Len(front) + Len(id) :
             (front \o id)[i] = IF i <= Len(front) THEN front[i] ELSE id[i - Len(front)]
    BY <1>2, ConcatProperties, Zenon
  <2>2. /\ Len(front \o id) = 8
        /\ \A i \in 1 .. 8 : (front \o id)[i] = IF i <= 4 THEN front[i] ELSE id[i - 4]
    BY <1>2, <1>5, <2>1
  <2>3. \A i \in 1 .. 4 : i \in 1 .. 8 /\ i <= 4 /\ i + 4 \in 1 .. 8 /\ ~(i + 4 <= 4) /\ i + 4 - 4 = i
    OBVIOUS
  <2>4. ASSUME NEW i \in 1 .. 4
        PROVE  (front \o id)[i] = front[i] /\ (front \o id)[i + 4] = id[i]
    <3>1. i \in 1 .. 8 /\ i <= 4 /\ i + 4 \in 1 .. 8 /\ ~(i + 4 <= 4) /\ i + 4 - 4 = i
      BY <2>3, Zenon
    <3>2. (front \o id)[i] = front[i]
      BY <2>2, <3>1, Zenon
    <3>3. (front \o id)[i + 4] = id[i + 4 - 4]
      <4> DEFINE j == i + 4
      <4>1. j \in 1 .. 8 /\ ~(j <= 4)
        BY <3>1
      <4> HIDE DEF j
      <4>2. (front \o id)[j] = id[j - 4]
        BY <2>2, <4>1, Zenon
      <4> QED BY <4>2 DEF j
    <3> QED BY <3>1, <3>2, <3>3, Zenon
  <2> QED BY <2>1, <2>2, <2>4, Zenon
<1>6. Widen(id) = ones \o id /\ Plain(id) = zeros \o id
  BY DEF Widen, Plain, ones, zeros
<1> QED BY <1>3, <1>4, <1>5, <1>6

(* A station id that DENMWrapper widened comes back from the codec if and   *)
(* only if it is below 0xFF800000; the plain octets always do.  So          *)
(* StationIDsAssumption excludes no id that could be allowed.               *)
THEOREM StationIDReceived ==
  ASSUME NEW id \in [1 .. 4 -> Octet]
  PROVE  /\ Received(Plain(id)) = Plain(id)
         /\ Received(Widen(id)) = Plain(id) <=> ~(id[1] = 255 /\ id[2] >= 128)
<1> DEFINE wide == Widen(id)
           plain == Plain(id)
<1>1. /\ wide \in Seq(Octet) /\ Len(wide) = 8 /\ plain \in Seq(Octet) /\ Len(plain) = 8
      /\ \A i \in 1 .. 4 : /\ wide[i] = IF id[1] >= 128 THEN 255 ELSE 0
                           /\ plain[i] = 0
                           /\ wide[i + 4] = id[i] /\ plain[i + 4] = id[i]
  BY StationIDOctets
<1> HIDE DEF wide, plain
<1>2. Received(wide) = Extend(Canonical(wide), 0) /\ Received(plain) = Extend(Canonical(plain), 0)
  BY <1>1, ReceivedOctets
<1>3. Received(plain) = plain
  <2>1. ~(plain[1] = 255 /\ plain[2] >= 128)
    BY <1>1
  <2> QED BY <1>1, <1>2, <2>1, UnsignedKept
<1>4. \A i \in 1 .. 4 : id[i] \in Int /\ 0 <= id[i] /\ id[i] <= 255
  BY OctetIsInt
<1>5. /\ wide[1] = wide[2] /\ wide[2] = wide[3] /\ wide[3] = wide[4]
      /\ wide[4] = IF id[1] >= 128 THEN 255 ELSE 0
      /\ wide[5] = id[1] /\ wide[6] = id[2] /\ plain[5] = id[1]
  <2>1. 1 \in 1 .. 4 /\ 2 \in 1 .. 4 /\ 3 \in 1 .. 4 /\ 4 \in 1 .. 4
        /\ 1 + 4 = 5 /\ 2 + 4 = 6
    OBVIOUS
  <2> QED BY <1>1, <1>4, <2>1
<1>6. CASE id[1] < 128
  <2>1. \A i \in 1 .. 8 : wide[i] = plain[i]
    <3>1. \A i \in 1 .. 8 : i \in 1 .. 4 \/ (i - 4 \in 1 .. 4 /\ i = (i - 4) + 4)
      OBVIOUS
    <3> SUFFICES ASSUME NEW i \in 1 .. 8 PROVE wide[i] = plain[i]
      OBVIOUS
    <3>2. CASE i \in 1 .. 4
      <4>1. ~(id[1] >= 128)
        BY <1>4, <1>6
      <4> QED BY <1>1, <3>2, <4>1, Zenon
    <3>3. CASE i - 4 \in 1 .. 4 /\ i = (i - 4) + 4
      <4>1. wide[(i - 4) + 4] = id[i - 4] /\ plain[(i - 4) + 4] = id[i - 4]
        BY <1>1, <3>3, Zenon
      <4> QED BY <3>3, <4>1
    <3> QED BY <3>1, <3>2, <3>3
  <2>2. wide = plain
    BY <1>1, <2>1, SeqEqual
  <2> QED BY <1>3, <1>4, <1>6, <2>2 DEF wide, plain
<1>7. CASE id[1] >= 128 /\ ~(id[1] = 255 /\ id[2] >= 128)
  <2>1. FirstKept(wide, 8, 5)
    <3>1. ~Superfluous(wide, 5)
      <4>1. /\ wide[5] = id[1] /\ wide[6] = id[2]
            /\ id[1] \in Int /\ id[2] \in Int /\ 128 <= id[1] /\ id[1] <= 255
            /\ ~(id[1] = 255 /\ id[2] >= 128)
        BY <1>4, <1>5, <1>7
      <4>2. 5 + 1 = 6
        OBVIOUS
      <4> QED BY <4>1, <4>2 DEF Superfluous
    <3>2. \A i \in 1 .. 4 : Superfluous(wide, i)
      <4>1. Superfluous(wide, 1) /\ Superfluous(wide, 2) /\ Superfluous(wide, 3)
              /\ Superfluous(wide, 4)
        BY <1>1, <1>4, <1>5, <1>7 DEF Superfluous
      <4>2. \A i \in 1 .. 4 : i = 1 \/ i = 2 \/ i = 3 \/ i = 4
        OBVIOUS
      <4> QED BY <4>1, <4>2
    <3>3. 5 - 1 = 4 /\ 5 \in 1 .. 8
      OBVIOUS
    <3> QED BY <3>1, <3>2, <3>3 DEF FirstKept
  <2>2. 8 \in Nat \ {0} /\ 8 \in Nat /\ 5 \in 1 .. 8 /\ 0 \in Octet
    BY DEF Octet
  <2>3. Canonical(wide) = SubSeq(wide, 5, 8)
    BY <1>1, <2>1, <2>2, CanonicalFirst
  <2>4. SubSeq(wide, 5, 8) = SubSeq(plain, 5, 8)
    <3>1. 8 - 5 + 1 = 4 /\ \A i \in 1 .. 4 : i + 5 - 1 = i + 4
      OBVIOUS
    <3>2. /\ SubSeq(wide, 5, 8) \in Seq(Octet) /\ Len(SubSeq(wide, 5, 8)) = 8 - 5 + 1
          /\ \A i \in 1 .. 8 - 5 + 1 : SubSeq(wide, 5, 8)[i] = wide[i + 5 - 1]
      BY <1>1, <2>2, KeptOctets
    <3>3. /\ SubSeq(plain, 5, 8) \in Seq(Octet) /\ Len(SubSeq(plain, 5, 8)) = 8 - 5 + 1
          /\ \A i \in 1 .. 8 - 5 + 1 : SubSeq(plain, 5, 8)[i] = plain[i + 5 - 1]
      BY <1>1, <2>2, KeptOctets
    <3>4. \A i \in 1 .. 4 : SubSeq(wide, 5, 8)[i] = SubSeq(plain, 5, 8)[i]
      BY <1>1, <3>1, <3>2, <3>3
    <3> QED BY <3>1, <3>2, <3>3, <3>4, SeqEqual
  <2>5. \A i \in 1 .. 5 - 1 : plain[i] = 0
    BY <1>1
  <2>6. Extend(SubSeq(plain, 5, 8), 0) = plain
    BY <1>1, <2>2, <2>5, Extended
  <2> QED BY <1>2, <1>3, <1>7, <2>3, <2>4, <2>6 DEF wide, plain
<1>8. CASE id[1] = 255 /\ id[2] >= 128
  <2>1. 8 \in Nat \ {0}
    OBVIOUS
  <2>2. PICK k \in 1 .. 8 :
          /\ FirstKept(wide, 8, k) /\ Canonical(wide) \in Seq(Octet)
          /\ Len(Canonical(wide)) = 8 - k + 1
    BY <1>1, <2>1, CanonicalLength
  <2>3. Superfluous(wide, 1) /\ Superfluous(wide, 2) /\ Superfluous(wide, 3)
          /\ Superfluous(wide, 4) /\ Superfluous(wide, 5)
    BY <1>1, <1>4, <1>5, <1>8 DEF Superfluous
  <2>4. k # 1 /\ k # 2 /\ k # 3 /\ k # 4 /\ k # 5
    BY <2>2, <2>3 DEF FirstKept
  <2>5. 5 \in 1 .. k - 1
    BY <2>4
  <2>6. Extend(Canonical(wide), 0)[5] = 0
    BY <2>2, <2>5, ZeroExtended
  <2>7. plain[5] = 255
    BY <1>4, <1>5, <1>8
  <2> QED BY <1>2, <1>3, <1>8, <2>6, <2>7 DEF wide, plain
<1> QED BY <1>4, <1>6, <1>7, <1>8

(* So the copy of a message carries the station id it was created for.      *)
LEMMA StationIDCopied ==
  ASSUME NEW id \in StationIDs
  PROVE  Copy[Widen(id)] = Plain(id) /\ Copy[Plain(id)] = Plain(id)
<1>1. id \in [1 .. 4 -> Octet] /\ ~(id[1] = 255 /\ id[2] >= 128)
  BY StationIDsAssumption DEF Octet
<1>2. Received(Plain(id)) = Plain(id) /\ Received(Widen(id)) = Plain(id)
  BY <1>1, StationIDReceived
<1>3. Widen(id) \in Longs /\ Plain(id) \in Longs
  BY DEF Longs
<1>4. \A long \in Longs : Copy[long] = Received(long)
  BY DEF Copy, Received
<1> QED BY <1>2, <1>3, <1>4

(* Copying a message once gives the station id back, copying it again       *)
(* changes nothing.                                                         *)
LEMMA CopyOnce ==
  ASSUME NEW id \in ActionIds, NEW e \in EventTypes, NEW m \in Messages(id, e)
  PROVE  /\ Copied(Copied(m)) = Copied(m)
         /\ Copied(m).stationID = Plain(id.stationID)
         /\ Copied(m).sequenceNumber = id.sequenceNumber
<1>1. PICK c : m = [stationID |-> Widen(id.stationID),
                    sequenceNumber |-> id.sequenceNumber, cause |-> c]
  BY DEF Messages
<1>2. /\ Copy[Widen(id.stationID)] = Plain(id.stationID)
      /\ Copy[Plain(id.stationID)] = Plain(id.stationID)
  BY StationIDCopied DEF ActionIds
<1>3. Copied(m) = [stationID |-> Plain(id.stationID),
                   sequenceNumber |-> id.sequenceNumber, cause |-> c]
  BY <1>1, <1>2 DEF Copied
<1>4. Copied(Copied(m)) = [stationID |-> Plain(id.stationID),
                           sequenceNumber |-> id.sequenceNumber, cause |-> c]
  BY <1>2, <1>3 DEF Copied
<1> QED BY <1>3, <1>4

(* A service that has created nothing satisfies the invariant.              *)
LEMMA DENInit == Init => DENInv
BY DEF Init, DENInv, TypeOK, Built, NumbersOnce, SentFirst, StoredWasSent,
   ReturnedIsStored, Numbered

(* Every step preserves it.                                                 *)
LEMMA DENStep == DENInv /\ [Next]_vars => DENInv'
<1> SUFFICES ASSUME DENInv, [Next]_vars PROVE DENInv'
  OBVIOUS
<1> USE DEF DENInv, TypeOK, Numbered
<1>1. ASSUME NEW id \in StationIDs, configure(id)
      PROVE  DENInv'
  BY <1>1 DEF configure, Built, NumbersOnce, SentFirst, StoredWasSent, ReturnedIsStored
<1>2. ASSUME NEW t \in Threads, createDENM(t)
      PROVE  DENInv'
  BY <1>2 DEF createDENM, Built, NumbersOnce, SentFirst, StoredWasSent, ReturnedIsStored
<1>3. ASSUME NEW t \in Threads, Assign(t)
      PROVE  DENInv'
  <2> DEFINE id == [stationID |-> stationID, sequenceNumber |-> nextSequenceNr]
  <2>1. /\ pc[t] = "assign" /\ pc' = [pc EXCEPT ![t] = "build"]
        /\ actionId' = [actionId EXCEPT ![t] = id]
        /\ nextSequenceNr' = nextSequenceNr + 1
        /\ UNCHANGED <<stationID, denm, sent, stored, returned>>
    BY <1>3 DEF Assign
  <2>2. id \in ActionIds /\ id.sequenceNumber = nextSequenceNr
    BY DEF ActionIds
  <2> HIDE DEF id
  <2>3. Built'
    BY <2>1, <2>2 DEF Built
  <2>4. /\ \A i \in DOMAIN sent : sent[i].sequenceNumber \in Nat
        /\ \A u \in Threads : pc[u] \in Numbered => actionId[u].sequenceNumber \in Nat
    BY MessageFields DEF Built, ActionIds, DENMs
  <2>5. NumbersOnce'
    BY <2>1, <2>2, <2>4 DEF NumbersOnce
  <2>6. SentFirst' /\ ReturnedIsStored'
    BY <2>1 DEF SentFirst, StoredWasSent, ReturnedIsStored
  <2> QED BY <2>1, <2>2, <2>3, <2>5, <2>6
<1>4. ASSUME NEW t \in Threads, NEW e \in EventTypes, Build(t, e)
      PROVE  DENInv'
  <2>1. PICK m \in Messages(actionId[t], e) : denm' = [denm EXCEPT ![t] = m]
    BY <1>4 DEF Build
  <2>2. /\ pc[t] = "build" /\ pc' = [pc EXCEPT ![t] = "send"]
        /\ UNCHANGED <<stationID, nextSequenceNr, actionId, sent, stored, returned>>
    BY <1>4 DEF Build
  <2>3. m \in DENMs
    BY <2>2, MessageFields DEF Built
  <2>4. Built'
    BY <2>1, <2>2 DEF Built
  <2>5. NumbersOnce' /\ SentFirst' /\ ReturnedIsStored'
    BY <2>1, <2>2 DEF NumbersOnce, SentFirst, StoredWasSent, ReturnedIsStored
  <2> QED BY <2>1, <2>2, <2>3, <2>4, <2>5
<1>5. ASSUME NEW t \in Threads, Send(t)
      PROVE  DENInv'
  <2>1. /\ pc[t] = "send" /\ pc' = [pc EXCEPT ![t] = "insert"]
        /\ sent' = Append(sent, denm[t])
        /\ UNCHANGED <<stationID, nextSequenceNr, actionId, denm, stored, returned>>
    BY <1>5 DEF Send
  <2>2. PICK e \in EventTypes : denm[t] \in Messages(actionId[t], e)
    BY <2>1 DEF Built
  <2>3. denm[t] \in DENMs /\ denm[t].sequenceNumber = actionId[t].sequenceNumber
    BY <2>1, <2>2, MessageFields DEF Built
  <2>4. /\ sent' \in Seq(DENMs) /\ DOMAIN sent = 1 .. Len(sent) /\ Len(sent) \in Nat
        /\ DOMAIN sent' = 1 .. Len(sent) + 1 /\ sent'[Len(sent) + 1] = denm[t]
        /\ \A i \in DOMAIN sent : sent'[i] = sent[i]
    BY <2>1, <2>3
  <2>5. \A i \in DOMAIN sent' : i \in DOMAIN sent \/ i = Len(sent) + 1
    BY <2>4
  <2>6. NumbersOnce'
    BY <2>1, <2>3, <2>4, <2>5 DEF NumbersOnce
  <2>7. \A i \in DOMAIN sent : i \in DOMAIN sent' /\ sent'[i] = sent[i]
    BY <2>4
  <2>8. SentFirst'
    <3>1. StoredWasSent'
      <4> SUFFICES ASSUME NEW m \in stored PROVE \E i \in DOMAIN sent' : m = Copied(sent'[i])
        BY <2>1 DEF StoredWasSent
      <4>1. PICK i \in DOMAIN sent : m = Copied(sent[i])
        BY DEF SentFirst, StoredWasSent
      <4> QED BY <4>1, <2>7, Zenon
    <3>2. ASSUME NEW u \in Threads, pc'[u] = "insert"
          PROVE  \E i \in DOMAIN sent' : sent'[i] = denm[u]
      <4>1. CASE u = t
        <5>1. Len(sent) + 1 \in DOMAIN sent'
          BY <2>4
        <5> QED BY <4>1, <5>1, <2>4, Zenon
      <4>2. CASE u # t
        <5>1. pc[u] = "insert"
          BY <3>2, <4>2, <2>1
        <5>2. PICK i \in DOMAIN sent : sent[i] = denm[u]
          BY <5>1 DEF SentFirst
        <5> QED BY <5>2, <2>7, Zenon
      <4> QED BY <4>1, <4>2
    <3> QED BY <2>1, <3>1, <3>2 DEF SentFirst
  <2>9. Built' /\ ReturnedIsStored'
    BY <2>1 DEF Built, ReturnedIsStored
  <2> QED BY <2>1, <2>4, <2>6, <2>8, <2>9
<1>6. ASSUME NEW t \in Threads, Leave(t), UNCHANGED <<stationID, nextSequenceNr, sent>>
      PROVE  /\ pc' \in [Threads -> {"idle", "assign", "build", "send", "insert"}]
             /\ actionId' \in [Threads -> ActionIds \cup {NoId}]
             /\ denm' \in [Threads -> DENMs \cup {NoDENM}]
             /\ Built' /\ NumbersOnce'
             /\ \A u \in Threads : pc'[u] = "insert" => \E i \in DOMAIN sent : sent[i] = denm'[u]
  BY <1>6 DEF Leave, Built, NumbersOnce, SentFirst
<1>7. ASSUME NEW t \in Threads, SendFails(t)
      PROVE  DENInv'
  BY <1>6, <1>7 DEF SendFails, SentFirst, StoredWasSent, ReturnedIsStored
<1>8. ASSUME NEW t \in Threads, Insert(t)
      PROVE  DENInv'
  <2>1. /\ pc[t] = "insert" /\ Leave(t)
        /\ UNCHANGED <<stationID, nextSequenceNr, sent>>
        /\ stored' = stored \cup {Copied(Copied(denm[t]))}
        /\ returned' = returned \cup {actionId[t]}
    BY <1>8 DEF Insert
  <2>2. actionId[t] \in ActionIds
    BY <2>1 DEF Built
  <2>3. PICK e \in EventTypes : denm[t] \in Messages(actionId[t], e)
    BY <2>1 DEF Built
  <2>4. /\ Copied(Copied(denm[t])) = Copied(denm[t])
        /\ Copied(denm[t]).stationID = Plain(actionId[t].stationID)
        /\ Copied(denm[t]).sequenceNumber = actionId[t].sequenceNumber
    BY <2>2, <2>3, CopyOnce
  <2>5. StoredWasSent'
    BY <2>1, <2>4 DEF SentFirst, StoredWasSent
  <2>6. ReturnedIsStored'
    BY <2>1, <2>4 DEF ReturnedIsStored
  <2>7. actionId[t].stationID \in StationIDs
    BY <2>2 DEF ActionIds
  <2>8. \A m \in stored' : m.stationID \in {Plain(id) : id \in StationIDs}
    BY <2>1, <2>4, <2>7
  <2> QED BY <1>6, <2>1, <2>2, <2>5, <2>6, <2>8 DEF SentFirst
<1>9. ASSUME UNCHANGED vars
      PROVE  DENInv'
  BY <1>9 DEF vars, Built, NumbersOnce, SentFirst, StoredWasSent, ReturnedIsStored
<1> QED BY <1>1, <1>2, <1>3, <1>4, <1>5, <1>7, <1>8, <1>9 DEF Next, Step

(* The invariant holds throughout.                                          *)
LEMMA DENInvariant == Spec => []DENInv
BY DENInit, DENStep, PTL DEF Spec

(* However many threads create messages and reconfigure the station, every  *)
(* action id in a call or returned by one is a station id that was          *)
(* configured with a number that was assigned.                              *)
THEOREM DENTypeCorrect == Spec => []TypeOK
<1>1. DENInv => TypeOK
  BY DEF DENInv
<1> QED BY <1>1, DENInvariant, PTL

(* However many threads create messages, reconfigure the station and fail   *)
(* to send: no two messages that leave the station carry the same sequence  *)
(* number.                                                                  *)
THEOREM DENIdsUnique == Spec => []IdsUnique
<1>1. DENInv => IdsUnique
  BY DEF DENInv, NumbersOnce, IdsUnique
<1> QED BY <1>1, DENInvariant, PTL

(* Every action id that createDENM returned names a stored message, for     *)
(* every station id below 0xFF800000.                                       *)
THEOREM DENReturnedIsStored == Spec => []ReturnedIsStored
<1>1. DENInv => ReturnedIsStored
  BY DEF DENInv
<1> QED BY <1>1, DENInvariant, PTL

(* Nothing is stored that was not sent, as its receivers decode it.         *)
THEOREM DENStoredWasSent == Spec => []StoredWasSent
<1>1. DENInv => StoredWasSent
  BY DEF DENInv, SentFirst
<1> QED BY <1>1, DENInvariant, PTL
=============================================================================
