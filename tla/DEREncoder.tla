------------------------------ MODULE DEREncoder ------------------------------
(***************************************************************************)
(* DEREncoder<T> (src/src/common/DEREncoder.hpp) and the copying of the    *)
(* wrappers, which is an encoding followed by a decoding.  A behaviour     *)
(* follows one message: the library encodes it, or another station does    *)
(* with the freedom that BER gives it; the datagram arrives whole or in    *)
(* part; the decoder of this or of the other message type gets it; what it *)
(* accepts is stored and later copied for the caller of tryGetCAM.         *)
(***************************************************************************)
EXTENDS AsnCodec, AsnMeaning

CONSTANTS Types,     \* the descriptors, a sequence
          PDUs,      \* the ones that are sent on their own, to one port
          Messages,  \* pairs of a type and a value
          Values,    \* the messages and all their parts, each with its type
          Depth(_)   \* how deep the values of a type are nested

\* The contents are short enough to be sent.
Fits(d, v) == Chosen(d, v) => Len(Ber(d, v, <<>>, "der")) \in Lengths

ASSUME ValuesAreNested ==
  \A x \in Values :
    /\ ValueOf(x[1], x[2]) /\ Fits(x[1], x[2]) /\ Depth(x[1]) \in Nat
    /\ \A p \in PartsOf(x[1], x[2]) : Depth(p[1]) < Depth(x[1])

ASSUME PartsAreValues == UNION {PartsOf(x[1], x[2]) : x \in Values} \subseteq Values

ASSUME MessagesAreValues == {<<Types[m[1]], m[2]>> : m \in Messages} \subseteq Values

VARIABLES type,      \* what the message is
          message,
          stage,     \* "built", "encoded", "arrived", "decoded", "copied",
                     \* or the exception that ended it
          fate,      \* how the octets came about
          buffer,
          result     \* what the decoder returned

vars == <<type, message, stage, fate, buffer, result>>

descriptor == Types[type]

\* DEREncoder<T>::encode and decode.
der_encode(td, st) == der_encoder(td, st, 0, 0)
ber_decode(td, buf) == ber_decoder(td, buf, 0)
-----------------------------------------------------------------------------
Init ==
  /\ \E m \in Messages : type = m[1] /\ message = m[2]
  /\ stage = "built" /\ fate = "none" /\ buffer = <<>> /\ result = Fail

\* An EncodeException where der_encode fails.
encode ==
  /\ stage = "built"
  /\ \E octets \in {der_encode(descriptor, message)} :
       IF octets = FAILED
       THEN stage' = "EncodeException" /\ UNCHANGED <<fate, buffer>>
       ELSE stage' = "encoded" /\ fate' = "der" /\ buffer' = octets
  /\ UNCHANGED <<type, message, result>>

\* Another station sends the message.
Receive(style) ==
  /\ stage = "built" /\ Chosen(descriptor, message)
  /\ stage' = "arrived" /\ fate' = style
  /\ buffer' = Ber(descriptor, message, descriptor.tags, style)
  /\ UNCHANGED <<type, message, result>>

\* UDPSocket::send splits a message into datagrams; one of two arrives.
ReceivePart ==
  /\ stage = "encoded" /\ type \in PDUs
  /\ stage' = "arrived"
  /\ \E n \in 1 .. Len(buffer) - 1 :
       \/ fate' = "start" /\ buffer' = SubSeq(buffer, 1, n)
       \/ fate' = "rest" /\ buffer' = Drop(buffer, n)
  /\ UNCHANGED <<type, message, result>>

\* The receiver of the other message type gets the datagram.
ReceiveOther(n) ==
  /\ stage = "encoded" /\ type \in PDUs /\ n \in PDUs \ {type}
  /\ stage' = "arrived" /\ fate' = "other" /\ type' = n
  /\ UNCHANGED <<message, buffer, result>>

\* Anything but RC_OK is an EncodeException; the octets after the message
\* are not looked at.
decode ==
  /\ stage \in {"encoded", "arrived"}
  /\ result' = ber_decode(descriptor, buffer)
  /\ stage' = IF result'.code = "RC_OK" THEN "decoded" ELSE "DecodeException"
  /\ UNCHANGED <<type, message, fate, buffer>>

\* The copy constructor of a wrapper: encode and decode.  CAMWrapper turns
\* the exceptions into one of its own.
copy ==
  /\ stage = "decoded"
  /\ \E octets \in {der_encode(descriptor, result.value)} :
       IF octets = FAILED
       THEN stage' = "CopyException" /\ UNCHANGED <<buffer, result>>
       ELSE /\ buffer' = octets
            /\ result' = ber_decode(descriptor, octets)
            /\ stage' = IF result'.code = "RC_OK" THEN "copied" ELSE "CopyException"
  /\ UNCHANGED <<type, message, fate>>

Next ==
  \/ encode \/ decode \/ copy \/ ReceivePart
  \/ \E style \in Styles : Receive(style)
  \/ \E n \in PDUs : ReceiveOther(n)

Spec == Init /\ [][Next]_vars
-----------------------------------------------------------------------------
Known == IF fate = "alien" THEN Unchosen(descriptor, message) ELSE message

\* What the library sends is the distinguished encoding of the message, and
\* encode throws exactly when a CHOICE of the message is not made.
EncodesDER ==
  /\ stage = "encoded" => /\ Chosen(descriptor, message)
                          /\ buffer = Ber(descriptor, message, descriptor.tags, "der")
  /\ stage = "EncodeException" => ~Chosen(descriptor, message)

\* What the library sends it decodes to the message that was meant, and the
\* decoder stops where the message ends.
RoundTrip ==
  fate = "der" =>
    /\ stage # "DecodeException"
    /\ stage = "decoded" => result = Ok(Len(buffer), Meaning(descriptor, message))

\* A datagram that another station sends, in whatever form BER allows,
\* decodes to the message that was meant.
Interoperates ==
  fate \in Styles =>
    /\ stage # "DecodeException"
    /\ stage = "decoded" => result = Ok(Len(buffer), Meaning(descriptor, Known))

\* A part of a message, or a message of the other type, is never accepted.
PartsRejected ==
  fate \in {"start", "rest", "other"} => stage # "decoded"

\* The copy of a message that was accepted is that message.
CopyFaithful ==
  /\ stage = "copied" => result = Ok(Len(buffer), Meaning(descriptor, Known))
  /\ stage = "CopyException" => ~Chosen(descriptor, Known)
=============================================================================
