----------------------------- MODULE NALProofs -----------------------------
(***************************************************************************)
(* Proofs about the network access layer, for messages of any size, any    *)
(* number of callbacks, of which one takes the messages, and any number of *)
(* failing calls, lost, copied and reordered datagrams.                    *)
(***************************************************************************)
EXTENDS SocketNAL, FiniteSetTheorems, TLAPS

\* The vector holds what was registered, in this order, until it is cleared;
\* its memory grows with the registrations.
VectorInv ==
  /\ capacity \in Nat /\ capacity <= 2 * registered
  /\ registered < Len(Registrations) => Len(callbacks) = registered
  /\ \A k \in 1..Len(callbacks) : k <= registered /\ callbacks[k] = Registrations[k]

\* The receive thread has a datagram to receive, and one to decode.
SocketInv ==
  /\ rpc = "recvfrom" => queue # <<>>
  /\ rpc \in {"decode", "begin", "end"} => rcvd \in Datagram

\* Who owns the decoded message in a round: the handler, until the callback that
\* takes it has run.  Between rounds the handler owns none, unless a callback
\* threw before anyone took it.
RoundInv ==
  /\ rpc \in {"begin", "end"} => object = "live" /\ took = FALSE
  /\ rpc = "end" => iter.next = 1
  /\ rpc = "callback" =>
       /\ object \in {"live", "owned"}
       /\ took <=> object = "owned"
       /\ object = "owned" => \E k \in DOMAIN Registrations :
                                 k < iter.next /\ Registrations[k] = "take"
       /\ iter.next \in Nat \ {0}
  /\ rpc \in {"loop", "bind", "poll", "recvfrom", "decode", "error"} /\ object = "live" => threw
  /\ fault # "memory"

Covers(d, byte) == d.from <= byte /\ byte < d.from + d.len

\* A send under way has put the bytes before chunkStart into one datagram each,
\* and no byte from there on into any.
SendInv ==
  sending # None =>
    /\ \A d \in chunks : d.from + d.len <= sending.start
    /\ \A byte \in 0..(sending.start - 1) :
         \E d \in chunks : {c \in chunks : Covers(c, byte)} = {d}

NALInv == TypeOK /\ VectorInv /\ SocketInv /\ RoundInv /\ SendInv

(* The layer starts in the invariant.                                       *)
LEMMA NALInit == Init => NALInv
<1> SUFFICES ASSUME Init PROVE NALInv
  OBVIOUS
<1>1. TypeOK
  <2>1. <<>> \in Seq(Datagram) /\ <<>> \in Seq({"take", "keep"}) /\ Len(<<>>) = 0
    OBVIOUS
  <2>2. Len(Registrations) \in Nat /\ MaxTrouble \in Nat
    BY NALAssumption
  <2>3. NoIter \in [memory : 0..(2 * Len(Registrations)), next : Nat, last : Nat]
    BY <2>2 DEF NoIter
  <2>4. /\ unsent \subseteq Messages
        /\ sending = None
        /\ chunks \subseteq Datagram /\ net \subseteq Datagram /\ handled \subseteq Datagram
        /\ queue \in Seq(Datagram) /\ rcvd \in Datagram \cup {None}
    BY <2>1 DEF Init
  <2>5. /\ rpc = "loop" /\ object = "none" /\ fault = "none"
        /\ isBound = FALSE /\ took = FALSE /\ threw = FALSE /\ active = TRUE /\ joined = FALSE
    BY DEF Init
  <2>6. /\ callbacks \in Seq({"take", "keep"}) /\ Len(callbacks) <= capacity
        /\ iter \in [memory : 0..(2 * Len(Registrations)), next : Nat, last : Nat]
        /\ trouble \in 0..MaxTrouble /\ registered \in 0..Len(Registrations)
    BY <2>1, <2>2, <2>3 DEF Init
  <2> QED BY <2>4, <2>5, <2>6 DEF TypeOK
<1>2. VectorInv /\ SocketInv /\ RoundInv /\ SendInv
  BY NALAssumption DEF Init, VectorInv, SocketInv, RoundInv, SendInv
<1> QED BY <1>1, <1>2 DEF NALInv

(* A datagram added behind what is covered covers its own bytes and no      *)
(* others.                                                                  *)
LEMMA ChunkCovers ==
  ASSUME NALInv, sending # None, NEW size \in Nat \ {0},
         NEW d \in Datagram, d.from = sending.start, d.len = size,
         NEW byte \in 0..(sending.start + size - 1)
  PROVE  \E e \in chunks \cup {d} : {c \in chunks \cup {d} : Covers(c, byte)} = {e}
<1>1. sending.start \in Nat /\ chunks \subseteq Datagram
  BY NALAssumption DEF NALInv, TypeOK
<1>2. CASE byte < sending.start
  <2>1. ~Covers(d, byte) /\ byte \in 0..(sending.start - 1)
    BY <1>1, <1>2 DEF Covers
  <2>2. {c \in chunks \cup {d} : Covers(c, byte)} = {c \in chunks : Covers(c, byte)}
    BY <2>1
  <2>3. PICK e \in chunks : {c \in chunks : Covers(c, byte)} = {e}
    BY <2>1 DEF NALInv, SendInv
  <2> QED BY <2>2, <2>3
<1>3. CASE byte >= sending.start
  <2>1. Covers(d, byte)
    BY <1>1, <1>3 DEF Covers
  <2>2. \A c \in chunks : ~Covers(c, byte)
    BY <1>1, <1>3 DEF NALInv, SendInv, Datagram, Covers
  <2>3. {c \in chunks \cup {d} : Covers(c, byte)} = {d}
    BY <2>1, <2>2
  <2> QED BY <2>3
<1>4. byte < sending.start \/ byte >= sending.start
  BY <1>1
<1> QED BY <1>2, <1>3, <1>4

(* chunkSize is not above the bytes that remain.                            *)
LEMMA ChunkFits ==
  ASSUME NEW n \in Nat \ {0}, NEW size \in 1..chunkSize(n)
  PROVE  size \in Nat \ {0} /\ size <= n
BY NALAssumption DEF chunkSize

(* A call of sendto leaves what it covers covered.                          *)
LEMMA SendToKeeps ==
  ASSUME NALInv, SendTo
  PROVE  /\ chunks' \subseteq Datagram /\ net' \subseteq Datagram
         /\ sending' = None \/ (sending'.msg \in Messages /\ sending'.start \in 0..(Size[sending'.msg] - 1))
         /\ trouble' \in 0..MaxTrouble
         /\ SendInv'
         /\ sending' = None => \A byte \in 0..(Size[sending.msg] - 1) :
              \E d \in chunks' : {c \in chunks' : Covers(c, byte)} = {d}
<1> DEFINE m == sending.msg
           left == Size[m] - sending.start
<1>1. /\ m \in Messages /\ Size[m] \in Nat \ {0} /\ sending.start \in 0..(Size[m] - 1)
      /\ sending # None
  BY NALAssumption DEF SendTo, NALInv, TypeOK
<1>2. left \in Nat \ {0}
  BY <1>1
<1>3. PICK size \in 1..chunkSize(left) :
        /\ net' = net \cup {[msg |-> m, from |-> sending.start, len |-> size]}
        /\ chunks' = chunks \cup {[msg |-> m, from |-> sending.start, len |-> size]}
        /\ sending' = IF sending.start + size = Size[m] THEN None
                      ELSE [msg |-> m, start |-> sending.start + size]
        /\ IF size < chunkSize(left) THEN Trouble ELSE UNCHANGED trouble
  BY DEF SendTo, advance
<1>4. size \in Nat \ {0} /\ size <= left
  BY <1>2, <1>3, ChunkFits
<1> DEFINE d == [msg |-> m, from |-> sending.start, len |-> size]
           start == sending.start + size
<1>5. d \in Datagram /\ d.from = sending.start /\ d.len = size
  BY <1>1, <1>4 DEF Datagram
<1>6. start \in 1..Size[m]
  BY <1>1, <1>4
<1>7. \A byte \in 0..(start - 1) :
        \E e \in chunks' : {c \in chunks' : Covers(c, byte)} = {e}
  <2> TAKE byte \in 0..(start - 1)
  <2>1. \E e \in chunks \cup {d} : {c \in chunks \cup {d} : Covers(c, byte)} = {e}
    <3>1. byte \in 0..(sending.start + size - 1)
      BY <1>1, <1>4
    <3>2. sending # None
      BY <1>1
    <3>3. size \in Nat \ {0}
      BY <1>4
    <3> HIDE DEF d, start, left, m
    <3> QED BY <1>5, <3>1, <3>2, <3>3, ChunkCovers
  <2> QED BY <2>1, <1>3
<1>8. ASSUME NEW e \in chunks' PROVE e.from + e.len <= start
  <2>1. CASE e = d
    <3>1. e.from = sending.start /\ e.len = size
      BY <1>5, <2>1
    <3> HIDE DEF d
    <3> QED BY <1>1, <1>4, <3>1
  <2>2. CASE e \in chunks
    <3>1. e.from + e.len <= sending.start /\ e.from \in Nat /\ e.len \in Nat
      BY <1>1, <2>2 DEF NALInv, SendInv, TypeOK, Datagram
    <3> QED BY <1>1, <1>4, <3>1
  <2>3. chunks' = chunks \cup {d}
    BY <1>3
  <2> QED BY <1>8, <2>1, <2>2, <2>3
<1>9. trouble' \in 0..MaxTrouble
  <2>1. trouble \in 0..MaxTrouble /\ MaxTrouble \in Nat
    BY NALAssumption DEF NALInv, TypeOK
  <2>2. trouble' = trouble \/ (trouble > 0 /\ trouble' = trouble - 1)
    BY <1>3 DEF Trouble
  <2> QED BY <2>1, <2>2
<1>10. chunks' \subseteq Datagram /\ net' \subseteq Datagram
  BY <1>3, <1>5 DEF NALInv, TypeOK
<1>11. CASE start = Size[m]
  BY <1>3, <1>7, <1>9, <1>10, <1>11 DEF SendInv
<1>12. CASE start # Size[m]
  <2>1. sending' = [msg |-> m, start |-> start] /\ start \in 0..(Size[m] - 1)
    BY <1>1, <1>3, <1>6, <1>12
  <2>2. sending' # None
    BY <1>1, <2>1, NALAssumption
  <2> HIDE DEF start
  <2> QED BY <1>1, <1>7, <1>8, <1>9, <1>10, <2>1, <2>2 DEF SendInv
<1> QED BY <1>11, <1>12

(* The types of a step that neither sends nor receives, nor registers.      *)
LEMMA TypeKept ==
  ASSUME TypeOK,
         UNCHANGED <<unsent, chunks, net, handled, queue, rcvd, iter, cbVars>>,
         sending' \in {sending, None},
         rpc' \in {"loop", "bind", "poll", "recvfrom", "decode", "error",
                  "begin", "end", "callback", "done"},
         object' \in {"none", "live", "owned", "freed"},
         isBound' \in BOOLEAN, took' \in BOOLEAN, threw' \in BOOLEAN,
         active' \in BOOLEAN, joined' \in BOOLEAN,
         trouble' \in 0..MaxTrouble, fault' \in {"none", "memory", "iterator"}
  PROVE  TypeOK'
<1>1. sending' = None \/ (sending'.msg \in Messages /\ sending'.start \in 0..(Size[sending'.msg] - 1))
  BY DEF TypeOK
<1>2. UNCHANGED <<unsent, chunks, net, handled, queue, rcvd, iter, callbacks, capacity, registered>>
  BY DEF cbVars
<1> QED BY <1>1, <1>2 DEF TypeOK

(* Every step keeps the invariant.                                         *)
LEMMA NALStep == NALInv /\ [Next]_vars => NALInv'
<1> SUFFICES ASSUME NALInv, [Next]_vars PROVE NALInv'
  OBVIOUS
<1> USE NALAssumption DEF NALInv, sendVars, recvVars, cbVars, Goto, Trouble
<1>1. CASE \E m \in Messages : Send(m)
  <2>1. TypeOK'
    BY <1>1 DEF Send, TypeOK
  <2>2. SendInv'
    BY <1>1 DEF Send, TypeOK, SendInv
  <2>3. VectorInv' /\ SocketInv' /\ RoundInv'
    BY <1>1 DEF Send, VectorInv, SocketInv, RoundInv
  <2> QED BY <2>1, <2>2, <2>3
<1>2. CASE SendTo
  <2>1. TypeOK' /\ SendInv'
    <3>1. /\ chunks' \subseteq Datagram /\ net' \subseteq Datagram
          /\ \/ sending' = None
             \/ sending'.msg \in Messages /\ sending'.start \in 0..(Size[sending'.msg] - 1)
          /\ trouble' \in 0..MaxTrouble /\ SendInv'
      BY <1>2, SendToKeeps
    <3>2. UNCHANGED <<unsent, queue, isBound, rpc, recvVars, cbVars, active, joined, fault>>
      BY <1>2 DEF SendTo
    <3> QED BY <3>1, <3>2 DEF TypeOK
  <2>2. VectorInv' /\ SocketInv' /\ RoundInv'
    BY <1>2 DEF SendTo, VectorInv, SocketInv, RoundInv
  <2> QED BY <2>1, <2>2
<1>3. CASE SendFails
  <2>1. chunks' = {} /\ sending' = None /\ trouble' \in 0..MaxTrouble
    <3>1. chunks' = {} /\ sending' = None /\ trouble > 0 /\ trouble' = trouble - 1
      BY <1>3 DEF SendFails
    <3>2. trouble \in 0..MaxTrouble /\ MaxTrouble \in Nat
      BY DEF TypeOK
    <3> QED BY <3>1, <3>2
  <2>3. UNCHANGED <<unsent, net, queue, isBound, rpc, recvVars, cbVars, active, joined, fault>>
    BY <1>3 DEF SendFails
  <2>4. TypeOK'
    BY <2>1, <2>3 DEF TypeOK
  <2>2. VectorInv' /\ SocketInv' /\ RoundInv' /\ SendInv'
    BY <1>3 DEF SendFails, VectorInv, SocketInv, RoundInv, SendInv
  <2> QED BY <2>2, <2>4
<1>4. CASE \E d \in net, copy \in BOOLEAN : Arrive(d, copy)
  <2> PICK d \in net, copy \in BOOLEAN : Arrive(d, copy)
    BY <1>4
  <2>0. /\ queue' = Append(queue, d) /\ net' \subseteq net
        /\ trouble' = trouble \/ (trouble > 0 /\ trouble' = trouble - 1)
        /\ UNCHANGED <<sendVars, isBound, rpc, recvVars, cbVars, active, joined, fault>>
    BY DEF Arrive
  <2>5. net \subseteq Datagram /\ queue \in Seq(Datagram)
        /\ trouble \in 0..MaxTrouble /\ MaxTrouble \in Nat
    BY DEF TypeOK
  <2>6. queue' \in Seq(Datagram) /\ queue' # <<>>
    BY <2>0, <2>5
  <2>7. net' \subseteq Datagram
    BY <2>0, <2>5
  <2>8. trouble' \in 0..MaxTrouble
    BY <2>0, <2>5
  <2>1. TypeOK'
    BY <2>0, <2>6, <2>7, <2>8 DEF TypeOK
  <2>2. SocketInv'
    BY <2>0, <2>6 DEF SocketInv
  <2>3. UNCHANGED <<sendVars, rpc, recvVars, cbVars, fault>>
    BY <2>0
  <2>4. VectorInv' /\ RoundInv' /\ SendInv'
    BY <2>3 DEF VectorInv, RoundInv, SendInv
  <2> QED BY <2>1, <2>2, <2>4
<1>5. CASE Loop
  <2>1. TypeOK'
    BY <1>5 DEF Loop, TypeOK
  <2>2. VectorInv' /\ SocketInv' /\ RoundInv' /\ SendInv'
    BY <1>5 DEF Loop, VectorInv, SocketInv, RoundInv, SendInv
  <2> QED BY <2>1, <2>2
<1>6. CASE Bind
  <2>1. TypeOK'
    <3>1. /\ UNCHANGED <<sendVars, net, queue, recvVars, cbVars, active, joined, fault>>
          /\ trouble' \in 0..MaxTrouble /\ rpc' \in {"poll", "error"}
      BY <1>6 DEF Bind, TypeOK
    <3>2. isBound' \in BOOLEAN
      BY <1>6 DEF Bind, TypeOK
    <3> QED BY <3>1, <3>2 DEF TypeOK
  <2>2. VectorInv' /\ SocketInv' /\ RoundInv' /\ SendInv'
    BY <1>6 DEF Bind, VectorInv, SocketInv, RoundInv, SendInv
  <2> QED BY <2>1, <2>2
<1>7. CASE Poll
  <2>1. TypeOK'
    <3>1. /\ rpc' \in {"recvfrom", "loop", "error"}
          /\ trouble' = trouble \/ (trouble > 0 /\ trouble' = trouble - 1)
          /\ UNCHANGED <<sendVars, net, queue, isBound, recvVars, cbVars, active, joined, fault>>
      BY <1>7 DEF Poll
    <3>2. trouble \in 0..MaxTrouble /\ MaxTrouble \in Nat
      BY DEF TypeOK
    <3>3. trouble' \in 0..MaxTrouble
      BY <3>1, <3>2
    <3>4. /\ sending \in {sending, None} /\ object \in {"none", "live", "owned", "freed"}
          /\ isBound \in BOOLEAN /\ took \in BOOLEAN /\ threw \in BOOLEAN
          /\ active \in BOOLEAN /\ joined \in BOOLEAN /\ fault \in {"none", "memory", "iterator"}
      BY DEF TypeOK
    <3> QED BY <3>1, <3>3, <3>4, TypeKept
  <2>2. SocketInv'
    BY <1>7 DEF Poll, TypeOK, SocketInv
  <2>3. VectorInv' /\ RoundInv' /\ SendInv'
    BY <1>7 DEF Poll, VectorInv, RoundInv, SendInv
  <2> QED BY <2>1, <2>2, <2>3
<1>8. CASE RecvFrom
  <2>1. TypeOK' /\ SocketInv'
    <3>1. queue # <<>> /\ queue \in Seq(Datagram)
      BY <1>8 DEF RecvFrom, SocketInv, TypeOK
    <3>0. Head(queue) \in Datagram /\ Tail(queue) \in Seq(Datagram)
      BY <3>1
    <3>2. \/ rcvd' = Head(queue) /\ queue' = Tail(queue) /\ rpc' = "decode" /\ trouble' = trouble
          \/ trouble > 0 /\ trouble' = trouble - 1 /\ rpc' = "error" /\ UNCHANGED <<rcvd, queue>>
      BY <1>8 DEF RecvFrom
    <3>3. UNCHANGED <<sendVars, net, isBound, object, took, threw, iter, handled, cbVars, active, joined, fault>>
      BY <1>8 DEF RecvFrom
    <3>4. CASE rcvd' = Head(queue) /\ queue' = Tail(queue) /\ rpc' = "decode" /\ trouble' = trouble
      BY <3>0, <3>3, <3>4 DEF TypeOK, SocketInv
    <3>5. CASE trouble > 0 /\ trouble' = trouble - 1 /\ rpc' = "error" /\ UNCHANGED <<rcvd, queue>>
      BY <3>3, <3>5 DEF TypeOK, SocketInv
    <3> QED BY <3>2, <3>4, <3>5
  <2>2. VectorInv' /\ RoundInv' /\ SendInv'
    BY <1>8 DEF RecvFrom, VectorInv, RoundInv, SendInv
  <2> QED BY <2>1, <2>2
<1>9. CASE Decode
  <2>1. TypeOK'
    <3>1. /\ UNCHANGED <<sendVars, net, queue, isBound, rcvd, iter, handled, cbVars, active,
                        joined, trouble, fault>>
          /\ \/ object' = "live" /\ took' = FALSE /\ threw' = FALSE /\ rpc' = "begin"
             \/ rpc' = "error" /\ UNCHANGED <<object, took, threw>>
      BY <1>9 DEF Decode
    <3>2. /\ sending \in {sending, None} /\ rpc' \in {"begin", "error"}
          /\ object' \in {"none", "live", "owned", "freed"}
          /\ took' \in BOOLEAN /\ threw' \in BOOLEAN
      BY <3>1 DEF TypeOK
    <3>3. /\ isBound \in BOOLEAN /\ active \in BOOLEAN /\ joined \in BOOLEAN
          /\ trouble \in 0..MaxTrouble /\ fault \in {"none", "memory", "iterator"}
      BY DEF TypeOK
    <3> HIDE DEF NALInv
    <3>4. TypeOK
      BY DEF NALInv
    <3> QED BY <3>1, <3>2, <3>3, <3>4, TypeKept
  <2>2. SocketInv'
    BY <1>9 DEF Decode, TypeOK, SocketInv
  <2>3. RoundInv'
    BY <1>9 DEF Decode, TypeOK, RoundInv
  <2>4. VectorInv' /\ SendInv'
    BY <1>9 DEF Decode, VectorInv, SendInv
  <2> QED BY <2>1, <2>2, <2>3, <2>4
<1>10. CASE ReportError
  <2>1. TypeOK'
    BY <1>10 DEF ReportError, TypeOK
  <2>2. VectorInv' /\ SocketInv' /\ RoundInv' /\ SendInv'
    BY <1>10 DEF ReportError, VectorInv, SocketInv, RoundInv, SendInv
  <2> QED BY <2>1, <2>2
<1>11. CASE InvokeBegin
  <2>1. TypeOK'
    BY <1>11 DEF InvokeBegin, TypeOK, SocketInv, VectorInv
  <2>2. RoundInv'
    BY <1>11 DEF InvokeBegin, TypeOK, RoundInv
  <2>3. VectorInv' /\ SocketInv' /\ SendInv'
    BY <1>11 DEF InvokeBegin, VectorInv, SocketInv, SendInv
  <2> QED BY <2>1, <2>2, <2>3
<1>12. CASE InvokeEnd
  <2>1. TypeOK'
    <3>1. iter' \in [memory : 0..(2 * Len(Registrations)), next : Nat, last : Nat]
      <4> DEFINE Pointers == 0..(2 * Len(Registrations))
      <4>1. iter \in [memory : Pointers, next : Nat, last : Nat] /\ Len(callbacks) \in Nat
        BY DEF TypeOK
      <4> HIDE DEF Pointers
      <4>2. iter' = [iter EXCEPT !.last = Len(callbacks)]
        BY <1>12 DEF InvokeEnd
      <4>3. iter' \in [memory : Pointers, next : Nat, last : Nat]
        BY <4>1, <4>2
      <4> QED BY <4>3 DEF Pointers
    <3>2. fault' \in {"none", "memory", "iterator"} /\ rpc' = "callback"
      BY <1>12 DEF InvokeEnd
    <3>3. handled' \subseteq Datagram
      BY <1>12 DEF InvokeEnd, TypeOK, SocketInv
    <3>4. UNCHANGED <<sendVars, net, queue, isBound, rcvd, object, took, threw, cbVars, active, joined, trouble>>
      BY <1>12 DEF InvokeEnd
    <3> QED BY <3>1, <3>2, <3>3, <3>4 DEF TypeOK
  <2>2. RoundInv'
    BY <1>12 DEF InvokeEnd, TypeOK, RoundInv
  <2>3. VectorInv' /\ SocketInv' /\ SendInv'
    BY <1>12 DEF InvokeEnd, VectorInv, SocketInv, SendInv
  <2> QED BY <2>1, <2>2, <2>3
<1>13. CASE InvokeThrows
  <2>1. TypeOK'
    <3>1. /\ rpc' = "loop" /\ object' \in {object, "freed"} /\ threw' = TRUE
          /\ trouble > 0 /\ trouble' = trouble - 1
          /\ UNCHANGED <<sendVars, net, queue, isBound, rcvd, took, iter, handled, cbVars, active,
                        joined, fault>>
      BY <1>13 DEF InvokeThrows
    <3>2. trouble \in 0..MaxTrouble /\ MaxTrouble \in Nat
      BY DEF TypeOK
    <3>3. trouble' \in 0..MaxTrouble
      BY <3>1, <3>2
    <3>4. /\ sending \in {sending, None} /\ object' \in {"none", "live", "owned", "freed"}
          /\ isBound \in BOOLEAN /\ took \in BOOLEAN /\ active \in BOOLEAN /\ joined \in BOOLEAN
          /\ fault \in {"none", "memory", "iterator"}
      BY <3>1 DEF TypeOK
    <3> QED BY <3>1, <3>3, <3>4, TypeKept
  <2>2. RoundInv'
    BY <1>13 DEF InvokeThrows, TypeOK, RoundInv
  <2>3. VectorInv' /\ SocketInv' /\ SendInv'
    BY <1>13 DEF InvokeThrows, VectorInv, SocketInv, SendInv
  <2> QED BY <2>1, <2>2, <2>3
<1>14. CASE InvokeCallback
  <2>1. UNCHANGED <<sendVars, net, queue, isBound, rpc, rcvd, threw, handled, cbVars, active, joined, trouble>>
    BY <1>14 DEF InvokeCallback
  <2>2. rpc = "callback" /\ iter.next \in Nat \ {0}
    BY <1>14 DEF InvokeCallback, RoundInv
  <2>3. ASSUME ~Callable PROVE TypeOK' /\ RoundInv'
    <3>1. fault' = "iterator" /\ UNCHANGED <<object, took, iter>>
      BY <1>14, <2>3 DEF InvokeCallback
    <3> QED BY <2>1, <2>2, <3>1 DEF TypeOK, RoundInv
  <2>4. ASSUME Callable PROVE TypeOK' /\ RoundInv'
    <3> DEFINE takes == callbacks[iter.next] = "take"
    <3>1. /\ fault' = IF object = "live" \/ (object = "owned" /\ ~takes) THEN "none" ELSE "memory"
          /\ object' = IF takes THEN "owned" ELSE object
          /\ took' = (took \/ takes)
          /\ iter' = [iter EXCEPT !.next = @ + 1]
      BY <1>14, <2>4 DEF InvokeCallback
    <3>2. /\ iter.next \in DOMAIN Registrations
          /\ callbacks[iter.next] = Registrations[iter.next]
      <4>1. /\ iter.next \in 1..Len(callbacks) /\ iter.next \in Nat
            /\ Len(callbacks) \in Nat
        BY <2>2, <2>4 DEF Callable, TypeOK
      <4>2. iter.next <= registered /\ callbacks[iter.next] = Registrations[iter.next]
        BY <4>1 DEF VectorInv
      <4>3. registered \in 0..Len(Registrations) /\ DOMAIN Registrations = 1..Len(Registrations)
        BY DEF TypeOK
      <4> QED BY <2>2, <4>2, <4>3
    <3>3. takes => object # "owned"
      <4> SUFFICES ASSUME takes, object = "owned" PROVE FALSE
        OBVIOUS
      <4>1. PICK k \in DOMAIN Registrations : k < iter.next /\ Registrations[k] = "take"
        BY <2>2 DEF RoundInv
      <4>2. k = iter.next
        BY <3>2, <4>1, OneTakerAssumption
      <4> QED BY <2>2, <4>1, <4>2
    <3>4. fault' = "none" /\ object' \in {"live", "owned"} /\ took' \in BOOLEAN
      BY <2>2, <3>1, <3>3 DEF RoundInv, TypeOK
    <3>5. took' <=> object' = "owned"
      BY <2>2, <3>1 DEF RoundInv
    <3>6. /\ iter' \in [memory : 0..(2 * Len(Registrations)), next : Nat, last : Nat]
          /\ iter'.next = iter.next + 1
      <4> DEFINE Pointers == 0..(2 * Len(Registrations))
      <4>1. iter \in [memory : Pointers, next : Nat, last : Nat]
        BY DEF TypeOK
      <4> HIDE DEF Pointers
      <4>2. iter' \in [memory : Pointers, next : Nat, last : Nat] /\ iter'.next = iter.next + 1
        BY <3>1, <4>1
      <4> QED BY <4>2 DEF Pointers
    <3>7. object' = "owned" => \E k \in DOMAIN Registrations :
                                 k < iter'.next /\ Registrations[k] = "take"
      <4>1. CASE takes
        <5>1. iter.next < iter'.next /\ Registrations[iter.next] = "take"
          BY <2>2, <3>2, <3>6, <4>1
        <5> QED BY <3>2, <5>1
      <4>2. CASE ~takes
        BY <2>2, <3>1, <3>6, <4>2 DEF RoundInv
      <4> QED BY <4>1, <4>2
    <3> HIDE DEF takes
    <3>8. TypeOK'
      BY <2>1, <3>4, <3>6 DEF TypeOK
    <3> QED BY <2>1, <2>2, <3>4, <3>5, <3>6, <3>7, <3>8 DEF RoundInv
  <2>5. TypeOK' /\ RoundInv'
    BY <2>3, <2>4
  <2>6. VectorInv' /\ SocketInv' /\ SendInv'
    BY <1>14 DEF InvokeCallback, VectorInv, SocketInv, SendInv
  <2> QED BY <2>5, <2>6
<1>15. CASE InvokeFree
  <2>1. TypeOK'
    BY <1>15 DEF InvokeFree, TypeOK
  <2>2. RoundInv'
    BY <1>15 DEF InvokeFree, TypeOK, RoundInv
  <2>3. VectorInv' /\ SocketInv' /\ SendInv'
    BY <1>15 DEF InvokeFree, VectorInv, SocketInv, SendInv
  <2> QED BY <2>1, <2>2, <2>3
<1>16. CASE registerCallback
  <2> DEFINE new == Registrations[registered + 1]
  <2>0. /\ registered' = registered + 1 /\ callbacks' = Append(callbacks, new)
        /\ capacity' = IF Len(callbacks) < capacity THEN capacity
                       ELSE IF capacity = 0 THEN 1 ELSE 2 * capacity
        /\ registered < Len(Registrations)
        /\ UNCHANGED <<sendVars, net, queue, isBound, rpc, recvVars, active, joined, trouble, fault>>
    BY <1>16 DEF registerCallback
  <2>4. /\ registered \in 0..Len(Registrations) /\ Len(Registrations) \in Nat
        /\ callbacks \in Seq({"take", "keep"}) /\ Len(callbacks) <= capacity
    BY DEF TypeOK
  <2>5. /\ capacity \in Nat /\ capacity <= 2 * registered
        /\ Len(callbacks) = registered
        /\ \A k \in 1..Len(callbacks) : callbacks[k] = Registrations[k]
    BY <2>0 DEF VectorInv
  <2>6. new \in {"take", "keep"}
    BY <2>0, <2>4
  <2> HIDE DEF new, NALInv
  <2>7. /\ callbacks' \in Seq({"take", "keep"}) /\ Len(callbacks') = registered'
        /\ \A k \in 1..registered : callbacks'[k] = callbacks[k]
        /\ callbacks'[registered'] = new
    BY <2>0, <2>4, <2>5, <2>6
  <2>8. /\ capacity' \in Nat /\ capacity' <= 2 * registered' /\ registered' <= capacity'
        /\ registered' \in 0..Len(Registrations)
    BY <2>0, <2>4, <2>5
  <2>1. TypeOK'
    <3>1. /\ UNCHANGED <<unsent, sending, chunks, net, queue, isBound, rpc, rcvd, object, took,
                        threw, iter, handled, active, joined, trouble, fault>>
          /\ TypeOK
      BY <2>0 DEF NALInv
    <3>2. /\ callbacks' \in Seq({"take", "keep"}) /\ Len(callbacks') <= capacity'
          /\ registered' \in 0..Len(Registrations)
      BY <2>7, <2>8
    <3> QED BY <3>1, <3>2 DEF TypeOK
  <2>2. VectorInv'
    <3>1. ASSUME NEW k \in 1..registered' PROVE k <= registered' /\ callbacks'[k] = Registrations[k]
      <4>1. k \in 1..registered \/ k = registered'
        BY <2>0, <2>4
      <4>2. CASE k \in 1..registered
        BY <2>4, <2>5, <2>7, <2>0, <4>2
      <4>3. CASE k = registered'
        BY <2>4, <2>0, <2>7, <4>3 DEF new
      <4> QED BY <4>1, <4>2, <4>3
    <3> QED BY <2>7, <2>8, <3>1 DEF VectorInv
  <2> USE DEF NALInv
  <2>3. SocketInv' /\ RoundInv' /\ SendInv'
    BY <1>16 DEF registerCallback, SocketInv, RoundInv, SendInv
  <2> QED BY <2>1, <2>2, <2>3
<1>17. CASE unregisterCallbacks
  <2>1. TypeOK'
    BY <1>17 DEF unregisterCallbacks, TypeOK, SocketInv, VectorInv
  <2>2. VectorInv'
    BY <1>17 DEF unregisterCallbacks, TypeOK, VectorInv
  <2>3. SocketInv' /\ RoundInv' /\ SendInv'
    BY <1>17 DEF unregisterCallbacks, SocketInv, RoundInv, SendInv
  <2> QED BY <2>1, <2>2, <2>3
<1>18. CASE Stop
  <2>1. TypeOK'
    <3>1. /\ active' = FALSE
          /\ UNCHANGED <<sendVars, net, queue, isBound, rpc, recvVars, cbVars, joined, trouble, fault>>
      BY <1>18 DEF Stop
    <3>2. /\ active' \in BOOLEAN /\ joined' \in BOOLEAN /\ isBound \in BOOLEAN
          /\ took \in BOOLEAN /\ threw \in BOOLEAN
      BY <3>1 DEF TypeOK
    <3>3. /\ sending \in {sending, None}
          /\ rpc \in {"loop", "bind", "poll", "recvfrom", "decode", "error",
                     "begin", "end", "callback", "done"}
          /\ object \in {"none", "live", "owned", "freed"}
          /\ trouble \in 0..MaxTrouble /\ fault \in {"none", "memory", "iterator"}
      BY DEF TypeOK
    <3> QED BY <3>1, <3>2, <3>3, TypeKept
  <2>2. VectorInv' /\ SocketInv' /\ RoundInv' /\ SendInv'
    BY <1>18 DEF Stop, VectorInv, SocketInv, RoundInv, SendInv
  <2> QED BY <2>1, <2>2
<1>19. CASE Join
  <2>1. TypeOK'
    <3>1. /\ joined' = TRUE
          /\ UNCHANGED <<sendVars, net, queue, isBound, rpc, recvVars, cbVars, active, trouble, fault>>
      BY <1>19 DEF Join
    <3>2. /\ active' \in BOOLEAN /\ joined' \in BOOLEAN /\ isBound \in BOOLEAN
          /\ took \in BOOLEAN /\ threw \in BOOLEAN
      BY <3>1 DEF TypeOK
    <3>3. /\ sending \in {sending, None}
          /\ rpc \in {"loop", "bind", "poll", "recvfrom", "decode", "error",
                     "begin", "end", "callback", "done"}
          /\ object \in {"none", "live", "owned", "freed"}
          /\ trouble \in 0..MaxTrouble /\ fault \in {"none", "memory", "iterator"}
      BY DEF TypeOK
    <3> QED BY <3>1, <3>2, <3>3, TypeKept
  <2>2. VectorInv' /\ SocketInv' /\ RoundInv' /\ SendInv'
    BY <1>19 DEF Join, VectorInv, SocketInv, RoundInv, SendInv
  <2> QED BY <2>1, <2>2
<1>20. CASE Ended \/ UNCHANGED vars
  <2>1. UNCHANGED vars
    BY <1>20 DEF Ended
  <2>2. TypeOK'
    BY <2>1 DEF vars, TypeOK
  <2>3. VectorInv' /\ SocketInv' /\ RoundInv' /\ SendInv'
    BY <2>1 DEF vars, VectorInv, SocketInv, RoundInv, SendInv
  <2> QED BY <2>2, <2>3
<1> QED
  BY <1>1, <1>2, <1>3, <1>4, <1>5, <1>6, <1>7, <1>8, <1>9, <1>10, <1>11, <1>12, <1>13, <1>14, <1>15, <1>16, <1>17, <1>18, <1>19, <1>20
  DEF Next, Receive

(* The invariant of the layer.                                              *)
LEMMA NALInvariant == Spec => []NALInv
<1>1. Init => NALInv
  BY NALInit
<1>2. NALInv /\ [Next]_vars => NALInv'
  BY NALStep
<1> QED BY <1>1, <1>2, PTL DEF Spec

(* Whatever the network, the system calls and the callbacks do, the layer's *)
(* variables keep their types; in particular the vector of callbacks has    *)
(* the memory it needs.                                                     *)
THEOREM NALTypeCorrect == Spec => []TypeOK
<1>1. NALInv => TypeOK
  BY DEF NALInv
<1> QED BY <1>1, NALInvariant, PTL

(* No received message is freed twice or used after it is gone, with any    *)
(* number of callbacks of which one takes the messages, registered and      *)
(* unregistered while the receive thread runs.                              *)
THEOREM NALNoMemoryFault == Spec => []NoMemoryFault
<1>1. NALInv => NoMemoryFault
  BY DEF NALInv, RoundInv, NoMemoryFault
<1> QED BY <1>1, NALInvariant, PTL

(* A round of the receive thread leaves a message that no one owns only     *)
(* when a callback threw.                                                   *)
THEOREM NALNothingLeaks == Spec => []NothingLeaks
<1>1. NALInv => NothingLeaks
  BY DEF NALInv, RoundInv, NothingLeaks
<1> QED BY <1>1, NALInvariant, PTL

(* A send that succeeds has put every byte of a message of any size into    *)
(* exactly one datagram, however short the sends of the system are.         *)
THEOREM NALSendCovers == Spec => SendCoversMessage
<1> DEFINE Step == \A m \in Messages :
       sending # None /\ sending.msg = m /\ sending' = None /\ chunks' # {} =>
         \A byte \in 0..(Size[m] - 1) :
           Cardinality({d \in chunks' : d.from <= byte /\ byte < d.from + d.len}) = 1
<1>1. NALInv /\ [Next]_vars => [Step]_vars
  <2> SUFFICES ASSUME NALInv, [Next]_vars,
                      NEW m \in Messages, sending # None, sending.msg = m,
                      sending' = None, chunks' # {},
                      NEW byte \in 0..(Size[m] - 1)
               PROVE  Cardinality({d \in chunks' : d.from <= byte /\ byte < d.from + d.len}) = 1
    OBVIOUS
  <2>1. SendTo
    BY DEF Next, vars, sendVars, Send, SendTo, SendFails, Arrive, Receive, Loop, Bind, Poll,
           RecvFrom, Decode, ReportError, InvokeBegin, InvokeEnd, InvokeThrows,
           InvokeCallback, InvokeFree, registerCallback, unregisterCallbacks, Stop, Join, Ended
  <2>2. PICK d \in chunks' : {c \in chunks' : Covers(c, byte)} = {d}
    BY <2>1, SendToKeeps
  <2>3. {c \in chunks' : c.from <= byte /\ byte < c.from + c.len} = {d}
    BY <2>2 DEF Covers
  <2> QED BY <2>3, FS_Singleton
<1>2. Spec => [][Step]_vars
  BY <1>1, NALInvariant, PTL DEF Spec
<1> QED BY <1>2 DEF SendCoversMessage
-----------------------------------------------------------------------------
(* The layer implements the channel of messages *)

\* The places of an element in a sequence.
At(q, d) == {k \in 1..Len(q) : q[k] = d}

(* They are finitely many.                                                  *)
LEMMA AtFinite ==
  ASSUME NEW q \in Seq(Datagram), NEW d
  PROVE  IsFiniteSet(At(q, d)) /\ Cardinality(At(q, d)) \in Nat
<1>1. PICK n \in Nat : n = Len(q)
  OBVIOUS
<1>2. IsFiniteSet(1..n)
  BY FS_Interval
<1>3. At(q, d) \in SUBSET (1..n)
  BY <1>1 DEF At
<1>4. IsFiniteSet(At(q, d))
  BY <1>2, <1>3, FS_Subset
<1> QED BY <1>4, FS_CardinalityType

(* An element at the end adds a place of its own.                           *)
LEMMA AtAppend ==
  ASSUME NEW q \in Seq(Datagram), NEW e \in Datagram, NEW d
  PROVE  Cardinality(At(Append(q, e), d)) = Cardinality(At(q, d)) + (IF e = d THEN 1 ELSE 0)
<1>1. PICK n \in Nat : n = Len(q)
  OBVIOUS
<1>2. /\ Len(Append(q, e)) = n + 1 /\ Append(q, e)[n + 1] = e
      /\ \A k \in 1..n : Append(q, e)[k] = q[k]
  BY <1>1
<1>3. \A k \in 1..(n + 1) : k \in 1..n \/ k = n + 1
  OBVIOUS
<1>4. n + 1 \in 1..(n + 1) /\ n + 1 \notin 1..n /\ \A k \in 1..n : k \in 1..(n + 1)
  OBVIOUS
<1>5. IsFiniteSet(At(q, d)) /\ Cardinality(At(q, d)) \in Nat
  BY AtFinite
<1>6. CASE e = d
  <2>1. At(Append(q, e), d) = At(q, d) \cup {n + 1} /\ n + 1 \notin At(q, d)
    BY <1>1, <1>2, <1>3, <1>4, <1>6 DEF At
  <2> QED BY <1>5, <1>6, <2>1, FS_AddElement
<1>7. CASE e # d
  <2>1. At(Append(q, e), d) = At(q, d)
    BY <1>1, <1>2, <1>3, <1>4, <1>7 DEF At
  <2> QED BY <1>5, <1>7, <2>1
<1> QED BY <1>6, <1>7

(* The first element has a place that the rest has not.                     *)
LEMMA AtTail ==
  ASSUME NEW q \in Seq(Datagram), q # <<>>, NEW d
  PROVE  Cardinality(At(q, d)) = Cardinality(At(Tail(q), d)) + (IF Head(q) = d THEN 1 ELSE 0)
<1>1. PICK n \in Nat : n + 1 = Len(q)
  <2>1. Len(q) \in Nat /\ Len(q) # 0
    OBVIOUS
  <2>2. Len(q) - 1 \in Nat /\ (Len(q) - 1) + 1 = Len(q)
    BY <2>1
  <2> QED BY <2>2
<1>2. /\ Tail(q) \in Seq(Datagram) /\ Len(Tail(q)) = n /\ Head(q) = q[1]
      /\ \A k \in 1..n : Tail(q)[k] = q[k + 1]
  BY <1>1
<1>3. /\ IsFiniteSet(At(q, d)) /\ Cardinality(At(q, d)) \in Nat
      /\ IsFiniteSet(At(Tail(q), d)) /\ Cardinality(At(Tail(q), d)) \in Nat
  BY <1>2, AtFinite
<1> DEFINE S == At(Tail(q), d)
           T == At(q, d) \ {1}
           next == [k \in S |-> k + 1]
<1>4. Cardinality(T) = Cardinality(S)
  <2>1. \A k \in S : k \in 1..n /\ k \in Int /\ q[k + 1] = d
    BY <1>2 DEF At
  <2>2. \A k \in S : next[k] \in T
    <3>1. \A k \in 1..n : k + 1 \in 1..(n + 1) /\ k + 1 # 1
      OBVIOUS
    <3> QED BY <1>1, <2>1, <3>1 DEF At
  <2>3. \A j, k \in S : next[j] = next[k] => j = k
    BY <2>1
  <2>4. \A k \in T : \E j \in S : next[j] = k
    <3>1. ASSUME NEW k \in T PROVE k - 1 \in S /\ next[k - 1] = k
      <4>1. k \in 1..(n + 1) /\ k # 1 /\ q[k] = d
        BY <1>1 DEF At
      <4>2. k - 1 \in 1..n /\ (k - 1) + 1 = k
        BY <4>1
      <4>3. k - 1 \in S
        BY <1>2, <4>1, <4>2 DEF At
      <4> QED BY <4>2, <4>3
    <3> QED BY <3>1
  <2>5. next \in Bijection(S, T)
    <3> HIDE DEF S, T
    <3>1. next \in [S -> T]
      BY <2>2
    <3> HIDE DEF next
    <3> QED BY <2>3, <2>4, <3>1 DEF Bijection, Injection, Surjection, IsInjective
  <2> QED BY <1>3, <2>5, FS_Bijection DEF ExistsBijection
<1>5. 1 \in At(q, d) <=> Head(q) = d
  <2>1. 1 \in 1..(n + 1)
    OBVIOUS
  <2> QED BY <1>1, <1>2, <2>1 DEF At
<1>6. Cardinality(T) = IF Head(q) = d THEN Cardinality(At(q, d)) - 1 ELSE Cardinality(At(q, d))
  BY <1>3, <1>5, FS_RemoveElement
<1> QED BY <1>3, <1>4, <1>6

\* A message is sent once, chunk by chunk, and a round is about a datagram that
\* is a whole message.
SentOnce ==
  /\ sending # None => sending.msg \notin unsent
  /\ \A d \in net :
       /\ d.msg \notin unsent
       /\ sending # None /\ sending.msg = d.msg => d.from + d.len <= sending.start

WholeRound == InRound => rcvd \in Datagram /\ Whole(rcvd)

ChannelInv == SentOnce /\ WholeRound

(* A datagram that decodes is the one that carries its message whole.       *)
LEMMA WholeIs ==
  ASSUME NEW d \in Datagram, NEW m \in Messages
  PROVE  /\ WholeMessage(m) \in Datagram
         /\ d = WholeMessage(m) <=> Whole(d) /\ d.msg = m
<1>1. Size[m] \in Nat
  BY NALAssumption
<1>2. d = [msg |-> d.msg, from |-> d.from, len |-> d.len]
  BY DEF Datagram
<1> QED BY <1>1, <1>2 DEF WholeMessage, Whole, Datagram

(* Copies are counted.                                                      *)
LEMMA CopiesType ==
  ASSUME TypeOK, NEW d
  PROVE  Copies(d) \in Nat /\ OnNet(d) \in {0, 1} /\ InBuffer(d) \in {0, 1}
         /\ Cardinality(InSocket(d)) \in Nat
<1>1. Cardinality(InSocket(d)) \in Nat
  BY AtFinite DEF TypeOK, InSocket, At
<1> QED BY <1>1 DEF Copies, OnNet, InBuffer

(* Nothing is sent at first.                                                *)
LEMMA ChannelInit == Init => ChannelInv
BY DEF Init, ChannelInv, SentOnce, WholeRound, InRound

(* Every step keeps this.                                                   *)
LEMMA ChannelStep == NALInv /\ ChannelInv /\ [Next]_vars => ChannelInv'
<1> SUFFICES ASSUME NALInv, ChannelInv, [Next]_vars PROVE ChannelInv'
  OBVIOUS
<1> USE NALAssumption DEF ChannelInv, sendVars, recvVars, cbVars, Goto, Trouble
<1>1. CASE \E m \in Messages : Send(m)
  <2>1. PICK m \in unsent :
          /\ sending = None /\ sending' = [msg |-> m, start |-> 0]
          /\ unsent' = unsent \ {m} /\ net' = net
    BY <1>1 DEF Send
  <2>2. m \in Messages
    BY DEF NALInv, TypeOK
  <2>3. SentOnce'
    BY <2>1, <2>2 DEF SentOnce
  <2>4. WholeRound'
    BY <1>1 DEF Send, WholeRound, InRound
  <2> QED BY <2>3, <2>4
<1>2. CASE SendTo
  <2> DEFINE m == sending.msg
             left == Size[m] - sending.start
  <2>1. /\ m \in Messages /\ Size[m] \in Nat \ {0} /\ sending.start \in 0..(Size[m] - 1)
        /\ sending # None
    BY <1>2 DEF SendTo, NALInv, TypeOK
  <2>2. PICK size \in 1..chunkSize(left) :
          /\ net' = net \cup {[msg |-> m, from |-> sending.start, len |-> size]}
          /\ sending' = IF sending.start + size = Size[m] THEN None
                        ELSE [msg |-> m, start |-> sending.start + size]
    BY <1>2 DEF SendTo, advance
  <2>3. size \in Nat \ {0}
    BY <2>1, <2>2, ChunkFits
  <2>4. \A d \in net : d \in Datagram
    BY DEF NALInv, TypeOK
  <2>5. unsent' = unsent
    BY <1>2 DEF SendTo
  <2>6. m \notin unsent
    BY <2>1 DEF SentOnce
  <2>7. ASSUME NEW d \in net'
        PROVE  /\ d.msg \notin unsent
               /\ sending' # None /\ sending'.msg = d.msg => d.from + d.len <= sending'.start
    <3>1. CASE d \in net
      BY <2>1, <2>2, <2>3, <2>4, <3>1 DEF SentOnce, Datagram
    <3>2. CASE d = [msg |-> m, from |-> sending.start, len |-> size]
      BY <2>1, <2>2, <2>3, <2>6, <3>2
    <3> QED BY <2>2, <3>1, <3>2
  <2>8. sending' # None => sending'.msg = m
    BY <2>2
  <2>9. SentOnce'
    BY <2>5, <2>6, <2>7, <2>8 DEF SentOnce
  <2>10. WholeRound'
    BY <1>2 DEF SendTo, WholeRound, InRound
  <2> QED BY <2>9, <2>10
<1>3. CASE SendFails
  BY <1>3 DEF SendFails, SentOnce, WholeRound, InRound
<1>4. CASE \E d \in net, copy \in BOOLEAN : Arrive(d, copy)
  <2>1. /\ net' \subseteq net
        /\ UNCHANGED <<unsent, sending, rpc, rcvd>>
    BY <1>4 DEF Arrive
  <2> QED BY <2>1 DEF SentOnce, WholeRound, InRound
<1>5. ASSUME UNCHANGED <<unsent, sending, net>> PROVE SentOnce'
  BY <1>5 DEF SentOnce
<1>6. CASE Decode
  <2>1. WholeRound'
    BY <1>6 DEF Decode, NALInv, SocketInv, WholeRound, InRound, Whole
  <2>2. UNCHANGED <<unsent, sending, net>>
    BY <1>6 DEF Decode
  <2> QED BY <1>5, <2>1, <2>2
<1>7. ASSUME UNCHANGED rcvd, InRound' => InRound PROVE WholeRound'
  BY <1>7 DEF WholeRound, Whole
<1>8. CASE Loop \/ Bind \/ Poll \/ RecvFrom \/ ReportError
  <2>1. ~InRound'
    BY <1>8 DEF Loop, Bind, Poll, RecvFrom, ReportError, InRound
  <2>2. UNCHANGED <<unsent, sending, net>>
    BY <1>8 DEF Loop, Bind, Poll, RecvFrom, ReportError
  <2> QED BY <1>5, <2>1, <2>2 DEF WholeRound
<1>9. CASE InvokeBegin \/ InvokeEnd \/ InvokeThrows \/ InvokeCallback \/ InvokeFree
  <2>1. UNCHANGED <<unsent, sending, net, rcvd>> /\ InRound
    BY <1>9 DEF InvokeBegin, InvokeEnd, InvokeThrows, InvokeCallback, InvokeFree, InRound
  <2> QED BY <1>5, <1>7, <2>1
<1>10. CASE registerCallback \/ unregisterCallbacks \/ Stop \/ Join \/ Ended \/ UNCHANGED vars
  <2>1. UNCHANGED <<unsent, sending, net, rcvd, rpc>>
    BY <1>10 DEF registerCallback, unregisterCallbacks, Stop, Join, Ended, vars
  <2> QED BY <1>5, <1>7, <2>1 DEF InRound
<1> QED
  BY <1>1, <1>2, <1>3, <1>4, <1>6, <1>8, <1>9, <1>10 DEF Next, Receive

(* Carried changes with the copies of whole messages only.                  *)
LEMMA CarriedSame ==
  ASSUME \A m \in Messages : Copies(WholeMessage(m))' = Copies(WholeMessage(m))
  PROVE  Carried' = Carried
BY DEF Carried, WholeMessage

(* A step outside the socket that the callbacks do not see is no step of    *)
(* the channel.                                                             *)
LEMMA Outside ==
  ASSUME UNCHANGED <<net, queue>>, rpc # "decode", rpc' # "decode"
  PROVE  Carried' = Carried
<1>1. ASSUME NEW d PROVE Copies(d)' = Copies(d)
  BY DEF Copies, OnNet, InSocket, InBuffer
<1> QED BY <1>1, CarriedSame

(* The layer starts as a channel does.                                      *)
LEMMA ImplementsInit == Init => Channel!Init
<1> SUFFICES ASSUME Init PROVE Channel!Init
  OBVIOUS
<1>1. ASSUME NEW d PROVE Copies(d) = 0
  <2>1. InSocket(d) = {}
    BY DEF Init, InSocket
  <2>2. OnNet(d) = 0 /\ InBuffer(d) = 0
    BY DEF Init, OnNet, InBuffer
  <2> QED BY <2>1, <2>2, FS_EmptySet DEF Copies
<1>2. Carried = [m \in Messages |-> 0]
  BY <1>1 DEF Carried
<1> QED BY <1>2 DEF Init, Channel!Init, Sending, Handed, Owner, InRound

(* A call of sendto: the message is carried whole, its send is over with    *)
(* nothing carried, or nothing can be seen.                                 *)
LEMMA SendToSimulates ==
  ASSUME NALInv, ChannelInv, SendTo
  PROVE  Channel!Carry \/ Channel!GiveUp \/ UNCHANGED Channel!channelVars
<1> DEFINE m == sending.msg
           left == Size[m] - sending.start
<1>1. /\ m \in Messages /\ Size[m] \in Nat \ {0} /\ sending.start \in 0..(Size[m] - 1)
      /\ sending # None /\ MaxSendSize \in Nat \ {0}
  BY NALAssumption DEF SendTo, NALInv, TypeOK
<1>2. PICK size \in 1..chunkSize(left) :
        /\ net' = net \cup {[msg |-> m, from |-> sending.start, len |-> size]}
        /\ sending' = IF sending.start + size = Size[m] THEN None
                      ELSE [msg |-> m, start |-> sending.start + size]
  BY DEF SendTo, advance
<1>3. UNCHANGED <<unsent, queue, rpc, rcvd, object>>
  BY DEF SendTo, recvVars
<1> DEFINE d == [msg |-> m, from |-> sending.start, len |-> size]
<1>4. left \in Nat \ {0}
  BY <1>1
<1>5. size \in Nat \ {0} /\ size <= left
  BY <1>2, <1>4, ChunkFits
<1>6. d \in Datagram
  BY <1>1, <1>5 DEF Datagram
<1>7. Handed' = Handed /\ Owner' = Owner /\ unsent' = unsent /\ Sending = m
  BY <1>1, <1>3 DEF Handed, Owner, InRound, Sending
<1>8. ASSUME NEW e PROVE InSocket(e)' = InSocket(e) /\ InBuffer(e)' = InBuffer(e)
  BY <1>3 DEF InSocket, InBuffer
<1>9. CASE d = WholeMessage(m)
  <2>1. sending.start = 0 /\ size = Size[m]
    BY <1>9 DEF WholeMessage
  <2>2. sending' = None /\ Sending' = None
    BY <1>1, <1>2, <2>1 DEF Sending
  <2>3. m \in Fits
    <3>1. left = Size[m]
      BY <1>1, <2>1
    <3>2. Size[m] \in 1..chunkSize(Size[m])
      BY <1>2, <2>1, <3>1
    <3>3. Size[m] <= MaxSendSize
      BY <1>1, <3>2 DEF chunkSize
    <3> QED BY <1>1, <3>3 DEF Fits
  <2>4. d \notin net
    <3> SUFFICES ASSUME d \in net PROVE FALSE
      OBVIOUS
    <3>1. d.from + d.len <= sending.start
      BY <1>1 DEF ChannelInv, SentOnce
    <3> QED BY <1>1, <2>1, <3>1
  <2>5. Carried' = [Carried EXCEPT ![m] = @ + 1]
    <3>1. ASSUME NEW e PROVE Copies(e)' = Copies(e) + (IF e = d THEN 1 ELSE 0)
      <4>1. OnNet(e)' = OnNet(e) + (IF e = d THEN 1 ELSE 0)
        BY <1>2, <2>4 DEF OnNet
      <4>2. OnNet(e) \in {0, 1} /\ InBuffer(e) \in {0, 1} /\ Cardinality(InSocket(e)) \in Nat
        BY CopiesType DEF NALInv
      <4>3. Copies(e)' = OnNet(e)' + Cardinality(InSocket(e)) + InBuffer(e)
        BY <1>8 DEF Copies
      <4> HIDE DEF d
      <4> QED BY <4>1, <4>2, <4>3 DEF Copies
    <3>2. ASSUME NEW k \in Messages
          PROVE  Copies(WholeMessage(k))' = IF k = m THEN Copies(WholeMessage(k)) + 1
                                                    ELSE Copies(WholeMessage(k))
      <4> DEFINE e == WholeMessage(k)
      <4>1. (e = d <=> k = m) /\ e' = e
        BY <1>9 DEF WholeMessage
      <4>2. Copies(e) \in Nat
        BY CopiesType DEF NALInv
      <4> HIDE DEF e, d, m
      <4>3. Copies(e)' = IF k = m THEN Copies(e) + 1 ELSE Copies(e)
        BY <3>1, <4>1, <4>2
      <4> QED BY <4>3 DEF e
    <3> HIDE DEF m
    <3> QED BY <1>1, <3>2 DEF Carried
  <2> QED BY <1>7, <2>2, <2>3, <2>5 DEF Channel!Carry
<1>10. CASE d # WholeMessage(m)
  <2>1. ASSUME NEW k \in Messages PROVE WholeMessage(k) # d
    BY <1>10, <2>1 DEF WholeMessage
  <2>2. Carried' = Carried
    <3>1. ASSUME NEW k \in Messages
          PROVE  Copies(WholeMessage(k))' = Copies(WholeMessage(k))
      <4>1. OnNet(WholeMessage(k))' = OnNet(WholeMessage(k))
        BY <1>2, <2>1 DEF OnNet, WholeMessage
      <4> QED BY <1>8, <4>1 DEF Copies, WholeMessage
    <3> QED BY <3>1, CarriedSame
  <2>3. CASE sending' = None
    <3>1. Sending' = None /\ Sending # None
      BY <1>1, <1>7, <2>3, NALAssumption DEF Sending
    <3> QED BY <1>7, <2>2, <3>1 DEF Channel!GiveUp
  <2>4. CASE sending' # None
    <3>1. Sending' = Sending
      BY <1>2, <1>7, <2>4 DEF Sending
    <3> QED BY <1>7, <2>2, <3>1 DEF Channel!channelVars
  <2> QED BY <2>3, <2>4
<1> QED BY <1>9, <1>10

(* A datagram goes from the network into the socket; a copy may remain.     *)
LEMMA ArriveSimulates ==
  ASSUME NALInv, NEW d \in net, NEW copy \in BOOLEAN, Arrive(d, copy)
  PROVE  (\E m \in Messages : Channel!Duplicate(m)) \/ UNCHANGED Channel!channelVars
<1>1. /\ queue' = Append(queue, d)
      /\ net' = IF copy THEN net ELSE net \ {d}
      /\ UNCHANGED <<unsent, sending, rpc, rcvd, object>>
  BY DEF Arrive, sendVars, recvVars
<1>2. d \in Datagram /\ queue \in Seq(Datagram)
  BY DEF NALInv, TypeOK
<1>3. Handed' = Handed /\ Owner' = Owner /\ Sending' = Sending /\ unsent' = unsent
  BY <1>1 DEF Handed, Owner, InRound, Sending
<1>4. ASSUME NEW e
      PROVE  /\ Cardinality(InSocket(e))' = Cardinality(InSocket(e)) + (IF d = e THEN 1 ELSE 0)
             /\ InBuffer(e)' = InBuffer(e)
  <2>1. InSocket(e) = At(queue, e) /\ InSocket(e)' = At(Append(queue, d), e)
    BY <1>1 DEF InSocket, At
  <2>2. Cardinality(At(Append(queue, d), e)) = Cardinality(At(queue, e)) + (IF d = e THEN 1 ELSE 0)
    BY <1>2, AtAppend
  <2>3. Cardinality(InSocket(e))' = Cardinality(At(Append(queue, d), e))
    BY <2>1
  <2>4. InBuffer(e)' = InBuffer(e)
    BY <1>1 DEF InBuffer
  <2> QED BY <2>1, <2>2, <2>3, <2>4
<1>5. ASSUME NEW e
      PROVE  OnNet(e)' = OnNet(e) - (IF d = e /\ ~copy THEN 1 ELSE 0)
  BY <1>1 DEF OnNet
<1>6. ASSUME NEW e
      PROVE  Copies(e)' = Copies(e) + (IF d = e /\ copy THEN 1 ELSE 0)
  <2>1. OnNet(e) \in {0, 1} /\ InBuffer(e) \in {0, 1} /\ Cardinality(InSocket(e)) \in Nat
    BY CopiesType DEF NALInv
  <2>2. Copies(e)' = OnNet(e)' + Cardinality(InSocket(e))' + InBuffer(e)'
    BY DEF Copies
  <2> QED BY <1>4, <1>5, <2>1, <2>2 DEF Copies
<1>7. CASE copy /\ \E m \in Messages : d = WholeMessage(m)
  <2>1. PICK m \in Messages : d = WholeMessage(m)
    BY <1>7
  <2>2. \A k \in Messages : WholeMessage(k) = d <=> k = m
    BY <2>1 DEF WholeMessage
  <2>3. ASSUME NEW k \in Messages
        PROVE  Copies(WholeMessage(k))' = IF k = m THEN Copies(WholeMessage(k)) + 1
                                                  ELSE Copies(WholeMessage(k))
    <3> DEFINE e == WholeMessage(k)
    <3>1. (d = e <=> k = m) /\ e' = e
      BY <2>2 DEF WholeMessage
    <3>2. Copies(e) \in Nat
      BY CopiesType DEF NALInv
    <3> HIDE DEF e
    <3>3. Copies(e)' = IF k = m THEN Copies(e) + 1 ELSE Copies(e)
      BY <1>6, <1>7, <3>1, <3>2
    <3> QED BY <3>3 DEF e
  <2>4. Carried' = [Carried EXCEPT ![m] = @ + 1]
    BY <2>3 DEF Carried
  <2>5. Carried[m] > 0
    <3>1. OnNet(d) = 1 /\ InBuffer(d) \in {0, 1} /\ Cardinality(InSocket(d)) \in Nat
      BY CopiesType DEF NALInv, OnNet
    <3> QED BY <2>1, <3>1 DEF Carried, Copies
  <2> QED BY <1>3, <2>4, <2>5 DEF Channel!Duplicate
<1>8. CASE ~(copy /\ \E m \in Messages : d = WholeMessage(m))
  <2>1. ASSUME NEW k \in Messages
        PROVE  Copies(WholeMessage(k))' = Copies(WholeMessage(k))
    <3> DEFINE e == WholeMessage(k)
    <3>1. ~(d = e /\ copy) /\ e' = e
      BY <1>8 DEF WholeMessage
    <3>2. Copies(e) \in Nat
      BY CopiesType DEF NALInv
    <3> HIDE DEF e
    <3>3. Copies(e)' = Copies(e)
      BY <1>6, <3>1, <3>2
    <3> QED BY <3>3 DEF e
  <2> QED BY <1>3, <2>1, CarriedSame DEF Channel!channelVars
<1> QED BY <1>7, <1>8

(* A datagram goes from the socket into the buffer.                         *)
LEMMA RecvFromSimulates ==
  ASSUME NALInv, RecvFrom
  PROVE  UNCHANGED Channel!channelVars
<1>1. /\ rpc = "recvfrom" /\ queue # <<>> /\ queue \in Seq(Datagram)
      /\ UNCHANGED <<unsent, sending, net, object>>
  BY DEF RecvFrom, NALInv, SocketInv, TypeOK, sendVars
<1>2. \/ rcvd' = Head(queue) /\ queue' = Tail(queue) /\ rpc' = "decode"
      \/ rpc' = "error" /\ UNCHANGED <<rcvd, queue>>
  BY DEF RecvFrom, Goto
<1>3. Handed' = Handed /\ Owner' = Owner /\ Sending' = Sending /\ unsent' = unsent
  BY <1>1, <1>2 DEF Handed, Owner, InRound, Sending
<1>4. CASE rpc' = "error" /\ UNCHANGED <<rcvd, queue>>
  BY <1>1, <1>3, <1>4, Outside DEF Channel!channelVars
<1>5. CASE rcvd' = Head(queue) /\ queue' = Tail(queue) /\ rpc' = "decode"
  <2>1. ASSUME NEW e PROVE Copies(e)' = Copies(e)
    <3>1. InSocket(e) = At(queue, e) /\ InSocket(e)' = At(Tail(queue), e)
      BY <1>5 DEF InSocket, At
    <3>2. Cardinality(At(queue, e))
            = Cardinality(At(Tail(queue), e)) + (IF Head(queue) = e THEN 1 ELSE 0)
      BY <1>1, AtTail
    <3>3. /\ OnNet(e)' = OnNet(e) /\ InBuffer(e) = 0
          /\ InBuffer(e)' = IF Head(queue) = e THEN 1 ELSE 0
      BY <1>1, <1>5 DEF OnNet, InBuffer
    <3>4. Copies(e)' = OnNet(e)' + Cardinality(At(Tail(queue), e)) + InBuffer(e)'
      BY <3>1 DEF Copies
    <3>5. Copies(e) = OnNet(e) + Cardinality(At(queue, e)) + InBuffer(e)
      BY <3>1 DEF Copies
    <3>6. Tail(queue) \in Seq(Datagram)
      BY <1>1
    <3>7. OnNet(e) \in {0, 1} /\ Cardinality(At(Tail(queue), e)) \in Nat
      BY <3>6, AtFinite DEF OnNet
    <3> QED BY <3>2, <3>3, <3>4, <3>5, <3>7
  <2> QED BY <1>3, <2>1, CarriedSame DEF Channel!channelVars
<1> QED BY <1>2, <1>4, <1>5

(* A whole message is handed out, anything else is dropped.                 *)
LEMMA DecodeSimulates ==
  ASSUME NALInv, Decode
  PROVE  (\E m \in Messages : Channel!HandOut(m)) \/ UNCHANGED Channel!channelVars
<1>1. /\ rpc = "decode" /\ rcvd \in Datagram
      /\ UNCHANGED <<unsent, sending, net, queue, rcvd>>
      /\ IF Whole(rcvd) THEN object' = "live" /\ rpc' = "begin"
                        ELSE rpc' = "error" /\ object' = object
  BY DEF Decode, NALInv, SocketInv, sendVars, Goto
<1>2. Sending' = Sending /\ unsent' = unsent /\ Handed = None /\ Owner = "nobody"
  BY <1>1 DEF Sending, Handed, Owner, InRound
<1>3. rcvd.msg \in Messages
  BY <1>1 DEF Datagram
<1>4. ASSUME NEW e PROVE Copies(e)' = Copies(e) - (IF rcvd = e THEN 1 ELSE 0)
  <2>1. /\ OnNet(e)' = OnNet(e) /\ InSocket(e)' = InSocket(e) /\ InBuffer(e)' = 0
        /\ InBuffer(e) = IF rcvd = e THEN 1 ELSE 0
    BY <1>1 DEF OnNet, InSocket, InBuffer
  <2>2. OnNet(e) \in {0, 1} /\ Cardinality(InSocket(e)) \in Nat
    BY CopiesType DEF NALInv
  <2>3. Copies(e)' = OnNet(e) + Cardinality(InSocket(e)) + 0
    BY <2>1 DEF Copies
  <2> QED BY <2>1, <2>2, <2>3 DEF Copies
<1>5. CASE Whole(rcvd)
  <2> DEFINE m == rcvd.msg
  <2>1. rcvd = WholeMessage(m)
    BY <1>1, <1>3, <1>5, WholeIs
  <2>2. ASSUME NEW k \in Messages
        PROVE  Copies(WholeMessage(k))' = IF k = m THEN Copies(WholeMessage(k)) - 1
                                                  ELSE Copies(WholeMessage(k))
    <3> DEFINE e == WholeMessage(k)
    <3>1. (rcvd = e <=> k = m) /\ e' = e
      BY <2>1 DEF WholeMessage
    <3>2. Copies(e) \in Nat
      BY CopiesType DEF NALInv
    <3> HIDE DEF e, m
    <3>3. Copies(e)' = IF k = m THEN Copies(e) - 1 ELSE Copies(e)
      BY <1>4, <3>1, <3>2
    <3> QED BY <3>3 DEF e
  <2>3. Carried' = [Carried EXCEPT ![m] = @ - 1]
    BY <1>3, <2>2 DEF Carried
  <2>4. Carried[m] > 0
    <3>1. InBuffer(rcvd) = 1 /\ OnNet(rcvd) \in {0, 1} /\ Cardinality(InSocket(rcvd)) \in Nat
      BY <1>1, CopiesType DEF NALInv, InBuffer
    <3> QED BY <1>3, <2>1, <3>1 DEF Carried, Copies
  <2>5. Handed' = m /\ Owner' = "handler"
    BY <1>1, <1>5 DEF Handed, Owner, InRound
  <2> QED BY <1>2, <1>3, <2>3, <2>4, <2>5 DEF Channel!HandOut
<1>6. CASE ~Whole(rcvd)
  <2>1. ASSUME NEW k \in Messages
        PROVE  Copies(WholeMessage(k))' = Copies(WholeMessage(k))
    <3> DEFINE e == WholeMessage(k)
    <3>1. rcvd # e /\ e' = e
      BY <1>1, <1>6, WholeIs DEF WholeMessage
    <3>2. Copies(e) \in Nat
      BY CopiesType DEF NALInv
    <3> HIDE DEF e
    <3>3. Copies(e)' = Copies(e)
      BY <1>4, <3>1, <3>2
    <3> QED BY <3>3 DEF e
  <2>2. Handed' = Handed /\ Owner' = Owner
    BY <1>1, <1>2, <1>6 DEF Handed, Owner, InRound
  <2> QED BY <1>2, <2>1, <2>2, CarriedSame DEF Channel!channelVars
<1> QED BY <1>5, <1>6

(* Each step of the layer is one of the channel, or none that it knows.     *)
LEMMA ImplementsStep ==
  ASSUME NALInv, NALInv', ChannelInv, [Next]_vars
  PROVE  [Channel!Next]_Channel!channelVars
<1>1. CASE \E m \in Messages : Send(m)
  <2>1. PICK m \in Messages : Send(m)
    BY <1>1
  <2>2. /\ sending = None /\ m \in unsent /\ sending' = [msg |-> m, start |-> 0]
        /\ unsent' = unsent \ {m}
        /\ UNCHANGED <<net, queue, rpc, rcvd, object>>
    BY <2>1 DEF Send, recvVars
  <2>3. sending' # None
    BY <2>1, <2>2, NALAssumption
  <2>4. Sending = None /\ Sending' = m
    BY <2>2, <2>3 DEF Sending
  <2>5. Handed' = Handed /\ Owner' = Owner
    BY <2>2 DEF Handed, Owner, InRound
  <2>6. Carried' = Carried
    BY <2>2 DEF Carried, Copies, OnNet, InSocket, InBuffer, WholeMessage
  <2>7. Channel!Send(m)
    BY <2>2, <2>4, <2>5, <2>6 DEF Channel!Send
  <2> QED BY <2>1, <2>7 DEF Channel!Next
<1>2. CASE SendTo
  BY <1>2, SendToSimulates DEF Channel!Next
<1>3. CASE SendFails
  <2>1. /\ sending # None /\ sending' = None
        /\ UNCHANGED <<unsent, net, queue, rpc, rcvd, object>>
    BY <1>3 DEF SendFails, recvVars
  <2>2. Sending # None /\ Sending' = None
    BY <2>1, NALAssumption DEF NALInv, TypeOK, Sending
  <2>3. Handed' = Handed /\ Owner' = Owner
    BY <2>1 DEF Handed, Owner, InRound
  <2>4. Carried' = Carried
    BY <2>1 DEF Carried, Copies, OnNet, InSocket, InBuffer, WholeMessage
  <2> QED BY <2>1, <2>2, <2>3, <2>4 DEF Channel!GiveUp, Channel!Next
<1>4. CASE \E d \in net, copy \in BOOLEAN : Arrive(d, copy)
  BY <1>4, ArriveSimulates DEF Channel!Next
<1>5. ASSUME UNCHANGED <<unsent, sending, net, queue>>, rpc # "decode", rpc' # "decode"
      PROVE  UNCHANGED <<unsent, Sending, Carried>>
  BY <1>5, Outside DEF Sending
<1>6. CASE Loop \/ Bind \/ Poll \/ ReportError
  <2>1. /\ UNCHANGED <<unsent, sending, net, queue>>
        /\ rpc # "decode" /\ rpc' # "decode" /\ ~InRound /\ ~InRound'
    BY <1>6 DEF Loop, Bind, Poll, ReportError, Goto, InRound, sendVars
  <2>2. Handed' = Handed /\ Owner' = Owner
    BY <2>1 DEF Handed, Owner
  <2> QED BY <1>5, <2>1, <2>2 DEF Channel!channelVars
<1>7. CASE RecvFrom
  BY <1>7, RecvFromSimulates
<1>8. CASE Decode
  BY <1>8, DecodeSimulates DEF Channel!Next
<1>9. CASE InvokeBegin \/ InvokeEnd
  <2>1. /\ UNCHANGED <<unsent, sending, net, queue, rcvd, object>>
        /\ rpc # "decode" /\ rpc' # "decode" /\ InRound /\ InRound'
    BY <1>9 DEF InvokeBegin, InvokeEnd, Goto, InRound, sendVars
  <2>2. Handed' = Handed /\ Owner' = Owner
    BY <2>1 DEF Handed, Owner
  <2> QED BY <1>5, <2>1, <2>2 DEF Channel!channelVars
<1>10. CASE InvokeThrows \/ InvokeFree
  <2>1. /\ UNCHANGED <<unsent, sending, net, queue>>
        /\ rpc # "decode" /\ rpc' # "decode" /\ InRound /\ ~InRound'
    BY <1>10 DEF InvokeThrows, InvokeFree, Goto, InRound, sendVars
  <2>2. Owner # "nobody" /\ Owner' = "nobody" /\ Handed' = None
    BY <2>1 DEF Handed, Owner
  <2> QED BY <1>5, <2>1, <2>2 DEF Channel!Finish, Channel!Next
<1>11. CASE InvokeCallback
  <2>1. /\ UNCHANGED <<unsent, sending, net, queue, rpc, rcvd>>
        /\ rpc # "decode" /\ rpc' # "decode" /\ InRound /\ InRound'
    BY <1>11 DEF InvokeCallback, InRound, sendVars
  <2>2. Handed' = Handed
    BY <2>1 DEF Handed
  <2>3. object' = object \/ (object = "live" /\ object' = "owned")
    <3>1. fault' # "memory"
      BY DEF NALInv, RoundInv
    <3> QED BY <1>11, <3>1 DEF InvokeCallback
  <2>4. CASE object' = object
    BY <1>5, <2>1, <2>2, <2>4 DEF Owner, Channel!channelVars
  <2>5. CASE object = "live" /\ object' = "owned"
    <3>1. Owner = "handler" /\ Owner' = "callback"
      BY <2>1, <2>5 DEF Owner
    <3> QED BY <1>5, <2>1, <2>2, <3>1 DEF Channel!Take, Channel!Next
  <2> QED BY <2>3, <2>4, <2>5
<1>12. CASE registerCallback \/ unregisterCallbacks \/ Stop \/ Join \/ Ended \/ UNCHANGED vars
  <2>1. UNCHANGED <<unsent, sending, net, queue, rpc, rcvd, object>>
    BY <1>12 DEF registerCallback, unregisterCallbacks, Stop, Join, Ended, vars, sendVars, recvVars
  <2>2. Handed' = Handed /\ Owner' = Owner
    BY <2>1 DEF Handed, Owner, InRound
  <2>3. Carried' = Carried
    BY <2>1 DEF Carried, Copies, OnNet, InSocket, InBuffer, WholeMessage
  <2> QED BY <2>1, <2>2, <2>3 DEF Sending, Channel!channelVars
<1> QED
  BY <1>1, <1>2, <1>3, <1>4, <1>6, <1>7, <1>8, <1>9, <1>10, <1>11, <1>12 DEF Next, Receive

(* Whatever is lost, copied or reordered, whatever fails, and whatever the  *)
(* sizes of messages and chunks: the layer implements a channel that hands  *)
(* out only what was sent whole, no more often than the network copied it,  *)
(* and of which each message is taken once at most.                         *)
THEOREM NALImplementsChannel == Spec => ImplementsChannel
<1> DEFINE Inv == NALInv /\ ChannelInv
<1>1. Init => Inv /\ Channel!Init
  BY NALInit, ChannelInit, ImplementsInit
<1>2. Inv /\ [Next]_vars => Inv'
  BY NALStep, ChannelStep
<1>3. Inv /\ Inv' /\ [Next]_vars => [Channel!Next]_Channel!channelVars
  BY ImplementsStep
<1> HIDE DEF Inv
<1> QED BY <1>1, <1>2, <1>3, PTL DEF Spec, ImplementsChannel, Channel!Spec
=============================================================================
