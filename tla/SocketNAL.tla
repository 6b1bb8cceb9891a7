------------------------------ MODULE SocketNAL ------------------------------
(***************************************************************************)
(* The network access layer: SocketNAL<T>, the two UDPSockets it sends and *)
(* receives on, its receive thread, and the RecvHandler whose callbacks get *)
(* the decoded messages.  The network loses, duplicates and reorders       *)
(* datagrams; system calls may fail.                                       *)
(***************************************************************************)
EXTENDS Integers, Sequences, FiniteSets

CONSTANTS Messages,       \* encoded messages, each sent once
          Size,           \* Size[m]: bytes of encoded message m
          MaxSendSize,    \* SOCKET_MAX_SEND_SIZE
          Registrations,  \* what the callbacks do, in the order they are
                          \* registered: "take" the message or "keep" off it
          MaxTrouble,     \* bound: failing system calls, duplicates, short
                          \* sends and throwing callbacks
          None

Datagram == [msg : Messages, from : Nat, len : Nat]

ASSUME NALAssumption ==
  /\ Size \in [Messages -> Nat \ {0}] /\ MaxSendSize \in Nat \ {0}
  /\ Registrations \in Seq({"take", "keep"})
  /\ MaxTrouble \in Nat
  /\ None \notin Messages \cup Datagram \cup [msg : Messages, start : Nat]

\* The one callback that takes messages is the service's receiveCallback.
ASSUME OneTakerAssumption ==
  \A i, j \in DOMAIN Registrations :
    Registrations[i] = "take" /\ Registrations[j] = "take" => i = j

VARIABLES
  unsent,     \* messages not yet given to send
  sending,    \* the send call under way: message and chunkStart, or None
  chunks,     \* history: the datagrams of that call
  net,        \* datagrams on the network
  queue,      \* datagrams in the receiving socket
  isBound,    \* _isBound of the receiving socket
  rpc,        \* where the receive thread is
  rcvd,       \* the datagram in _buffer, or None
  object,     \* the message decoded last: "none", "live", "owned" by a
              \* callback or "freed"
  took,       \* tookOwnership
  threw,      \* history: a callback threw and left the message as it was
  callbacks,  \* _callbacks
  capacity,   \* elements the vector's memory has room for
  iter,       \* the loop's iterators: memory they point to, position, end
  active,     \* _recvActive
  joined,     \* ~SocketNAL has returned
  trouble,    \* what MaxTrouble leaves
  registered, \* callbacks registered so far
  handled,    \* history: datagrams whose message the callbacks were given
  fault       \* "none", "memory" (a message freed twice or used after free)
              \* or "iterator" (the loop runs over memory that is gone)

sendVars == <<unsent, sending, chunks>>
recvVars == <<rcvd, object, took, threw, iter, handled>>
cbVars   == <<callbacks, capacity, registered>>
vars == <<sendVars, net, queue, isBound, rpc, recvVars, cbVars, active, joined,
          trouble, fault>>

TypeOK ==
  /\ unsent \subseteq Messages
  /\ sending = None \/ (sending.msg \in Messages /\ sending.start \in 0..(Size[sending.msg] - 1))
  /\ chunks \subseteq Datagram /\ net \subseteq Datagram /\ handled \subseteq Datagram
  /\ queue \in Seq(Datagram) /\ rcvd \in Datagram \cup {None}
  /\ rpc \in {"loop", "bind", "poll", "recvfrom", "decode", "error",
              "begin", "end", "callback", "done"}
  /\ object \in {"none", "live", "owned", "freed"}
  /\ callbacks \in Seq({"take", "keep"}) /\ Len(callbacks) <= capacity
  /\ iter \in [memory : 0..(2 * Len(Registrations)), next : Nat, last : Nat]
  /\ isBound \in BOOLEAN /\ took \in BOOLEAN /\ threw \in BOOLEAN
  /\ active \in BOOLEAN /\ joined \in BOOLEAN
  /\ trouble \in 0..MaxTrouble /\ registered \in 0..Len(Registrations)
  /\ fault \in {"none", "memory", "iterator"}

NoIter == [memory |-> 0, next |-> 1, last |-> 0]

Init ==
  /\ unsent = Messages /\ sending = None /\ chunks = {}
  /\ net = {} /\ queue = <<>> /\ isBound = FALSE
  /\ rpc = "loop" /\ rcvd = None
  /\ object = "none" /\ took = FALSE /\ threw = FALSE
  /\ callbacks = <<>> /\ capacity = 0 /\ registered = 0 /\ iter = NoIter
  /\ active = TRUE /\ joined = FALSE
  /\ trouble = MaxTrouble /\ handled = {} /\ fault = "none"

Running == fault = "none" /\ ~joined

\* A system call fails, a callback throws or the network misbehaves.
Trouble == trouble > 0 /\ trouble' = trouble - 1

-----------------------------------------------------------------------------
(* SocketNAL::send and UDPSocket::send *)

Send(m) ==
  /\ Running /\ sending = None /\ m \in unsent
  /\ unsent' = unsent \ {m}
  /\ sending' = [msg |-> m, start |-> 0]
  /\ chunks' = {}
  /\ UNCHANGED <<net, queue, isBound, rpc, recvVars, cbVars, active, joined, trouble, fault>>

chunkSize(remainingLen) == IF remainingLen > MaxSendSize THEN MaxSendSize ELSE remainingLen

\* Mutant: chunkStart advances by what was asked for, not by what was sent.
advanceByChunk(start, sizeSent, remainingLen) == start + chunkSize(remainingLen)

\* chunkStart after a call of sendto.
advance(start, sizeSent, remainingLen) == start + sizeSent

\* One call of sendto, which may send less than the chunk.
SendTo ==
  LET m == sending.msg
      remainingLen == Size[m] - sending.start
  IN
  /\ Running /\ sending # None
  /\ \E sizeSent \in 1..chunkSize(remainingLen) :
       LET d == [msg |-> m, from |-> sending.start, len |-> sizeSent]
           start == advance(sending.start, sizeSent, remainingLen)
       IN /\ net' = net \cup {d}
          /\ chunks' = chunks \cup {d}
          /\ sending' = IF start = Size[m] THEN None ELSE [msg |-> m, start |-> start]
          /\ IF sizeSent < chunkSize(remainingLen) THEN Trouble ELSE UNCHANGED trouble
  /\ UNCHANGED <<unsent, queue, isBound, rpc, recvVars, cbVars, active, joined, fault>>

\* sendto returns -1: a NetworkException leaves send.
SendFails ==
  /\ Running /\ sending # None /\ Trouble
  /\ sending' = None
  /\ chunks' = {}
  /\ UNCHANGED <<unsent, net, queue, isBound, rpc, recvVars, cbVars, active, joined, fault>>

-----------------------------------------------------------------------------
(* The network *)

\* A datagram reaches the socket if it is bound, in any order; the network may
\* keep a copy.  A datagram that never arrives is lost.
Arrive(d, copy) ==
  /\ Running /\ d \in net /\ isBound
  /\ queue' = Append(queue, d)
  /\ net' = IF copy THEN net ELSE net \ {d}
  /\ IF copy THEN Trouble ELSE UNCHANGED trouble
  /\ UNCHANGED <<sendVars, isBound, rpc, recvVars, cbVars, active, joined, fault>>

-----------------------------------------------------------------------------
(* SocketNAL::receive and UDPSocket::recv *)

Goto(label) == rpc' = label

\* Mutant: the flag is not looked at.
LoopForever ==
  /\ Running /\ rpc = "loop"
  /\ Goto("bind")
  /\ UNCHANGED <<sendVars, net, queue, isBound, recvVars, cbVars, active, joined, trouble, fault>>

Loop ==
  /\ Running /\ rpc = "loop"
  /\ Goto(IF active THEN "bind" ELSE "done")
  /\ UNCHANGED <<sendVars, net, queue, isBound, recvVars, cbVars, active, joined, trouble, fault>>

\* bindSocket: the socket is bound by the first call that succeeds.
Bind ==
  /\ Running /\ rpc = "bind"
  /\ \/ isBound' = TRUE /\ Goto("poll") /\ UNCHANGED trouble
     \/ ~isBound /\ Trouble /\ Goto("error") /\ UNCHANGED isBound
  /\ UNCHANGED <<sendVars, net, queue, recvVars, cbVars, active, joined, fault>>

\* Data, the timeout (no data, or an event that is none of ours), or failure.
Poll ==
  /\ Running /\ rpc = "poll"
  /\ \/ queue # <<>> /\ Goto("recvfrom") /\ UNCHANGED trouble
     \/ queue = <<>> /\ Goto("loop") /\ UNCHANGED trouble
     \/ Trouble /\ Goto("loop")
     \/ Trouble /\ Goto("error")
  /\ UNCHANGED <<sendVars, net, queue, isBound, recvVars, cbVars, active, joined, fault>>

\* Mutant: a failing recvfrom goes unnoticed and the old buffer is decoded.
RecvFromStale ==
  /\ Running /\ rpc = "recvfrom"
  /\ \/ /\ rcvd' = Head(queue) /\ queue' = Tail(queue)
        /\ Goto("decode") /\ UNCHANGED trouble
     \/ Trouble /\ rcvd # None /\ Goto("decode") /\ UNCHANGED <<rcvd, queue>>
  /\ UNCHANGED <<sendVars, net, isBound, object, took, threw, iter, handled, cbVars, active, joined, fault>>

RecvFrom ==
  /\ Running /\ rpc = "recvfrom"
  /\ \/ /\ rcvd' = Head(queue) /\ queue' = Tail(queue)
        /\ Goto("decode") /\ UNCHANGED trouble
     \/ Trouble /\ Goto("error") /\ UNCHANGED <<rcvd, queue>>
  /\ UNCHANGED <<sendVars, net, isBound, object, took, threw, iter, handled, cbVars, active, joined, fault>>

\* ber_decode needs the whole message.
Whole(d) == d.from = 0 /\ d.len = Size[d.msg]

\* Mutant: the exception does not skip the rest of the round.
DecodeGoesOn ==
  /\ Running /\ rpc = "decode"
  /\ object' = IF Whole(rcvd) THEN "live" ELSE object
  /\ took' = FALSE /\ threw' = FALSE
  /\ Goto("begin")
  /\ UNCHANGED <<sendVars, net, queue, isBound, rcvd, iter, handled, cbVars, active, joined, trouble, fault>>

Decode ==
  /\ Running /\ rpc = "decode"
  /\ IF Whole(rcvd)
     THEN object' = "live" /\ took' = FALSE /\ threw' = FALSE /\ Goto("begin")
     ELSE Goto("error") /\ UNCHANGED <<object, took, threw>>
  /\ UNCHANGED <<sendVars, net, queue, isBound, rcvd, iter, handled, cbVars, active, joined, trouble, fault>>

\* Mutant: the thread leaves on an error.
ReportErrorAndLeave ==
  /\ Running /\ rpc = "error"
  /\ Goto("done")
  /\ UNCHANGED <<sendVars, net, queue, isBound, recvVars, cbVars, active, joined, trouble, fault>>

\* ErrorHandler::invoke; what its callbacks throw is caught.
ReportError ==
  /\ Running /\ rpc = "error"
  /\ Goto("loop")
  /\ UNCHANGED <<sendVars, net, queue, isBound, recvVars, cbVars, active, joined, trouble, fault>>

-----------------------------------------------------------------------------
(* RecvHandler::invoke: the loop over the callbacks holds no lock *)

InvokeBegin ==
  /\ Running /\ rpc = "begin"
  /\ iter' = [memory |-> capacity, next |-> 1, last |-> 0]
  /\ Goto("end")
  /\ UNCHANGED <<sendVars, net, queue, isBound, rcvd, object, took, threw, handled, cbVars, active, joined, trouble, fault>>

InvokeEnd ==
  /\ Running /\ rpc = "end"
  /\ iter' = [iter EXCEPT !.last = Len(callbacks)]
  /\ fault' = IF iter.memory = capacity THEN "none" ELSE "iterator"
  /\ handled' = handled \cup {rcvd}
  /\ Goto("callback")
  /\ UNCHANGED <<sendVars, net, queue, isBound, rcvd, object, took, threw, cbVars, active, joined, trouble>>

\* The next callback of the loop.
Callable == iter.memory = capacity /\ iter.next <= Len(callbacks)

\* A callback throws; the receive thread catches it and begins a new round.
\* In receiveCallback the message belongs to a CAMWrapper by then, which frees it.
InvokeThrows ==
  /\ Running /\ rpc = "callback" /\ iter.next <= iter.last
  /\ Callable /\ Trouble
  /\ object' = IF callbacks[iter.next] = "take" THEN "freed" ELSE object
  /\ threw' = TRUE
  /\ Goto("loop")
  /\ UNCHANGED <<sendVars, net, queue, isBound, rcvd, took, iter, handled, cbVars, active, joined, fault>>

\* receiveCallback puts the message into the database and takes it.
InvokeCallback ==
  /\ Running /\ rpc = "callback" /\ iter.next <= iter.last
  /\ IF Callable
     THEN LET takes == callbacks[iter.next] = "take" IN
          /\ fault' = IF object = "live" \/ (object = "owned" /\ ~takes) THEN "none" ELSE "memory"
          /\ object' = IF takes THEN "owned" ELSE object
          /\ took' = (took \/ takes)
          /\ iter' = [iter EXCEPT !.next = @ + 1]
     ELSE fault' = "iterator" /\ UNCHANGED <<object, took, iter>>
  /\ UNCHANGED <<sendVars, net, queue, isBound, rpc, rcvd, threw, handled, cbVars, active, joined, trouble>>

\* Mutant: the message is freed only if it was taken.
InvokeFreeTaken ==
  /\ Running /\ rpc = "callback" /\ iter.next > iter.last
  /\ object' = IF took THEN "freed" ELSE object
  /\ Goto("loop")
  /\ UNCHANGED <<sendVars, net, queue, isBound, rcvd, took, threw, iter, handled, cbVars, active, joined, trouble, fault>>

InvokeFree ==
  /\ Running /\ rpc = "callback" /\ iter.next > iter.last
  /\ object' = IF took THEN object ELSE "freed"
  /\ fault' = IF took \/ object = "live" THEN "none" ELSE "memory"
  /\ Goto("loop")
  /\ UNCHANGED <<sendVars, net, queue, isBound, rcvd, took, threw, iter, handled, cbVars, active, joined, trouble>>

-----------------------------------------------------------------------------
(* The application's thread *)

\* Mutant: the vector does not grow.
registerCallbackInPlace ==
  /\ Running /\ active /\ registered < Len(Registrations)
  /\ registered' = registered + 1
  /\ callbacks' = Append(callbacks, Registrations[registered + 1])
  /\ UNCHANGED <<sendVars, net, queue, isBound, rpc, recvVars, capacity, active, joined, trouble, fault>>

\* push_back moves a full vector to memory twice as large.
registerCallback ==
  /\ Running /\ active /\ registered < Len(Registrations)
  /\ registered' = registered + 1
  /\ callbacks' = Append(callbacks, Registrations[registered + 1])
  /\ capacity' = IF Len(callbacks) < capacity THEN capacity
                 ELSE IF capacity = 0 THEN 1 ELSE 2 * capacity
  /\ UNCHANGED <<sendVars, net, queue, isBound, rpc, recvVars, active, joined, trouble, fault>>

unregisterCallbacks ==
  /\ Running /\ active /\ registered = Len(Registrations) /\ callbacks # <<>>
  /\ callbacks' = <<>>
  /\ UNCHANGED <<sendVars, net, queue, isBound, rpc, recvVars, capacity, registered, active, joined, trouble, fault>>

\* ~SocketNAL: the flag, then join().
Stop ==
  /\ Running /\ active /\ sending = None
  /\ active' = FALSE
  /\ UNCHANGED <<sendVars, net, queue, isBound, rpc, recvVars, cbVars, joined, trouble, fault>>

Join ==
  /\ Running /\ ~active /\ rpc = "done"
  /\ joined' = TRUE
  /\ UNCHANGED <<sendVars, net, queue, isBound, rpc, recvVars, cbVars, active, trouble, fault>>

-----------------------------------------------------------------------------
Receive ==
  \/ Loop \/ Bind \/ Poll \/ RecvFrom \/ Decode \/ ReportError
  \/ InvokeBegin \/ InvokeEnd \/ InvokeThrows \/ InvokeCallback \/ InvokeFree

\* The process has ended.
Ended == ~Running /\ UNCHANGED vars

Next ==
  \/ \E m \in Messages : Send(m)
  \/ SendTo \/ SendFails
  \/ \E d \in net, copy \in BOOLEAN : Arrive(d, copy)
  \/ Receive
  \/ registerCallback \/ unregisterCallbacks
  \/ Stop \/ Join \/ Ended

\* The receive thread is scheduled, its callbacks return, and so does join().
Spec == Init /\ [][Next]_vars /\ WF_vars(Receive) /\ WF_vars(Join)

-----------------------------------------------------------------------------
(* A received message is freed once, by the handler or by the callback that *)
(* took it, and no callback is given one that is gone: also when the round  *)
(* before ended in an error.                                                *)
NoMemoryFault == fault # "memory"

(* At the loop's head the last message is freed or owned by a callback,     *)
(* unless a callback threw before anyone took it.                           *)
NothingLeaks == rpc = "loop" /\ object = "live" => threw

(* A send that succeeds has put every byte of the message into exactly one  *)
(* datagram, also when sendto sends less than it was asked to.              *)
SendCoversMessage ==
  [][\A m \in Messages :
       sending # None /\ sending.msg = m /\ sending' = None /\ chunks' # {} =>
         \A byte \in 0..(Size[m] - 1) :
           Cardinality({d \in chunks' : d.from <= byte /\ byte < d.from + d.len}) = 1]_vars

\* The layer as a channel of messages.  What is carried of a message are the
\* whole datagrams on the network, in the socket and in the decoder's buffer.
WholeMessage(m) == [msg |-> m, from |-> 0, len |-> Size[m]]
OnNet(d) == IF d \in net THEN 1 ELSE 0
InSocket(d) == {k \in 1..Len(queue) : queue[k] = d}
InBuffer(d) == IF rpc = "decode" /\ rcvd = d THEN 1 ELSE 0
Copies(d) == OnNet(d) + Cardinality(InSocket(d)) + InBuffer(d)
InRound == rpc \in {"begin", "end", "callback"}

Fits    == {m \in Messages : Size[m] <= MaxSendSize}
Sending == IF sending = None THEN None ELSE sending.msg
Carried == [m \in Messages |-> Copies(WholeMessage(m))]
Handed  == IF InRound THEN rcvd.msg ELSE None
Owner   == IF ~InRound THEN "nobody"
           ELSE IF object = "owned" THEN "callback" ELSE "handler"

Channel == INSTANCE MessageChannel WITH
  sending <- Sending, carried <- Carried, handed <- Handed, owner <- Owner

(* Sockets, chunks, errors and callbacks implement a channel of messages:   *)
(* the callbacks are given only messages that were sent and fit into one    *)
(* datagram, each no more often than the network copied it, and each is     *)
(* taken at most once.                                                      *)
ImplementsChannel == Channel!Spec

(* A whole message in the socket is given to the callbacks: failing system  *)
(* calls, datagrams that do not decode and throwing callbacks do not stop   *)
(* the receive thread.                                                      *)
WholeMessagesHandled ==
  \A m \in Messages :
    LET d == [msg |-> m, from |-> 0, len |-> Size[m]] IN
    (\E k \in 1..Len(queue) : queue[k] = d) ~> (d \in handled \/ ~active \/ fault # "none")

(* The destructor returns, whatever the receive thread is doing.            *)
StopReturns == ~active ~> (joined \/ fault # "none")
=============================================================================
