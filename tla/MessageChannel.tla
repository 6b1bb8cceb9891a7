--------------------------- MODULE MessageChannel ---------------------------
(***************************************************************************)
(* What INetworkInterface and IRecvHandler promise, without sockets,       *)
(* datagrams, system calls or threads: a message is carried only if it     *)
(* fits into one datagram and was sent; each copy that the network carries *)
(* is handed out at most once; and each message that is handed out has one *)
(* owner, the handler or the callback that took it.                        *)
(***************************************************************************)
EXTENDS Integers

CONSTANTS Messages,  \* messages, each sent once
          Fits,      \* the messages that fit into one datagram
          None

VARIABLES unsent,    \* messages not yet given to send
          sending,   \* the message whose send is under way, or None
          carried,   \* how many copies of each message may still be handed out
          handed,    \* the message that the callbacks are given, or None
          owner      \* its owner: "handler", "callback" or "nobody"

channelVars == <<unsent, sending, carried, handed, owner>>

Init ==
  /\ unsent = Messages /\ sending = None
  /\ carried = [m \in Messages |-> 0]
  /\ handed = None /\ owner = "nobody"

Send(m) ==
  /\ sending = None /\ m \in unsent
  /\ sending' = m /\ unsent' = unsent \ {m}
  /\ UNCHANGED <<carried, handed, owner>>

\* The message is on its way, whole.
Carry ==
  /\ sending \in Fits
  /\ carried' = [carried EXCEPT ![sending] = @ + 1]
  /\ sending' = None
  /\ UNCHANGED <<unsent, handed, owner>>

\* The send failed, or sent the message in parts, which are of no use.
GiveUp ==
  /\ sending # None /\ sending' = None
  /\ UNCHANGED <<unsent, carried, handed, owner>>

\* Only what the network carries can be copied.
Duplicate(m) ==
  /\ carried[m] > 0
  /\ carried' = [carried EXCEPT ![m] = @ + 1]
  /\ UNCHANGED <<unsent, sending, handed, owner>>

\* The callbacks are given a message, one message at a time.
HandOut(m) ==
  /\ owner = "nobody" /\ carried[m] > 0
  /\ carried' = [carried EXCEPT ![m] = @ - 1]
  /\ handed' = m /\ owner' = "handler"
  /\ UNCHANGED <<unsent, sending>>

\* A callback takes the message, the first and only one.
Take ==
  /\ owner = "handler" /\ owner' = "callback"
  /\ UNCHANGED <<unsent, sending, carried, handed>>

\* The round is over.
Finish ==
  /\ owner # "nobody"
  /\ handed' = None /\ owner' = "nobody"
  /\ UNCHANGED <<unsent, sending, carried>>

Next ==
  \/ \E m \in Messages : Send(m) \/ Duplicate(m) \/ HandOut(m)
  \/ Carry \/ GiveUp \/ Take \/ Finish

Spec == Init /\ [][Next]_channelVars
=============================================================================
