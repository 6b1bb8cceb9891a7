---------------------------- MODULE MCSocketNAL ----------------------------
(***************************************************************************)
(* A finite instance of the network access layer: one message that fits    *)
(* into a datagram, one that does not; a callback that only looks at the   *)
(* messages and a service's callback, which takes them.                    *)
(***************************************************************************)
EXTENDS SocketNAL, TLC

CONSTANTS small, large

MCSize == (small :> 2) @@ (large :> 3)
MCRegistrations == <<"keep", "take">>
=============================================================================
