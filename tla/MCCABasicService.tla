-------------------------- MODULE MCCABasicService --------------------------
(***************************************************************************)
(* A finite instance of the sending half of CABasicService.                *)
(***************************************************************************)
EXTENDS CABasicService

MCMotions == 0..2
=============================================================================
