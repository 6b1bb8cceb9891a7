-------------------------- MODULE MCDENBasicService --------------------------
(***************************************************************************)
(* Small instances of DENBasicService.                                     *)
(***************************************************************************)
EXTENDS DENBasicService

CONSTANTS a, b

\* The least and the greatest that is copied, whose int is negative.
MCStationIDs == {<<0, 0, 0, 1>>, <<255, 127, 255, 255>>}
=============================================================================
