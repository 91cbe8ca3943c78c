---------------------------- MODULE MCHorseRace -----------------------------
(***************************************************************************)
(* The horse race with small constants for TLC.                            *)
(***************************************************************************)
EXTENDS HorseRace

NoFaults == {}
AllFaults == {"loss", "duplicate", "reorder"}
=============================================================================
