----------------------------- MODULE MCDiceGame -----------------------------
(***************************************************************************)
(* The dice game with small constants for TLC.                             *)
(***************************************************************************)
EXTENDS DiceGame

CONSTANTS anna, ben

Two == {anna, ben}
AllFaults == {"loss", "duplicate", "reorder"}

(* Two faces are enough for either side to win and for a draw.             *)
TwoFaces == {1, 6}
=============================================================================
