------------------------------ MODULE MCLobby -------------------------------
(***************************************************************************)
(* The dispatcher and its clients with small constants for TLC.            *)
(***************************************************************************)
EXTENDS Lobby

CONSTANTS anna, ben

Two == {anna, ben}
Unordered == {"loss", "reorder"}

OneGame == {"1"}
AnyArgument == {"1", "bad", "nothing"}
=============================================================================
