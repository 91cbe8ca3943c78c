------------------------------- MODULE MCLand -------------------------------
(***************************************************************************)
(* The dispatcher with the dice game's processes, small constants for TLC. *)
(***************************************************************************)
EXTENDS Land

CONSTANTS anna, ben

One == {anna}
Two == {anna, ben}
NoFaults == {}

TwoGames == {"1", "2"}
Numbered == {"1", "2"}
GivenArgument == {"1", "2", "bad"}

(* One face: who is answered matters here, not what is rolled.             *)
OneFace == {1}
=============================================================================
