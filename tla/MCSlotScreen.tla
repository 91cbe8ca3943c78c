---------------------------- MODULE MCSlotScreen ----------------------------
(***************************************************************************)
(* The slot machine with its screen and button, small constants for TLC.   *)
(***************************************************************************)
EXTENDS SlotScreen

NoFaults == {}

(* A triple that pays 100 (also what a stop in the first frame reports), a *)
(* pair that pays 10, and nothing.                                         *)
ThreeRewards == {<<0, 0, 0>>, <<1, 1, 2>>, <<9, 2, 3>>}

(* What a first line leaves in stdio: nothing, its newline, or a stop and  *)
(* its newline.                                                            *)
Lines == {<<>>, <<"x">>, <<"s", "x">>}
=============================================================================
