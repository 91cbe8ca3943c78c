--------------------------- MODULE MCSlotMachine ----------------------------
(***************************************************************************)
(* The slot machine with small constants for TLC.                          *)
(***************************************************************************)
EXTENDS SlotMachine

NoFaults == {}
Unordered == {"loss", "reorder"}

(* One triple per case of the server's reward: three sevens, another three *)
(* of a kind, a pair and three different digits.                           *)
AllRewards == {<<7, 7, 7>>, <<0, 0, 0>>, <<1, 1, 2>>, <<1, 2, 3>>}
Nothing == {<<1, 2, 3>>}

(* A line that is one key long, and lines that leave an ordinary key, a    *)
(* stop or a quit to stdio in front of their newline.                      *)
Lines == {<<>>, <<"x">>, <<"s", "x">>, <<"q", "x">>}
OneKey == {<<>>, <<"x">>}
=============================================================================
