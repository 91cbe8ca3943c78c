----------------------------- MODULE SlotLedger -----------------------------
(***************************************************************************)
(* The slot-machine server's account of the player, with no network and no *)
(* client: a stop costs ten coins and leaves a round owed, an owed round   *)
(* is settled once, by one of the prizes the source names, and the account *)
(* closes when the player quits or restarts without coins.                 *)
(***************************************************************************)
EXTENDS Integers

CONSTANT InitCoin

VARIABLES coin, phase

Cost == 10

(* slot_machine_server.c:165-177, the prize nobody can win included.       *)
Prizes == {0, 10, 100, 1000}

Init == coin = InitCoin /\ phase = "idle"

Stop == phase = "idle" /\ coin' = coin - Cost /\ phase' = "owed"

Settle ==
    /\ phase = "owed"
    /\ \E prize \in Prizes : coin' = coin + prize
    /\ phase' = "idle"

Restart == phase = "idle" /\ coin <= 0 /\ coin' = Cost /\ phase' = "closed"

Close == phase = "idle" /\ phase' = "closed" /\ UNCHANGED coin

Next == Stop \/ Settle \/ Restart \/ Close

Spec == Init /\ [][Next]_<<coin, phase>>
=============================================================================
