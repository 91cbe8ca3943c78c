------------------------------ MODULE DiceGame ------------------------------
(***************************************************************************)
(* Dice_server.c and Dice_client.c.  One run of the server answers one     *)
(* datagram and ends on the next one, whoever sends it.  Several clients   *)
(* may be there at once: client.c starts the dice client whether or not    *)
(* the dispatcher has started a server for it.                             *)
(*                                                                         *)
(* spc: "boot" before bind, "first" and "second" in the two recvfroms,     *)
(* "exited".  cpc[c]: "init", "await" the result, "show" it, "exited".     *)
(***************************************************************************)
EXTENDS Udp, Integers

CONSTANTS
    Clients,
    Dice,          \* the faces a die can show
    UserWaits      \* TRUE: clients start only once the server is bound

ASSUME DiceAssumption ==
    /\ Dice \subseteq 1 .. 6 /\ Dice # {}
    /\ UserWaits \in BOOLEAN

VARIABLES
    spc,
    inbox,     \* datagrams waiting in the server's socket, with their sender
    rolled,    \* the results the server has sent, in order: history
    cpc,
    result,    \* the dice each client has parsed; <<>> before
    verdict,   \* what each client has printed
    replies    \* datagrams waiting in each client's socket

vars == <<spc, inbox, rolled, cpc, result, verdict, replies>>

(* What roll_dice() can return.                                            *)
roll_diceFromZero == {d - 1 : d \in Dice}   \* mutant: rand() % 6 without the + 1
roll_dice == Dice
Rolls == [s1 : roll_dice, s2 : roll_dice, c1 : roll_dice, c2 : roll_dice]

Results == [s1 : Dice, s2 : Dice, c1 : Dice, c2 : Dice]
Datagrams == [from : Clients, text : {"1", "GAME ENDS"}]

Listening == spc \in {"first", "second"}

Init ==
    /\ spc = "boot" /\ inbox = <<>> /\ rolled = <<>>
    /\ cpc = [c \in Clients |-> "init"]
    /\ result = [c \in Clients |-> <<>>]
    /\ verdict = [c \in Clients |-> "none"]
    /\ replies = [c \in Clients |-> <<>>]

ToServer(c, text) ==
    inbox' \in IF Listening THEN Arrivals(inbox, [from |-> c, text |-> text]) ELSE {inbox}

-----------------------------------------------------------------------------
(* socket and bind, either of which may fail.                              *)
ServerBoot ==
    /\ spc = "boot"
    /\ spc' \in {"first", "exited"}
    /\ UNCHANGED <<inbox, rolled, cpc, result, verdict, replies>>

(* The first datagram: "1" is answered to its sender, anything else is     *)
(* not; either way the server goes on to the second recvfrom.              *)
ServerFirstLoops ==    \* mutant: the while (1) of the source goes round
    LET m == Head(inbox)
    IN  /\ spc = "first" /\ inbox # <<>>
        /\ inbox' = Tail(inbox)
        /\ IF m.text = "1"
           THEN \E roll \in Rolls :
                   /\ rolled' = Append(rolled, roll)
                   /\ replies' \in {[replies EXCEPT ![m.from] = q] :
                                       q \in IF cpc[m.from] = "exited" THEN {replies[m.from]}
                                             ELSE Arrivals(replies[m.from], roll)}
           ELSE UNCHANGED <<rolled, replies>>
        /\ UNCHANGED <<spc, cpc, result, verdict>>

ServerFirst ==
    LET m == Head(inbox)
    IN  /\ spc = "first" /\ inbox # <<>>
        /\ spc' = "second" /\ inbox' = Tail(inbox)
        /\ IF m.text = "1"
           THEN \E roll \in Rolls :
                   /\ rolled' = Append(rolled, roll)
                   /\ replies' \in {[replies EXCEPT ![m.from] = q] :
                                       q \in IF cpc[m.from] = "exited" THEN {replies[m.from]}
                                             ELSE Arrivals(replies[m.from], roll)}
           ELSE UNCHANGED <<rolled, replies>>
        /\ UNCHANGED <<cpc, result, verdict>>

(* The second datagram, whatever it says, ends the server.                 *)
ServerSecond ==
    /\ spc = "second" /\ inbox # <<>>
    /\ spc' = "exited" /\ inbox' = <<>>
    /\ UNCHANGED <<rolled, cpc, result, verdict, replies>>

Server == ServerFirst \/ ServerSecond

-----------------------------------------------------------------------------
(* The frame buffer, whose failure ends the client in silence, then "1".   *)
ClientStart(c) ==
    /\ cpc[c] = "init"
    /\ UserWaits => Listening
    /\ \/ cpc' = [cpc EXCEPT ![c] = "exited"] /\ UNCHANGED inbox
       \/ cpc' = [cpc EXCEPT ![c] = "await"] /\ ToServer(c, "1")
    /\ UNCHANGED <<spc, rolled, result, verdict, replies>>

(* The result, parsed, animated and judged.                                *)
Judge(r) ==
    IF r.s1 + r.s2 > r.c1 + r.c2 THEN "Opponent wins"
    ELSE IF r.s1 + r.s2 < r.c1 + r.c2 THEN "Player wins" ELSE "Draw"

ClientResult(c) ==
    /\ cpc[c] = "await" /\ replies[c] # <<>>
    /\ result' = [result EXCEPT ![c] = Head(replies[c])]
    /\ replies' = [replies EXCEPT ![c] = Tail(@)]
    /\ verdict' = [verdict EXCEPT ![c] = Judge(Head(replies[c]))]
    /\ cpc' = [cpc EXCEPT ![c] = "show"]
    /\ UNCHANGED <<spc, inbox, rolled>>

(* Five seconds later "GAME ENDS" and exit.                                *)
ClientEndSilent(c) ==   \* mutant: the client leaves without telling the server
    /\ cpc[c] = "show"
    /\ cpc' = [cpc EXCEPT ![c] = "exited"]
    /\ replies' = [replies EXCEPT ![c] = <<>>]
    /\ UNCHANGED <<spc, inbox, rolled, result, verdict>>

ClientEnd(c) ==
    /\ cpc[c] = "show"
    /\ ToServer(c, "GAME ENDS")
    /\ cpc' = [cpc EXCEPT ![c] = "exited"]
    /\ replies' = [replies EXCEPT ![c] = <<>>]
    /\ UNCHANGED <<spc, rolled, result, verdict>>

Client(c) == ClientResult(c) \/ ClientEnd(c)

Next ==
    \/ ServerBoot \/ Server
    \/ \E c \in Clients : ClientStart(c) \/ Client(c)

Spec == Init /\ [][Next]_vars

-----------------------------------------------------------------------------
(* Every die shown, in flight or parsed is one roll_dice can throw, and    *)
(* nobody prints a verdict the client has no words for.                    *)
TypeOK ==
    /\ spc \in {"boot", "first", "second", "exited"}
    /\ inbox \in Seq(Datagrams)
    /\ rolled \in Seq(Results)
    /\ cpc \in [Clients -> {"init", "await", "show", "exited"}]
    /\ result \in [Clients -> Results \cup {<<>>}]
    /\ verdict \in [Clients -> {"none", "Opponent wins", "Player wins", "Draw"}]
    /\ replies \in [Clients -> Seq(Results)]

(* Whatever the network does and however many clients there are, one run   *)
(* of the server rolls for one client only, and what that client shows and *)
(* judges is what was rolled for it (Dice_server.c:46-82: the while (1)    *)
(* never comes round).                                                     *)
Served == {c \in Clients : result[c] # <<>> \/ replies[c] # <<>>}
OneClientServed ==
    /\ Len(rolled) <= 1
    /\ \A c, d \in Served : c = d
    /\ \A c \in Clients : result[c] # <<>> =>
          rolled = <<result[c]>> /\ verdict[c] = Judge(rolled[1])
=============================================================================
