-------------------------------- MODULE Land --------------------------------
(***************************************************************************)
(* The dispatcher, the command lines and the dice game as the processes    *)
(* they are.  Lobby knows a game by a contract: its two halves meet or     *)
(* miss each other, and end.  Here game "1" has no contract: ServeGame and *)
(* UserPlays start Dice_server and Dice_client, their datagrams decide who *)
(* meets whom, and wait() returns when the process has exited.  The other  *)
(* games keep their contract.                                              *)
(*                                                                         *)
(* dspc, dcpc[c] and their queues are those of DiceGame, "exited" standing *)
(* for no process as well.  The dispatcher waits for one game at a time,   *)
(* so there is at most one dice server, and every one of them is bound to  *)
(* the same port: a datagram meant for one may be read by the next.        *)
(***************************************************************************)
EXTENDS Lobby

CONSTANT Dice

VARIABLES dspc, dinbox, rolled, dcpc, result, verdict, dreplies,
          started      \* history: dice servers the dispatcher has started

D == INSTANCE DiceGame WITH
        spc <- dspc, inbox <- dinbox, cpc <- dcpc, replies <- dreplies,
        UserWaits <- ServerBound

dice == <<dspc, dinbox, rolled, dcpc, result, verdict, dreplies>>
land == <<vars, dice, started>>

LandInit ==
    /\ Init
    /\ dspc = "exited" /\ dinbox = <<>> /\ rolled = <<>>
    /\ dcpc = [c \in Clients |-> "exited"]
    /\ result = [c \in Clients |-> <<>>]
    /\ verdict = [c \in Clients |-> "none"]
    /\ dreplies = [c \in Clients |-> <<>>]
    /\ started = 0

-----------------------------------------------------------------------------
(* The dispatcher and its child.                                           *)

(* fork and execlp of ./Dice_server.                                       *)
game_1Server ==
    /\ dspc' = "boot" /\ started' = started + 1
    /\ UNCHANGED <<dinbox, rolled, dcpc, result, verdict, dreplies>>

LandServeGame ==
    /\ ServeGame
    /\ IF dpc' = "game" /\ child' = "1" THEN game_1Server ELSE UNCHANGED <<dice, started>>

DiceBoots ==
    /\ D!ServerBoot
    /\ ~ProcessesFail => dspc' = "first"
    /\ UNCHANGED <<vars, started>>

(* The server's first datagram.  If a waiting client is answered, the two  *)
(* halves have met.                                                        *)
DiceAnswers ==
    /\ D!ServerFirst
    /\ LET c == Head(dinbox).from
       IN  IF dreplies' # dreplies THEN Met(c) ELSE UNCHANGED vars
    /\ UNCHANGED started

DiceServerEnds == D!ServerSecond /\ UNCHANGED <<vars, started>>

DiceServerReapedEarly ==   \* mutant: the dispatcher does not wait for its child
    /\ child = "1"
    /\ ServerReaped
    /\ UNCHANGED <<dice, started>>

(* wait() returns once the server has exited.                              *)
DiceServerReaped ==
    /\ child = "1" /\ dspc = "exited"
    /\ ServerReaped
    /\ UNCHANGED <<dice, started>>

LandDispatcher ==
    \/ LandServeGame \/ DiceServerReaped
    \/ /\ \/ Swallow \/ ServeReply \/ ServeUnknown
          \/ child # "1" /\ GameServerEnds
       /\ UNCHANGED <<dice, started>>

DiceServer == DiceBoots \/ DiceAnswers \/ DiceServerEnds

-----------------------------------------------------------------------------
(* The command lines and their children.                                   *)

(* fork and execlp of ./Dice_client.                                       *)
game_1Client(c) ==
    /\ dcpc' = [dcpc EXCEPT ![c] = "init"]
    /\ result' = [result EXCEPT ![c] = <<>>]
    /\ verdict' = [verdict EXCEPT ![c] = "none"]
    /\ UNCHANGED <<dspc, dinbox, rolled, dreplies, started>>

LandUserPlays(c, a) ==
    /\ UserPlays(c, a)
    /\ IF game'[c] = "1" THEN game_1Client(c) ELSE UNCHANGED <<dice, started>>

(* ServerBound, of this client: the dispatcher has read its command and    *)
(* the server it started for it is waiting.                                *)
OwnServerWaits(c) ==
    /\ child = "1" /\ dspc = "first"
    /\ \A i \in 1 .. Len(inbox) : ~(inbox[i].from = c /\ inbox[i].cmd = "GAME")

DiceClientStarts(c) ==
    /\ D!ClientStart(c)
    /\ ServerBound => OwnServerWaits(c)
    /\ ~ProcessesFail => dcpc'[c] = "await"
    /\ UNCHANGED <<vars, started>>

DiceClientPlays(c) == D!Client(c) /\ UNCHANGED <<vars, started>>

LandClientEndsEarly(c) ==   \* mutant: the command line does not wait for its child
    /\ IF game[c] = "1" THEN ClientReaped(c) ELSE GameClientEnds(c)
    /\ UNCHANGED <<dice, started>>

(* wait() returns once the game's client has exited; the other games'      *)
(* clients, and a child that died of its argument, end by Lobby's rule.    *)
LandClientEnds(c) ==
    /\ dcpc[c] = "exited"
    /\ IF game[c] = "1" THEN ClientReaped(c) ELSE GameClientEnds(c)
    /\ UNCHANGED <<dice, started>>

(* Control-C reaches both processes of the terminal.                       *)
LandClientKilled(c) ==
    /\ ClientKilled(c)
    /\ dcpc' = [dcpc EXCEPT ![c] = "exited"]
    /\ dreplies' = [dreplies EXCEPT ![c] = <<>>]
    /\ UNCHANGED <<dspc, dinbox, rolled, result, verdict, started>>

LandClient(c) ==
    \/ LandClientEnds(c)
    \/ ClientReply(c) /\ UNCHANGED <<dice, started>>

DiceClient(c) == DiceClientStarts(c) \/ DiceClientPlays(c)

(* The contract of the other games.                                        *)
OtherGames(c) == game[c] # "1" /\ (Meet(c) \/ Miss(c)) /\ UNCHANGED <<dice, started>>

LandNext ==
    \/ Boot /\ UNCHANGED <<dice, started>>
    \/ LandDispatcher \/ DiceServer
    \/ \E c \in Clients :
          \/ /\ ClientStart(c) \/ \E cmd \in {"QUIT", "PWD"} : UserAsks(c, cmd)
             /\ UNCHANGED <<dice, started>>
          \/ \E a \in Arguments : LandUserPlays(c, a)
          \/ LandClient(c) \/ DiceClient(c) \/ LandClientKilled(c) \/ OtherGames(c)

LandSpec == LandInit /\ [][LandNext]_land

(* Every process runs whenever it can; the user owes nothing.              *)
FairLandSpec ==
    /\ LandSpec
    /\ WF_land(LandDispatcher) /\ WF_land(DiceServer)
    /\ \A c \in Clients :
          WF_land(LandClient(c)) /\ WF_land(DiceClient(c)) /\ WF_land(OtherGames(c))

-----------------------------------------------------------------------------
(* Properties.                                                             *)

(* The processes are where DiceGame says they can be, and only a client    *)
(* that has chosen the dice game has a dice process.                       *)
LandTypeOK ==
    /\ TypeOK /\ D!TypeOK
    /\ started \in Nat
    /\ \A c \in Clients : dcpc[c] # "exited" => game[c] \in {"1", "over"}

(* The dispatcher and the command lines, with dice processes in the place  *)
(* of the contract, behave as Lobby says: whoever reaches whichever server *)
(* first, a meeting is the first of its server and of its client, and a    *)
(* server ends unmet only where players crowd it or processes fail.        *)
ImplementsLobby == Spec

(* With one player and no failures the fairness of the processes gives the *)
(* fairness Lobby assumes of its games.                                    *)
ImplementsFairLobby == FairSpec

(* However many players send "1" and "GAME ENDS" to whichever server holds *)
(* the port, one GAME command buys at most one roll of the dice, and a     *)
(* result reaches only a client that is still waiting for one              *)
(* (execute.c:190-227, Dice_server.c:41-82).                               *)
OneRollPerGame ==
    /\ Len(rolled) <= started
    /\ \A c \in Clients : dreplies[c] # <<>> => dcpc[c] = "await" /\ Len(dreplies[c]) = 1

(* A lone player who has asked gets a verdict, and the game gives the      *)
(* dispatcher back to the commands: the five exchanges between four        *)
(* processes that a game takes all come about.                             *)
GameEnds ==
    /\ \A c \in Clients : dcpc[c] = "await" ~> (verdict[c] # "none" /\ dcpc[c] = "exited")
    /\ dpc = "game" ~> dpc = "serve"
=============================================================================
