----------------------------- MODULE LandProofs -----------------------------
(***************************************************************************)
(* Theorems about the dispatcher and its players with the processes of the *)
(* dice game in the place of Lobby's contract: their types under any fault *)
(* of the network, and, on a network that does not double datagrams, that  *)
(* they implement Lobby for any number of players, whatever fails, and     *)
(* that a GAME command buys at most one roll.  What LobbyProofs proves of  *)
(* Lobby holds of Land through the implementation.                         *)
(***************************************************************************)
EXTENDS Land, LobbyProofs

-----------------------------------------------------------------------------
(* The steps of the dice processes.                                        *)

(* The network of the dice processes is the network of the command lines.  *)
LEMMA SameNetwork == \A q, m : D!Arrivals(q, m) = Arrivals(q, m)
<1>1. \A q, k, m : D!InsertAt(q, k, m) = InsertAt(q, k, m)
  BY DEF D!InsertAt, InsertAt
<1> QED
  BY <1>1 DEF D!Arrivals, Arrivals

(* A send to the dice server.                                              *)
LEMMA SentToDice ==
    ASSUME D!TypeOK, NEW c \in Clients, NEW text \in {"1", "GAME ENDS"}, D!ToServer(c, text)
    PROVE  /\ [from |-> c, text |-> text] \in D!Datagrams
           /\ dinbox' \in Seq(D!Datagrams)
           /\ dinbox' = dinbox \/ dinbox' \in Arrivals(dinbox, [from |-> c, text |-> text])
           /\ dspc \notin {"first", "second"} => dinbox' = dinbox
<1>1. [from |-> c, text |-> text] \in D!Datagrams /\ dinbox \in Seq(D!Datagrams)
  BY DEF D!TypeOK, D!Datagrams
<1>2. /\ dinbox' = dinbox \/ dinbox' \in Arrivals(dinbox, [from |-> c, text |-> text])
      /\ dspc \notin {"first", "second"} => dinbox' = dinbox
  BY SameNetwork DEF D!ToServer, D!Listening
<1> QED
  BY <1>1, <1>2, ArrivalsType

(* The server's first datagram: "1" is answered to its sender, with one    *)
(* roll, as far as the network and the sender's process let the answer     *)
(* through.                                                                *)
LEMMA DiceAnswer ==
    ASSUME D!TypeOK, D!ServerFirst
    PROVE  /\ dspc = "first" /\ dspc' = "second"
           /\ dinbox # <<>> /\ dinbox' = Tail(dinbox)
           /\ Head(dinbox) \in D!Datagrams /\ dinbox' \in Seq(D!Datagrams)
           /\ Head(dinbox).from \in Clients
           /\ UNCHANGED <<dcpc, result, verdict>>
           /\ \/ Head(dinbox).text # "1" /\ UNCHANGED <<rolled, dreplies>>
              \/ /\ Head(dinbox) = [from |-> Head(dinbox).from, text |-> "1"]
                 /\ \E roll \in D!Results : \E q :
                       /\ rolled' = Append(rolled, roll)
                       /\ dreplies' = [dreplies EXCEPT ![Head(dinbox).from] = q]
                       /\ \/ q = dreplies[Head(dinbox).from]
                          \/ /\ dcpc[Head(dinbox).from] # "exited"
                             /\ q \in Arrivals(dreplies[Head(dinbox).from], roll)
<1> DEFINE m == Head(dinbox)
<1>1. dinbox # <<>> /\ dinbox \in Seq(D!Datagrams)
  BY DEF D!ServerFirst, D!TypeOK
<1>2. m \in D!Datagrams /\ Tail(dinbox) \in Seq(D!Datagrams)
  BY <1>1, HeadTailProperties
<1>3. m.from \in Clients /\ (m.text = "1" => m = [from |-> m.from, text |-> "1"])
  BY <1>2 DEF D!Datagrams
<1>4. CASE m.text = "1"
  <2>1. PICK roll \in D!Rolls :
            /\ rolled' = Append(rolled, roll)
            /\ dreplies' \in {[dreplies EXCEPT ![m.from] = q] :
                                q \in IF dcpc[m.from] = "exited" THEN {dreplies[m.from]}
                                      ELSE D!Arrivals(dreplies[m.from], roll)}
    BY <1>4 DEF D!ServerFirst
  <2>2. roll \in D!Results
    BY DEF D!Rolls, D!roll_dice, D!Results
  <2>3. PICK q : /\ dreplies' = [dreplies EXCEPT ![m.from] = q]
                 /\ \/ q = dreplies[m.from]
                    \/ dcpc[m.from] # "exited" /\ q \in Arrivals(dreplies[m.from], roll)
    BY <2>1, SameNetwork
  <2> QED
    BY <1>1, <1>2, <1>3, <1>4, <2>1, <2>2, <2>3 DEF D!ServerFirst
<1>5. CASE m.text # "1"
  BY <1>1, <1>2, <1>3, <1>5 DEF D!ServerFirst
<1> QED
  BY <1>4, <1>5

(* A dice client that starts sends its request or fails.                   *)
LEMMA DiceRequest ==
    ASSUME D!TypeOK, NEW c \in Clients, DiceClientStarts(c)
    PROVE  /\ dcpc[c] = "init"
           /\ \/ /\ ProcessesFail /\ dcpc' = [dcpc EXCEPT ![c] = "exited"] /\ dinbox' = dinbox
              \/ dcpc' = [dcpc EXCEPT ![c] = "await"] /\ D!ToServer(c, "1")
           /\ UNCHANGED <<dspc, rolled, result, verdict, dreplies>>
BY DEF DiceClientStarts, D!ClientStart, D!TypeOK

-----------------------------------------------------------------------------
(* Types.                                                                  *)

(* The steps of the dice processes keep their types.                       *)
LEMMA DiceKeepsTypes ==
    ASSUME D!TypeOK,
           \/ DiceServer
           \/ \E c \in Clients : DiceClient(c)
    PROVE  D!TypeOK'
<1>1. CASE DiceBoots
  BY <1>1 DEF DiceBoots, D!ServerBoot, D!TypeOK
<1>2. CASE DiceAnswers
  <2>1. /\ dspc' = "second" /\ dinbox' \in Seq(D!Datagrams)
        /\ UNCHANGED <<dcpc, result, verdict>>
    BY <1>2, DiceAnswer DEF DiceAnswers
  <2>2. CASE UNCHANGED <<rolled, dreplies>>
    BY <2>1, <2>2 DEF D!TypeOK
  <2>3. CASE ~UNCHANGED <<rolled, dreplies>>
    <3>1. Head(dinbox).from \in Clients
      BY <1>2, DiceAnswer DEF DiceAnswers
    <3>2. PICK roll \in D!Results : \E q :
                 /\ rolled' = Append(rolled, roll)
                 /\ dreplies' = [dreplies EXCEPT ![Head(dinbox).from] = q]
                 /\ q = dreplies[Head(dinbox).from]
                    \/ q \in Arrivals(dreplies[Head(dinbox).from], roll)
      BY <1>2, <2>3, DiceAnswer DEF DiceAnswers
    <3>3. rolled' \in Seq(D!Results)
      <4>1. rolled \in Seq(D!Results)
        BY DEF D!TypeOK
      <4> QED
        BY <3>2, <4>1, AppendProperties
    <3>4. PICK q : /\ dreplies' = [dreplies EXCEPT ![Head(dinbox).from] = q]
                   /\ q \in Seq(D!Results)
      BY <3>1, <3>2, ArrivalsType DEF D!TypeOK
    <3> QED
      BY <2>1, <3>1, <3>3, <3>4 DEF D!TypeOK
  <2> QED
    BY <2>2, <2>3
<1>3. CASE DiceServerEnds
  <2>1. dinbox' \in Seq(D!Datagrams)
    BY <1>3, EmptyHasType DEF DiceServerEnds, D!ServerSecond
  <2> QED
    BY <1>3, <2>1 DEF DiceServerEnds, D!ServerSecond, D!TypeOK
<1>4. ASSUME NEW c \in Clients, DiceClientStarts(c) PROVE D!TypeOK'
  <2>1. dinbox' \in Seq(D!Datagrams)
    BY <1>4, DiceRequest, SentToDice DEF D!TypeOK
  <2> QED
    BY <1>4, <2>1, DiceRequest DEF D!TypeOK
<1>5. ASSUME NEW c \in Clients, D!ClientResult(c) PROVE D!TypeOK'
  <2>1. Head(dreplies[c]) \in D!Results /\ Tail(dreplies[c]) \in Seq(D!Results)
    BY <1>5, HeadTailProperties DEF D!ClientResult, D!TypeOK
  <2>2. D!Judge(Head(dreplies[c])) \in {"none", "Opponent wins", "Player wins", "Draw"}
    BY DEF D!Judge
  <2> QED
    BY <1>5, <2>1, <2>2 DEF D!ClientResult, D!TypeOK
<1>6. ASSUME NEW c \in Clients, D!ClientEnd(c) PROVE D!TypeOK'
  <2>1. dinbox' \in Seq(D!Datagrams)
    BY <1>6, SentToDice DEF D!ClientEnd
  <2>2. <<>> \in Seq(D!Results)
    BY EmptyHasType
  <2> QED
    BY <1>6, <2>1, <2>2 DEF D!ClientEnd, D!TypeOK
<1> QED
  BY <1>1, <1>2, <1>3, <1>4, <1>5, <1>6
     DEF DiceServer, DiceClient, DiceClientPlays, D!Client

(* The three steps that Land takes where Lobby takes one by contract.      *)
LEMMA ContractTypes ==
    ASSUME TypeOK, ServerReaped \/ \E c \in Clients : ClientReaped(c) \/ Met(c)
    PROVE  TypeOK'
<1> USE LobbyAssumption
<1>1. CASE ServerReaped
  BY <1>1 DEF ServerReaped, TypeOK, cvars
<1>2. ASSUME NEW c \in Clients, ClientReaped(c) PROVE TypeOK'
  <2>1. inbox' \in Seq(Datagrams)
    BY <1>2, ToDispatcherType, CommandTypes DEF ClientReaped, TypeOK
  <2> QED
    BY <1>2, <2>1 DEF ClientReaped, TypeOK, dvars
<1>3. ASSUME NEW c \in Clients, Met(c) PROVE TypeOK'
  BY <1>3 DEF Met, TypeOK
<1> QED
  BY <1>1, <1>2, <1>3

(* What happens at the dispatcher, which knows nothing of dice.            *)
DispatcherStep ==
    \/ Boot /\ UNCHANGED <<dice, started>>
    \/ LandDispatcher

(* A player's step that starts no dice and ends none.                      *)
PlainStep(c) ==
    /\ \/ ClientStart(c) \/ \E cmd \in {"QUIT", "PWD"} : UserAsks(c, cmd)
       \/ ClientReply(c)
    /\ UNCHANGED <<dice, started>>

(* The steps of Land, by whom they concern.                                *)
LEMMA LandSteps ==
    ASSUME [LandNext]_land
    PROVE  \/ DispatcherStep \/ DiceServer \/ UNCHANGED land
           \/ \E c \in Clients :
                 \/ PlainStep(c) \/ LandClientEnds(c) \/ DiceClient(c)
                 \/ LandClientKilled(c) \/ OtherGames(c)
                 \/ \E a \in Arguments : LandUserPlays(c, a)
BY DEF LandNext, LandClient, DispatcherStep, PlainStep

(* Only a command line that waits for its dice game has a dice process.    *)
Attended ==
    \A c \in Clients :
        /\ dcpc[c] # "exited" => cpc[c] = "game" /\ game[c] \in {"1", "over"}
        /\ cpc[c] # "game" => game[c] = "none"

(* The dispatcher's steps concern no player and no dice.                   *)
LEMMA DispatcherLeaves ==
    ASSUME DispatcherStep
    PROVE  /\ UNCHANGED cvars
           /\ UNCHANGED <<dinbox, rolled, dcpc, result, verdict, dreplies>>
           /\ \/ UNCHANGED <<dspc, started>>
              \/ LandServeGame /\ dspc' = "boot" /\ started' = started + 1
                 /\ dpc' = "game" /\ child' = "1"
<1>1. CASE Boot /\ UNCHANGED <<dice, started>>
  BY <1>1 DEF Boot, dice
<1>2. CASE LandServeGame
  BY <1>2 DEF LandServeGame, ServeGame, game_1Server, dice
<1>3. CASE DiceServerReaped
  BY <1>3 DEF DiceServerReaped, ServerReaped, dice
<1>4. CASE /\ \/ Swallow \/ ServeReply \/ ServeUnknown
              \/ child # "1" /\ GameServerEnds
           /\ UNCHANGED <<dice, started>>
  BY <1>4 DEF Swallow, ServeReply, ServeUnknown, GameServerEnds, ServerReaped, dice
<1> QED
  BY <1>1, <1>2, <1>3, <1>4 DEF DispatcherStep, LandDispatcher

(* A player's step changes that player alone.                              *)
LEMMA OnePlayer ==
    ASSUME TypeOK, NEW c \in Clients,
           \/ PlainStep(c) \/ LandClientEnds(c) \/ LandClientKilled(c) \/ OtherGames(c)
           \/ \E a \in Arguments : LandUserPlays(c, a)
    PROVE  \A d \in Clients : d # c => cpc'[d] = cpc[d] /\ game'[d] = game[d]
<1>1. CASE PlainStep(c)
  BY <1>1 DEF PlainStep, ClientStart, UserAsks, ClientReply, TypeOK
<1>2. CASE LandClientEnds(c)
  BY <1>2 DEF LandClientEnds, GameClientEnds, ClientReaped, TypeOK
<1>3. CASE LandClientKilled(c)
  BY <1>3 DEF LandClientKilled, ClientKilled, TypeOK
<1>4. CASE OtherGames(c)
  BY <1>4 DEF OtherGames, Meet, Met, Miss, TypeOK
<1>5. ASSUME NEW a \in Arguments, LandUserPlays(c, a)
      PROVE  \A d \in Clients : d # c => cpc'[d] = cpc[d] /\ game'[d] = game[d]
  BY <1>5 DEF LandUserPlays, UserPlays, TypeOK
<1> QED
  BY <1>1, <1>2, <1>3, <1>4, <1>5

(* What that step does to the player.                                      *)
LEMMA PlayerSteps ==
    ASSUME TypeOK, D!TypeOK, Attended, NEW c \in Clients
    PROVE  /\ PlainStep(c) =>
                 cpc[c] # "game" /\ cpc'[c] # "game" /\ game'[c] = game[c] /\ dcpc' = dcpc
           /\ LandClientEnds(c) =>
                 /\ dcpc[c] = "exited" /\ dcpc' = dcpc
                 /\ cpc[c] = "game" /\ cpc'[c] = "prompt" /\ game'[c] = "none"
           /\ LandClientKilled(c) =>
                 /\ cpc'[c] = "exited" /\ game'[c] = "none"
                 /\ dcpc' = [dcpc EXCEPT ![c] = "exited"]
           /\ OtherGames(c) =>
                 /\ dcpc[c] = "exited" /\ game[c] \in Games \ {"1"}
                 /\ cpc[c] = "game" /\ cpc' = cpc /\ game'[c] \in {"over", "lost"} /\ dcpc' = dcpc
           /\ \A a \in Arguments : LandUserPlays(c, a) =>
                 /\ cpc[c] = "prompt" /\ game[c] = "none" /\ dcpc[c] = "exited"
                 /\ \/ cpc'[c] = "game" /\ a = "1" /\ game'[c] = "1" /\ game_1Client(c)
                    \/ cpc'[c] = "game" /\ game'[c] # "1" /\ UNCHANGED <<dice, started>>
                    \/ cpc'[c] = "exited" /\ game'[c] = "none" /\ UNCHANGED <<dice, started>>
<1>1. PlainStep(c) =>
         cpc[c] # "game" /\ cpc'[c] # "game" /\ game'[c] = game[c] /\ dcpc' = dcpc
  BY DEF PlainStep, ClientStart, UserAsks, ClientReply, dice, TypeOK
<1>2. LandClientEnds(c) =>
         /\ dcpc[c] = "exited" /\ dcpc' = dcpc
         /\ cpc[c] = "game" /\ cpc'[c] = "prompt" /\ game'[c] = "none"
  BY DEF LandClientEnds, GameClientEnds, ClientReaped, dice, TypeOK
<1>3. LandClientKilled(c) =>
         /\ cpc'[c] = "exited" /\ game'[c] = "none"
         /\ dcpc' = [dcpc EXCEPT ![c] = "exited"]
  BY DEF LandClientKilled, ClientKilled, TypeOK
<1>4. OtherGames(c) =>
         /\ dcpc[c] = "exited" /\ game[c] \in Games \ {"1"}
         /\ cpc[c] = "game" /\ cpc' = cpc /\ game'[c] \in {"over", "lost"} /\ dcpc' = dcpc
  <2> SUFFICES ASSUME OtherGames(c)
               PROVE  /\ dcpc[c] = "exited" /\ game[c] \in Games \ {"1"}
                      /\ cpc[c] = "game" /\ cpc' = cpc /\ game'[c] \in {"over", "lost"}
                      /\ dcpc' = dcpc
    OBVIOUS
  <2>1. game[c] \in Games \ {"1"}
    BY DEF OtherGames, Meet, Miss, TypeOK
  <2>2. game[c] # "none" /\ game[c] # "over"
    BY <2>1, LobbyAssumption
  <2>3. dcpc[c] = "exited" /\ cpc[c] = "game"
    BY <2>1, <2>2 DEF Attended
  <2>4. cpc' = cpc /\ game'[c] \in {"over", "lost"} /\ dcpc' = dcpc
    BY DEF OtherGames, Meet, Met, Miss, dice, TypeOK
  <2> QED
    BY <2>1, <2>3, <2>4
<1>5. ASSUME NEW a \in Arguments, LandUserPlays(c, a)
      PROVE  /\ cpc[c] = "prompt" /\ game[c] = "none" /\ dcpc[c] = "exited"
             /\ \/ cpc'[c] = "game" /\ a = "1" /\ game'[c] = "1" /\ game_1Client(c)
                \/ cpc'[c] = "game" /\ game'[c] # "1" /\ UNCHANGED <<dice, started>>
                \/ cpc'[c] = "exited" /\ game'[c] = "none" /\ UNCHANGED <<dice, started>>
  <2>1. cpc[c] = "prompt" /\ game[c] = "none" /\ dcpc[c] = "exited"
    BY <1>5 DEF LandUserPlays, UserPlays, Attended
  <2>2. CASE cpc' = [cpc EXCEPT ![c] = "game"]
             /\ game' = [game EXCEPT ![c] = IF a \in Games THEN a ELSE "over"]
    <3>1. cpc'[c] = "game" /\ game'[c] = IF a \in Games THEN a ELSE "over"
      BY <2>2 DEF TypeOK
    <3>2. CASE game'[c] = "1"
      BY <1>5, <2>1, <3>1, <3>2 DEF LandUserPlays
    <3>3. CASE game'[c] # "1"
      BY <1>5, <2>1, <3>1, <3>3 DEF LandUserPlays
    <3> QED
      BY <3>2, <3>3
  <2>3. CASE cpc' = [cpc EXCEPT ![c] = "exited"] /\ UNCHANGED game
    <3>1. cpc'[c] = "exited" /\ game'[c] = "none"
      BY <2>1, <2>3 DEF TypeOK
    <3> QED
      BY <1>5, <2>1, <3>1 DEF LandUserPlays
  <2> QED
    BY <1>5, <2>2, <2>3 DEF LandUserPlays, UserPlays
<1> QED
  BY <1>1, <1>2, <1>3, <1>4, <1>5

(* What a dice client's step does: it sends its request or fails, reads    *)
(* the result, or says goodbye.                                            *)
LEMMA DiceClientSteps ==
    ASSUME D!TypeOK, NEW c \in Clients, DiceClient(c)
    PROVE  /\ UNCHANGED <<vars, started, dspc, rolled>>
           /\ \A d \in Clients : d # c => dcpc'[d] = dcpc[d] /\ dreplies'[d] = dreplies[d]
           /\ \/ /\ dcpc[c] = "init" /\ dcpc'[c] = "exited" /\ ProcessesFail
                 /\ dreplies' = dreplies /\ dinbox' = dinbox
              \/ /\ dcpc[c] = "init" /\ dcpc'[c] = "await"
                 /\ dreplies' = dreplies /\ D!ToServer(c, "1")
              \/ /\ dcpc[c] = "await" /\ dcpc'[c] = "show" /\ dreplies[c] # <<>>
                 /\ dreplies'[c] = Tail(dreplies[c]) /\ dinbox' = dinbox
              \/ /\ dcpc[c] = "show" /\ dcpc'[c] = "exited"
                 /\ dreplies'[c] = <<>> /\ D!ToServer(c, "GAME ENDS")
<1>1. CASE DiceClientStarts(c)
  BY <1>1, DiceRequest DEF DiceClientStarts, D!TypeOK
<1>2. CASE DiceClientPlays(c) /\ D!ClientResult(c)
  BY <1>2 DEF DiceClientPlays, D!ClientResult, D!TypeOK
<1>3. CASE DiceClientPlays(c) /\ D!ClientEnd(c)
  BY <1>3 DEF DiceClientPlays, D!ClientEnd, D!TypeOK
<1> QED
  BY <1>1, <1>2, <1>3 DEF DiceClient, DiceClientPlays, D!Client

(* What the dice server's step does to the players: nothing, or it answers *)
(* one, who has a process that waits, and the halves have met.             *)
LEMMA DiceServerSteps ==
    ASSUME D!TypeOK, DiceServer
    PROVE  /\ UNCHANGED <<dcpc, started>>
           /\ \/ UNCHANGED <<vars, dreplies>>
              \/ /\ DiceAnswers /\ Head(dinbox).from \in Clients
                 /\ dcpc[Head(dinbox).from] # "exited" /\ Met(Head(dinbox).from)
<1>1. CASE DiceBoots
  BY <1>1 DEF DiceBoots, D!ServerBoot
<1>2. CASE DiceServerEnds
  BY <1>2 DEF DiceServerEnds, D!ServerSecond
<1>3. CASE DiceAnswers
  <2> DEFINE c == Head(dinbox).from
  <2>1. c \in Clients /\ UNCHANGED dcpc
    BY <1>3, DiceAnswer DEF DiceAnswers
  <2>2. CASE dreplies' = dreplies
    BY <1>3, <2>1, <2>2 DEF DiceAnswers
  <2>3. CASE dreplies' # dreplies
    <3>1. Met(c) /\ UNCHANGED started
      BY <1>3, <2>3 DEF DiceAnswers
    <3>2. PICK q : /\ dreplies' = [dreplies EXCEPT ![c] = q]
                   /\ q = dreplies[c] \/ dcpc[c] # "exited"
      BY <1>3, <2>3, DiceAnswer DEF DiceAnswers
    <3>3. q # dreplies[c]
      BY <2>3, <3>2 DEF D!TypeOK
    <3> QED
      BY <1>3, <2>1, <3>1, <3>2, <3>3
  <2> QED
    BY <2>2, <2>3
<1> QED
  BY <1>1, <1>2, <1>3 DEF DiceServer

(* Every step leaves the dice processes attended.                          *)
LEMMA AttendedKept ==
    ASSUME TypeOK, D!TypeOK, Attended, [LandNext]_land
    PROVE  Attended'
<1>1. CASE DispatcherStep \/ UNCHANGED land
  <2>1. UNCHANGED <<cpc, game, dcpc>>
    BY <1>1, DispatcherLeaves DEF land, vars, cvars, dice
  <2> QED
    BY <2>1 DEF Attended
<1>2. CASE DiceServer
  <2>1. CASE UNCHANGED vars
    BY <1>2, <2>1, DiceServerSteps DEF Attended, vars, cvars
  <2>2. ASSUME NEW c \in Clients, dcpc[c] # "exited", Met(c) PROVE Attended'
    <3>1. cpc' = cpc /\ cpc[c] = "game" /\ game' = [game EXCEPT ![c] = "over"]
      BY <2>2 DEF Met, Attended
    <3> QED
      BY <1>2, <2>2, <3>1, DiceServerSteps DEF Attended, TypeOK
  <2> QED
    BY <1>2, <2>1, <2>2, DiceServerSteps
<1>3. ASSUME NEW c \in Clients, DiceClient(c) PROVE Attended'
  <2>1. /\ UNCHANGED <<cpc, game>>
        /\ \A d \in Clients : dcpc'[d] # "exited" => dcpc[d] # "exited"
    BY <1>3, DiceClientSteps DEF vars, cvars
  <2> QED
    BY <2>1 DEF Attended
<1>4. ASSUME NEW c \in Clients,
             \/ PlainStep(c) \/ LandClientEnds(c) \/ LandClientKilled(c) \/ OtherGames(c)
             \/ \E a \in Arguments : LandUserPlays(c, a)
      PROVE  Attended'
  <2> SUFFICES ASSUME NEW d \in Clients
               PROVE  /\ dcpc'[d] # "exited" => cpc'[d] = "game" /\ game'[d] \in {"1", "over"}
                      /\ cpc'[d] # "game" => game'[d] = "none"
    BY DEF Attended
  <2>1. CASE d # c
    <3>1. cpc'[d] = cpc[d] /\ game'[d] = game[d]
      BY <1>4, <2>1, OnePlayer
    <3>2. dcpc'[d] = dcpc[d]
      <4>1. PlainStep(c) \/ LandClientEnds(c) \/ OtherGames(c) => dcpc' = dcpc
        BY PlayerSteps
      <4>2. LandClientKilled(c) => dcpc'[d] = dcpc[d]
        BY <2>1, PlayerSteps DEF D!TypeOK
      <4>3. ASSUME NEW a \in Arguments, LandUserPlays(c, a) PROVE dcpc'[d] = dcpc[d]
        BY <2>1, <4>3, PlayerSteps DEF game_1Client, dice, D!TypeOK
      <4> QED
        BY <1>4, <4>1, <4>2, <4>3
    <3> QED
      BY <3>1, <3>2 DEF Attended
  <2>2. CASE d = c
    <3>1. CASE PlainStep(c) \/ LandClientEnds(c)
      BY <2>2, <3>1, PlayerSteps DEF Attended
    <3>2. CASE LandClientKilled(c)
      BY <2>2, <3>2, PlayerSteps DEF D!TypeOK
    <3>3. CASE OtherGames(c)
      BY <2>2, <3>3, PlayerSteps DEF Attended
    <3>4. ASSUME NEW a \in Arguments, LandUserPlays(c, a)
          PROVE  /\ dcpc'[c] # "exited" => cpc'[c] = "game" /\ game'[c] \in {"1", "over"}
                 /\ cpc'[c] # "game" => game'[c] = "none"
      BY <3>4, PlayerSteps DEF dice
    <3> QED
      BY <1>4, <2>2, <3>1, <3>2, <3>3, <3>4
  <2> QED
    BY <2>1, <2>2
<1> QED
  BY <1>1, <1>2, <1>3, <1>4, LandSteps

(* Every step keeps the types of the command lines.                        *)
LEMMA LandKeepsLobbyTypes ==
    ASSUME TypeOK, D!TypeOK, [LandNext]_land
    PROVE  TypeOK'
<1>1. CASE DispatcherStep
  BY <1>1, DispatcherTypes, ContractTypes
     DEF DispatcherStep, LandDispatcher, LandServeGame, DiceServerReaped, Dispatcher
<1>2. CASE DiceServer
  <2>1. CASE UNCHANGED vars
    BY <2>1 DEF vars, dvars, cvars, TypeOK
  <2> QED
    BY <1>2, <2>1, DiceServerSteps, ContractTypes
<1>3. ASSUME NEW c \in Clients, DiceClient(c) PROVE TypeOK'
  <2>1. UNCHANGED vars
    BY <1>3, DiceClientSteps
  <2> QED
    BY <2>1 DEF vars, dvars, cvars, TypeOK
<1>4. ASSUME NEW c \in Clients,
             PlainStep(c) \/ LandClientEnds(c) \/ LandClientKilled(c) \/ OtherGames(c)
      PROVE  TypeOK'
  BY <1>4, ClientTypes, ContractTypes
     DEF PlainStep, LandClientEnds, LandClientKilled, OtherGames, Client
<1>5. ASSUME NEW c \in Clients, NEW a \in Arguments, LandUserPlays(c, a) PROVE TypeOK'
  BY <1>5, ClientTypes DEF LandUserPlays
<1>6. CASE UNCHANGED land
  BY <1>6 DEF land, vars, dvars, cvars, TypeOK
<1> QED
  BY <1>1, <1>2, <1>3, <1>4, <1>5, <1>6, LandSteps

(* And of the dice.                                                        *)
LEMMA LandKeepsDiceTypes ==
    ASSUME TypeOK, D!TypeOK, Attended, [LandNext]_land
    PROVE  D!TypeOK'
<1>1. CASE DispatcherStep
  BY <1>1, DispatcherLeaves DEF D!TypeOK
<1>2. CASE DiceServer \/ \E c \in Clients : DiceClient(c)
  BY <1>2, DiceKeepsTypes
<1>3. ASSUME NEW c \in Clients, PlainStep(c) \/ LandClientEnds(c) \/ OtherGames(c)
      PROVE  D!TypeOK'
  <2>1. UNCHANGED dice
    BY <1>3 DEF PlainStep, LandClientEnds, OtherGames
  <2> QED
    BY <2>1 DEF dice, D!TypeOK
<1>4. ASSUME NEW c \in Clients, LandClientKilled(c) PROVE D!TypeOK'
  <2>1. <<>> \in Seq(D!Results)
    BY EmptyHasType
  <2> QED
    BY <1>4, <2>1 DEF LandClientKilled, D!TypeOK
<1>5. ASSUME NEW c \in Clients, NEW a \in Arguments, LandUserPlays(c, a) PROVE D!TypeOK'
  <2>1. CASE UNCHANGED dice
    BY <2>1 DEF dice, D!TypeOK
  <2>2. CASE game_1Client(c)
    BY <2>2 DEF game_1Client, D!TypeOK
  <2> QED
    BY <1>5, <2>1, <2>2 DEF LandUserPlays
<1>6. CASE UNCHANGED land
  BY <1>6 DEF land, dice, D!TypeOK
<1> QED
  BY <1>1, <1>2, <1>3, <1>4, <1>5, <1>6, LandSteps

(* The number of dice servers is a number.                                 *)
LEMMA LandCountsServers ==
    ASSUME D!TypeOK, started \in Nat, [LandNext]_land
    PROVE  started' \in Nat
<1>1. started' \in {started, started + 1}
  BY LandSteps, DispatcherLeaves, DiceServerSteps, DiceClientSteps
     DEF PlainStep, LandClientEnds, LandClientKilled, OtherGames, LandUserPlays, game_1Client, land
<1> QED
  BY <1>1

(* The first state has the types.                                          *)
LEMMA LandTypesInit == LandInit => TypeOK /\ D!TypeOK /\ Attended /\ started \in Nat
<1> SUFFICES ASSUME LandInit PROVE TypeOK /\ D!TypeOK /\ Attended /\ started \in Nat
  OBVIOUS
<1>1. <<>> \in Seq(Datagrams) /\ <<>> \in Seq({"QUIT", "PWD"})
  BY EmptyHasType
<1>2. TypeOK
  <2>1. left \in [Clients -> 0 .. MaxCommands]
    BY LobbyAssumption DEF LandInit, Init
  <2> QED
    BY <1>1, <2>1 DEF LandInit, Init, TypeOK
<1>3. D!TypeOK
  <2>1. <<>> \in Seq(D!Datagrams) /\ <<>> \in Seq(D!Results)
    BY EmptyHasType
  <2> QED
    BY <2>1 DEF LandInit, D!TypeOK
<1>4. Attended /\ started \in Nat
  BY DEF LandInit, Init, Attended
<1> QED
  BY <1>2, <1>3, <1>4

(* Every process is where its program can be, and only a player who chose  *)
(* the dice game has a dice process, whatever the network does.            *)
THEOREM LandTypes == LandSpec => []LandTypeOK
<1>1. TypeOK /\ D!TypeOK /\ Attended /\ started \in Nat /\ [LandNext]_land
      => (TypeOK /\ D!TypeOK /\ Attended /\ started \in Nat)'
  BY LandKeepsLobbyTypes, LandKeepsDiceTypes, AttendedKept, LandCountsServers
<1>2. TypeOK /\ D!TypeOK /\ Attended /\ started \in Nat => LandTypeOK
  BY DEF LandTypeOK, Attended
<1> QED
  BY LandTypesInit, <1>1, <1>2, PTL DEF LandSpec
-----------------------------------------------------------------------------
(* Who meets whom, on a network that doubles nothing.                      *)

(* The request a dice client sends.                                        *)
Ask(c) == [from |-> c, text |-> "1"]
Asks == {Ask(c) : c \in Clients}

(* The dispatcher waits for the dice server as long as there is one, and a *)
(* server that has not answered has met nobody.                            *)
ServerHeld ==
    /\ dspc # "exited" => dpc = "game" /\ child = "1"
    /\ dspc \in {"boot", "first"} => ~met
    /\ dspc \in {"boot", "exited"} => dinbox = <<>>

(* A server that has not answered has a roll to its credit.                *)
RollsPaid ==
    /\ Len(rolled) <= started
    /\ dspc \in {"boot", "first"} => Len(rolled) < started

(* A player of the dice game goes through it once: its request is in the   *)
(* server's socket, or its result in its own, or neither any more.         *)
InGame(c) ==
    /\ dcpc[c] = "init" => game[c] = "1"
    /\ dcpc[c] = "show" => game[c] = "over"
    /\ dreplies[c] # <<>> => dcpc[c] = "await" /\ game[c] = "over" /\ Len(dreplies[c]) = 1
    /\ game[c] = "1" /\ dcpc[c] = "exited" => ProcessesFail
    /\ Once(dinbox, Ask(c))
    /\ ~Absent(dinbox, Ask(c)) => cpc[c] = "exited" \/ (dcpc[c] = "await" /\ game[c] = "1")
PlayersHeld == \A c \in Clients : InGame(c)

(* Nobody has a result, or has just read one.                              *)
NoResult == \A c \in Clients : dreplies[c] = <<>> /\ dcpc[c] # "show"

(* With a single player, whose game starts as it should, a server that is  *)
(* done has met that player, unless the player has left.                   *)
Sole ==
    /\ dspc = "exited" /\ child = "1" => met
    /\ dspc = "first" => dinbox \in Seq(Asks)
    /\ dspc # "second" \/ dinbox # <<>> => NoResult
    /\ dspc = "second" /\ ~met =>
          dinbox = <<>> /\ NoResult /\ \A c \in Clients : cpc[c] = "exited" \/ dcpc[c] = "await"
WhenSole == ~Crowded /\ ~ProcessesFail => Sole

(* The dispatcher's steps find no dice server: they leave none, or start   *)
(* one that waits for a player.                                            *)
LEMMA DispatcherAndServer ==
    ASSUME TypeOK, ServerHeld, DispatcherStep
    PROVE  /\ dspc = "exited"
           /\ \/ dspc' = "exited" /\ child' # "1" /\ started' = started
              \/ dspc' = "boot" /\ dpc' = "game" /\ child' = "1" /\ ~met' /\ started' = started + 1
              \/ child = "1" /\ DiceServerReaped
<1> USE LobbyAssumption
<1>1. CASE Boot /\ UNCHANGED <<dice, started>>
  BY <1>1 DEF Boot, dice, ServerHeld, TypeOK
<1>2. CASE LandServeGame
  <2>1. dspc = "exited" /\ dpc = "serve" /\ child = "none"
    BY <1>2 DEF LandServeGame, ServeGame, ServerHeld, TypeOK
  <2>2. CASE dpc' = "game" /\ child' = "1"
    BY <1>2, <2>1, <2>2 DEF LandServeGame, ServeGame, game_1Server, dvars
  <2>3. CASE ~(dpc' = "game" /\ child' = "1")
    BY <1>2, <2>1, <2>3 DEF LandServeGame, ServeGame, dice, dvars
  <2> QED
    BY <2>2, <2>3
<1>3. CASE DiceServerReaped
  BY <1>3 DEF DiceServerReaped
<1>4. CASE /\ \/ Swallow \/ ServeReply \/ ServeUnknown
              \/ child # "1" /\ GameServerEnds
           /\ UNCHANGED <<dice, started>>
  BY <1>4 DEF Swallow, ServeReply, ServeUnknown, GameServerEnds, ServerReaped, dice, dvars,
              ServerHeld, TypeOK
<1> QED
  BY <1>1, <1>2, <1>3, <1>4 DEF DispatcherStep, LandDispatcher

(* A player's step leaves the dispatcher alone, and tells of a meeting     *)
(* only in another game.                                                   *)
LEMMA PlayersAndServer ==
    ASSUME NEW c \in Clients,
           \/ PlainStep(c) \/ LandClientEnds(c) \/ LandClientKilled(c) \/ OtherGames(c)
           \/ \E a \in Arguments : LandUserPlays(c, a)
    PROVE  /\ UNCHANGED <<dpc, child, dspc, dinbox, rolled, started>>
           /\ met' = met \/ (met' /\ dpc = "game" /\ child # "1")
           /\ \A d \in Clients : d # c /\ D!TypeOK => dcpc'[d] = dcpc[d] /\ dreplies'[d] = dreplies[d]
<1>1. CASE PlainStep(c)
  BY <1>1 DEF PlainStep, ClientStart, UserAsks, ClientReply, dvars, dice
<1>2. CASE LandClientEnds(c)
  BY <1>2 DEF LandClientEnds, GameClientEnds, ClientReaped, dvars, dice
<1>3. CASE LandClientKilled(c)
  BY <1>3 DEF LandClientKilled, ClientKilled, dvars, D!TypeOK
<1>4. CASE OtherGames(c)
  BY <1>4 DEF OtherGames, Meet, Met, Miss, dvars, dice
<1>5. ASSUME NEW a \in Arguments, LandUserPlays(c, a)
      PROVE  /\ UNCHANGED <<dpc, child, dspc, dinbox, rolled, started, met>>
             /\ \A d \in Clients : d # c /\ D!TypeOK =>
                   dcpc'[d] = dcpc[d] /\ dreplies'[d] = dreplies[d]
  BY <1>5 DEF LandUserPlays, UserPlays, game_1Client, dvars, dice, D!TypeOK
<1> QED
  BY <1>1, <1>2, <1>3, <1>4, <1>5

(* Every step keeps the dispatcher and its dice server in step.            *)
LEMMA ServerHeldKept ==
    ASSUME TypeOK, D!TypeOK, ServerHeld, [LandNext]_land
    PROVE  ServerHeld'
<1>1. CASE DispatcherStep
  <2>1. dinbox' = dinbox /\ dinbox = <<>>
    BY <1>1, DispatcherLeaves, DispatcherAndServer DEF ServerHeld
  <2>2. DiceServerReaped => dspc' = dspc
    BY DEF DiceServerReaped, dice
  <2> QED
    BY <1>1, <2>1, <2>2, DispatcherAndServer DEF ServerHeld
<1>2. CASE DiceBoots
  BY <1>2 DEF DiceBoots, D!ServerBoot, ServerHeld, vars, dvars
<1>3. CASE DiceAnswers
  BY <1>3, DiceAnswer DEF DiceAnswers, Met, ServerHeld, vars, dvars
<1>4. CASE DiceServerEnds
  BY <1>4 DEF DiceServerEnds, D!ServerSecond, ServerHeld, vars, dvars
<1>5. ASSUME NEW c \in Clients, DiceClient(c) PROVE ServerHeld'
  <2>1. UNCHANGED <<dpc, child, met, dspc>>
    BY <1>5, DiceClientSteps DEF vars, dvars
  <2>2. dspc \in {"boot", "exited"} => dinbox' = dinbox
    BY <1>5, DiceClientSteps, SentToDice
  <2> QED
    BY <2>1, <2>2 DEF ServerHeld
<1>6. ASSUME NEW c \in Clients,
             \/ PlainStep(c) \/ LandClientEnds(c) \/ LandClientKilled(c) \/ OtherGames(c)
             \/ \E a \in Arguments : LandUserPlays(c, a)
      PROVE  ServerHeld'
  BY <1>6, PlayersAndServer DEF ServerHeld
<1>7. CASE UNCHANGED land
  BY <1>7 DEF land, vars, dvars, dice, ServerHeld
<1> QED
  BY <1>1, <1>2, <1>3, <1>4, <1>5, <1>6, <1>7, LandSteps DEF DiceServer

(* Every step keeps the rolls paid for.                                    *)
LEMMA RollsPaidKept ==
    ASSUME TypeOK, D!TypeOK, started \in Nat, ServerHeld, RollsPaid, [LandNext]_land
    PROVE  RollsPaid'
<1>0. Len(rolled) \in Nat /\ rolled \in Seq(D!Results)
  BY LenProperties DEF D!TypeOK
<1>1. CASE DispatcherStep
  <2>1. rolled' = rolled
    BY <1>1, DispatcherLeaves
  <2>2. DiceServerReaped => dspc' = dspc /\ started' = started
    BY DEF DiceServerReaped, dice
  <2> QED
    BY <1>0, <1>1, <2>1, <2>2, DispatcherAndServer DEF RollsPaid
<1>2. CASE DiceBoots
  BY <1>2 DEF DiceBoots, D!ServerBoot, RollsPaid
<1>3. CASE DiceAnswers
  <2>1. started' = started /\ dspc = "first" /\ dspc' = "second"
    BY <1>3, DiceAnswer DEF DiceAnswers
  <2>2. rolled' = rolled \/ \E roll \in D!Results : rolled' = Append(rolled, roll)
    BY <1>3, DiceAnswer DEF DiceAnswers
  <2>3. Len(rolled') \in {Len(rolled), Len(rolled) + 1}
    BY <1>0, <2>2, AppendProperties
  <2> QED
    BY <1>0, <2>1, <2>3 DEF RollsPaid
<1>4. CASE DiceServerEnds
  BY <1>4 DEF DiceServerEnds, D!ServerSecond, RollsPaid
<1>5. ASSUME NEW c \in Clients, DiceClient(c) PROVE RollsPaid'
  BY <1>5, DiceClientSteps DEF RollsPaid
<1>6. ASSUME NEW c \in Clients,
             \/ PlainStep(c) \/ LandClientEnds(c) \/ LandClientKilled(c) \/ OtherGames(c)
             \/ \E a \in Arguments : LandUserPlays(c, a)
      PROVE  RollsPaid'
  BY <1>6, PlayersAndServer DEF RollsPaid
<1>7. CASE UNCHANGED land
  BY <1>7 DEF land, dice, RollsPaid
<1> QED
  BY <1>1, <1>2, <1>3, <1>4, <1>5, <1>6, <1>7, LandSteps DEF DiceServer

(* The requests are datagrams of the dice game, one for each client.       *)
LEMMA AskTypes ==
    /\ \A c \in Clients : Ask(c) \in D!Datagrams /\ Ask(c).from = c
    /\ \A c, d \in Clients : Ask(c) = Ask(d) => c = d
    /\ \A c, d \in Clients : [from |-> c, text |-> "GAME ENDS"] # Ask(d)
<1>1. \A c \in Clients : Ask(c) \in D!Datagrams /\ Ask(c).from = c /\ Ask(c).text = "1"
  BY DEF Ask, D!Datagrams
<1>2. \A c : [from |-> c, text |-> "GAME ENDS"].text = "GAME ENDS"
  OBVIOUS
<1>3. \A c, d \in Clients : [from |-> c, text |-> "GAME ENDS"] # Ask(d)
  BY <1>1, <1>2
<1>4. \A c, d \in Clients : Ask(c) = Ask(d) => c = d
  BY <1>1
<1> QED
  BY <1>1, <1>3, <1>4

(* The first answer goes to a player that waits for it, and takes the      *)
(* player's only request away.                                             *)
LEMMA AnswerMeets ==
    ASSUME "duplicate" \notin Faults, TypeOK, D!TypeOK, Attended, ServerHeld, PlayersHeld,
           DiceAnswers, dreplies' # dreplies
    PROVE  \E c \in Clients :
              /\ Meet(c) /\ Head(dinbox) = Ask(c)
              /\ dcpc[c] = "await" /\ dreplies[c] = <<>> /\ Absent(dinbox', Ask(c))
              /\ \E roll \in D!Results : dreplies' = [dreplies EXCEPT ![c] = <<roll>>]
<1> DEFINE c == Head(dinbox).from
<1>1. /\ dspc = "first" /\ dinbox # <<>> /\ dinbox' = Tail(dinbox)
      /\ c \in Clients /\ Head(dinbox) = Ask(c) /\ Met(c)
      /\ \E roll \in D!Results : \E q :
            /\ dreplies' = [dreplies EXCEPT ![c] = q]
            /\ q = dreplies[c] \/ (dcpc[c] # "exited" /\ q \in Arrivals(dreplies[c], roll))
  BY DiceAnswer DEF DiceAnswers, Ask
<1>2. dinbox \in Seq(D!Datagrams) /\ dreplies[c] \in Seq(D!Results)
  BY <1>1 DEF D!TypeOK
<1> HIDE DEF c
<1>3. PICK roll, q :
            /\ roll \in D!Results
            /\ dreplies' = [dreplies EXCEPT ![c] = q]
            /\ q # dreplies[c] /\ dcpc[c] # "exited" /\ q \in Arrivals(dreplies[c], roll)
  <2>1. PICK roll, q :
            /\ roll \in D!Results
            /\ dreplies' = [dreplies EXCEPT ![c] = q]
            /\ q = dreplies[c] \/ (dcpc[c] # "exited" /\ q \in Arrivals(dreplies[c], roll))
    BY <1>1
  <2>2. q # dreplies[c]
    BY <2>1 DEF D!TypeOK
  <2> QED
    BY <2>1, <2>2
<1>4. ~Absent(dinbox, Ask(c))
  <2>1. Len(dinbox) \in Nat \ {0}
    BY <1>1, <1>2, EmptySeq
  <2> QED
    BY <1>1, <1>2, <2>1 DEF Held, Absent
<1>5. dcpc[c] = "await" /\ game[c] = "1"
  BY <1>1, <1>3, <1>4 DEF PlayersHeld, InGame, Attended
<1>6. dreplies[c] = <<>>
  BY <1>1, <1>5 DEF PlayersHeld, InGame
<1>7. q = <<roll>>
  BY <1>3, <1>6, FirstArrival
<1>8. Absent(dinbox', Ask(c))
  BY <1>1, <1>2, ReadOnce DEF PlayersHeld, InGame
<1>9. Meet(c)
  BY <1>1, <1>5 DEF Meet, ServerHeld
<1> QED
  BY <1>1, <1>3, <1>5, <1>6, <1>7, <1>8, <1>9

(* The dice server's steps keep a player where it is in its game.          *)
LEMMA ServerKeepsPlayers ==
    ASSUME "duplicate" \notin Faults, TypeOK, D!TypeOK, Attended, ServerHeld, PlayersHeld,
           DiceServer
    PROVE  PlayersHeld'
<1> SUFFICES ASSUME NEW d \in Clients PROVE InGame(d)'
  BY DEF PlayersHeld
<1>1. InGame(d) /\ dinbox \in Seq(D!Datagrams)
  BY DEF PlayersHeld, D!TypeOK
<1>2. CASE DiceBoots
  BY <1>1, <1>2 DEF DiceBoots, D!ServerBoot, InGame, vars, cvars
<1>3. CASE DiceServerEnds
  <2>1. UNCHANGED <<cpc, game, dcpc, dreplies>> /\ dinbox' = <<>>
    BY <1>3 DEF DiceServerEnds, D!ServerSecond, vars, cvars
  <2>2. Len(dinbox') = 0
    BY <2>1
  <2>3. Absent(dinbox', Ask(d)) /\ Once(dinbox', Ask(d))
    BY <2>2 DEF Held, Absent, Once
  <2> QED
    BY <1>1, <2>1, <2>3 DEF InGame, Once
<1>4. CASE DiceAnswers
  <2>1. dinbox # <<>> /\ dinbox' = Tail(dinbox) /\ dcpc' = dcpc
    BY <1>4, DiceAnswer DEF DiceAnswers
  <2>2. /\ Once(dinbox', Ask(d))
        /\ Absent(dinbox, Ask(d)) => Absent(dinbox', Ask(d))
    BY <1>1, <2>1, ReadOnce DEF InGame
  <2>3. CASE dreplies' = dreplies
    <3>1. UNCHANGED <<cpc, game>>
      BY <1>4, <2>3 DEF DiceAnswers, vars, cvars
    <3> QED
      BY <1>1, <2>1, <2>2, <2>3, <3>1 DEF InGame
  <2>4. CASE dreplies' # dreplies
    <3>1. PICK c \in Clients :
              /\ Meet(c) /\ Head(dinbox) = Ask(c)
              /\ dcpc[c] = "await" /\ dreplies[c] = <<>> /\ Absent(dinbox', Ask(c))
              /\ \E roll \in D!Results : dreplies' = [dreplies EXCEPT ![c] = <<roll>>]
      BY <1>4, <2>4, AnswerMeets
    <3>2. cpc' = cpc /\ game' = [game EXCEPT ![c] = "over"]
      BY <3>1 DEF Meet, Met
    <3>3. CASE d = c
      <4>1. PICK roll \in D!Results : dreplies'[d] = <<roll>>
        BY <3>1, <3>3 DEF D!TypeOK
      <4>2. Len(dreplies'[d]) = 1
        BY <4>1
      <4>3. game'[d] = "over" /\ dcpc'[d] = "await" /\ Absent(dinbox', Ask(d))
        BY <2>1, <3>1, <3>2, <3>3 DEF TypeOK
      <4> QED
        BY <2>2, <4>2, <4>3 DEF InGame
    <3>4. CASE d # c
      <4>1. UNCHANGED <<cpc, dcpc>> /\ game'[d] = game[d] /\ dreplies'[d] = dreplies[d]
        BY <2>1, <3>1, <3>2, <3>4 DEF TypeOK, D!TypeOK
      <4> QED
        BY <1>1, <2>2, <4>1 DEF InGame
    <3> QED
      BY <3>3, <3>4
  <2> QED
    BY <2>3, <2>4
<1> QED
  BY <1>2, <1>3, <1>4 DEF DiceServer

(* So do the dice clients'.                                                *)
LEMMA DiceClientKeepsPlayers ==
    ASSUME "duplicate" \notin Faults, TypeOK, D!TypeOK, Attended, PlayersHeld,
           NEW c \in Clients, DiceClient(c)
    PROVE  PlayersHeld'
<1> SUFFICES ASSUME NEW d \in Clients PROVE InGame(d)'
  BY DEF PlayersHeld
<1>1. /\ InGame(c) /\ InGame(d) /\ dinbox \in Seq(D!Datagrams) /\ UNCHANGED <<cpc, game>>
      /\ dcpc[c] # "exited" => cpc[c] = "game"
      /\ d # c => dcpc'[d] = dcpc[d] /\ dreplies'[d] = dreplies[d]
  BY DiceClientSteps DEF PlayersHeld, D!TypeOK, Attended, vars, cvars
<1>2. ASSUME NEW text \in {"1", "GAME ENDS"}, D!ToServer(c, text),
             [from |-> c, text |-> text] # Ask(d)
      PROVE  /\ Once(dinbox', Ask(d))
             /\ Absent(dinbox, Ask(d)) => Absent(dinbox', Ask(d))
  <2>1. /\ [from |-> c, text |-> text] \in D!Datagrams
        /\ dinbox' = dinbox \/ dinbox' \in Arrivals(dinbox, [from |-> c, text |-> text])
    BY <1>2, SentToDice
  <2>2. Once(dinbox, Ask(d))
    BY <1>1 DEF InGame
  <2>3. CASE dinbox' = dinbox
    BY <2>2, <2>3
  <2>4. CASE dinbox' \in Arrivals(dinbox, [from |-> c, text |-> text])
    <3> DEFINE m == [from |-> c, text |-> text]
    <3>1. m \in D!Datagrams /\ Ask(d) # m /\ dinbox' \in Arrivals(dinbox, m)
      BY <1>2, <2>1, <2>4
    <3> HIDE DEF m
    <3> QED
      BY <1>1, <2>2, <3>1, ArrivalsOnce
  <2> QED
    BY <2>1, <2>3, <2>4
<1>3. CASE dinbox' = dinbox /\ dcpc[c] = "init" /\ dcpc'[c] = "exited" /\ ProcessesFail
           /\ dreplies' = dreplies
  BY <1>1, <1>3 DEF InGame
<1>4. CASE dcpc[c] = "init" /\ dcpc'[c] = "await" /\ dreplies' = dreplies /\ D!ToServer(c, "1")
  <2>1. CASE d = c
    <3>1. game[c] = "1" /\ Absent(dinbox, Ask(c)) /\ dreplies[c] = <<>>
      BY <1>1, <1>4 DEF InGame
    <3>2. Once(dinbox', Ask(c))
      <4>1. /\ Ask(c) \in D!Datagrams
            /\ dinbox' = dinbox \/ dinbox' \in Arrivals(dinbox, Ask(c))
        BY <1>4, SentToDice DEF Ask
      <4> QED
        BY <1>1, <3>1, <4>1, ArrivalsOnce DEF InGame
    <3> QED
      BY <1>1, <1>4, <2>1, <3>1, <3>2 DEF InGame
  <2>2. CASE d # c
    <3>1. [from |-> c, text |-> "1"] # Ask(d)
      BY <2>2, AskTypes DEF Ask
    <3> QED
      BY <1>1, <1>2, <1>4, <2>2, <3>1 DEF InGame
  <2> QED
    BY <2>1, <2>2
<1>5. CASE /\ dcpc[c] = "await" /\ dcpc'[c] = "show" /\ dreplies[c] # <<>>
           /\ dreplies'[c] = Tail(dreplies[c]) /\ dinbox' = dinbox
  <2>1. CASE d = c
    <3>1. game[c] = "over" /\ Len(dreplies[c]) = 1 /\ dreplies[c] \in Seq(D!Results)
      BY <1>1, <1>5 DEF InGame, D!TypeOK
    <3>2. Tail(dreplies[c]) \in Seq(D!Results) /\ Len(Tail(dreplies[c])) = 0
      BY <1>5, <3>1, HeadTailProperties
    <3>3. dreplies'[c] = <<>>
      BY <1>5, <3>2, EmptyByLength
    <3>4. Absent(dinbox, Ask(c))
      BY <1>1, <1>5, <3>1 DEF InGame
    <3> QED
      BY <1>1, <1>5, <2>1, <3>1, <3>3, <3>4 DEF InGame
  <2>2. CASE d # c
    BY <1>1, <1>5, <2>2 DEF InGame
  <2> QED
    BY <2>1, <2>2
<1>6. CASE /\ dcpc[c] = "show" /\ dcpc'[c] = "exited"
           /\ dreplies'[c] = <<>> /\ D!ToServer(c, "GAME ENDS")
  <2>1. /\ Once(dinbox', Ask(d))
        /\ Absent(dinbox, Ask(d)) => Absent(dinbox', Ask(d))
    BY <1>2, <1>6, AskTypes
  <2>2. CASE d = c
    <3>1. game[c] = "over" /\ Absent(dinbox, Ask(c))
      BY <1>1, <1>6 DEF InGame
    <3> QED
      BY <1>1, <1>6, <2>1, <2>2, <3>1 DEF InGame
  <2>3. CASE d # c
    BY <1>1, <2>1, <2>3 DEF InGame
  <2> QED
    BY <2>2, <2>3
<1> QED
  BY <1>3, <1>4, <1>5, <1>6, DiceClientSteps

(* So do the player's own.                                                 *)
LEMMA PlayersKeepPlayers ==
    ASSUME TypeOK, D!TypeOK, Attended, PlayersHeld, NEW c \in Clients,
           \/ PlainStep(c) \/ LandClientEnds(c) \/ LandClientKilled(c) \/ OtherGames(c)
           \/ \E a \in Arguments : LandUserPlays(c, a)
    PROVE  PlayersHeld'
<1> SUFFICES ASSUME NEW d \in Clients PROVE InGame(d)'
  BY DEF PlayersHeld
<1>1. InGame(d) /\ dinbox' = dinbox
  BY PlayersAndServer DEF PlayersHeld
<1>2. CASE d # c
  <2>1. /\ cpc'[d] = cpc[d] /\ game'[d] = game[d]
        /\ dcpc'[d] = dcpc[d] /\ dreplies'[d] = dreplies[d]
    BY <1>2, OnePlayer, PlayersAndServer
  <2> QED
    BY <1>1, <2>1 DEF InGame
<1>3. CASE d = c /\ PlainStep(c)
  <2>1. dreplies' = dreplies /\ cpc[c] # "exited"
    BY <1>3 DEF PlainStep, ClientStart, UserAsks, ClientReply, dice
  <2>2. cpc[c] # "game" /\ game'[c] = game[c] /\ dcpc' = dcpc
    BY <1>3, PlayerSteps
  <2>3. dcpc[c] = "exited" /\ game[c] = "none"
    BY <2>2 DEF Attended
  <2> QED
    BY <1>1, <1>3, <2>1, <2>2, <2>3 DEF InGame
<1>4. CASE d = c /\ LandClientEnds(c)
  <2>1. dreplies' = dreplies
    BY <1>4 DEF LandClientEnds, dice
  <2> QED
    BY <1>1, <1>4, <2>1, PlayerSteps DEF InGame
<1>5. CASE d = c /\ LandClientKilled(c)
  <2>1. dreplies'[c] = <<>> /\ dcpc'[c] = "exited"
    BY <1>5 DEF LandClientKilled, D!TypeOK
  <2> QED
    BY <1>1, <1>5, <2>1, PlayerSteps DEF InGame
<1>6. CASE d = c /\ OtherGames(c)
  <2>1. dreplies' = dreplies
    BY <1>6 DEF OtherGames, dice
  <2> QED
    BY <1>1, <1>6, <2>1, PlayerSteps DEF InGame
<1>7. ASSUME d = c, NEW a \in Arguments, LandUserPlays(c, a) PROVE InGame(d)'
  <2>1. /\ cpc[c] = "prompt" /\ game[c] = "none" /\ dcpc[c] = "exited"
        /\ \/ cpc'[c] = "game" /\ game'[c] = "1" /\ game_1Client(c)
           \/ cpc'[c] = "game" /\ game'[c] # "1" /\ UNCHANGED <<dice, started>>
           \/ cpc'[c] = "exited" /\ game'[c] = "none" /\ UNCHANGED <<dice, started>>
    BY <1>7, PlayerSteps
  <2>2. Absent(dinbox, Ask(c)) /\ dreplies[c] = <<>>
    BY <1>1, <1>7, <2>1 DEF InGame
  <2>3. CASE game'[c] = "1" /\ game_1Client(c)
    <3>1. dcpc'[c] = "init" /\ dreplies' = dreplies
      BY <2>3 DEF game_1Client, D!TypeOK
    <3> QED
      BY <1>1, <1>7, <2>2, <2>3, <3>1 DEF InGame
  <2>4. CASE game'[c] # "1" /\ UNCHANGED <<dice, started>>
    <3>1. dcpc' = dcpc /\ dreplies' = dreplies
      BY <2>4 DEF dice
    <3> QED
      BY <1>1, <1>7, <2>1, <2>2, <2>4, <3>1 DEF InGame
  <2> QED
    BY <2>1, <2>3, <2>4
<1> QED
  BY <1>2, <1>3, <1>4, <1>5, <1>6, <1>7

(* Every step keeps the players where their games are.                     *)
LEMMA PlayersHeldKept ==
    ASSUME "duplicate" \notin Faults, TypeOK, D!TypeOK, Attended, ServerHeld, PlayersHeld,
           [LandNext]_land
    PROVE  PlayersHeld'
<1>1. CASE DispatcherStep \/ UNCHANGED land
  <2>1. UNCHANGED <<cpc, game, dcpc, dreplies, dinbox>>
    BY <1>1, DispatcherLeaves DEF land, vars, cvars, dice
  <2> QED
    BY <2>1 DEF PlayersHeld, InGame
<1> QED
  BY <1>1, ServerKeepsPlayers, DiceClientKeepsPlayers, PlayersKeepPlayers, LandSteps

(* A single player has one request in the server's socket.                 *)
LEMMA SoleRequest ==
    ASSUME ~Crowded, PlayersHeld, dinbox \in Seq(Asks), dinbox # <<>>
    PROVE  \E c \in Clients : Head(dinbox) = Ask(c) /\ Tail(dinbox) = <<>> /\ ~Absent(dinbox, Ask(c))
<1>1. Len(dinbox) \in Nat \ {0}
  BY EmptySeq
<1>2. \A i \in 1 .. Len(dinbox) : dinbox[i] \in Asks
  BY ElementOfSeq
<1>3. 1 \in 1 .. Len(dinbox) /\ Len(dinbox) \in 1 .. Len(dinbox)
  BY <1>1
<1>4. PICK c \in Clients : dinbox[1] = Ask(c)
  BY <1>2, <1>3 DEF Asks
<1>5. \A i \in 1 .. Len(dinbox) : dinbox[i] = Ask(c)
  BY <1>2, <1>4 DEF Asks, Crowded
<1>6. \A i \in 1 .. Len(dinbox) : i = 1
  BY <1>3, <1>5 DEF PlayersHeld, InGame, Once, Held
<1>7. Len(dinbox) = 1
  BY <1>3, <1>6
<1>8. Tail(dinbox) \in Seq(Asks) /\ Len(Tail(dinbox)) = 0 /\ Head(dinbox) = dinbox[1]
  BY <1>7, HeadTailProperties
<1>9. ~Absent(dinbox, Ask(c))
  BY <1>3, <1>4 DEF Absent, Held
<1> QED
  BY <1>4, <1>8, <1>9, EmptyByLength

(* Every step keeps the server of a single player to that player.          *)
LEMMA SoleServer ==
    ASSUME "duplicate" \notin Faults, ~Crowded, ~ProcessesFail, TypeOK, D!TypeOK, Attended,
           ServerHeld, PlayersHeld, Sole, DispatcherStep \/ DiceServer
    PROVE  Sole'
<1>1. CASE DispatcherStep
  <2>1. /\ dspc = "exited" /\ UNCHANGED <<cpc, dinbox, dcpc, dreplies>>
        /\ dspc' \in {"exited", "boot"} /\ ~(dspc' = "exited" /\ child' = "1")
    <3>1. CASE DiceServerReaped
      BY <1>1, <3>1, DispatcherLeaves, DispatcherAndServer
         DEF DiceServerReaped, ServerReaped, dice, cvars
    <3> QED
      BY <1>1, <3>1, DispatcherLeaves, DispatcherAndServer DEF cvars
  <2>2. NoResult'
    BY <2>1 DEF Sole, NoResult
  <2> QED
    BY <2>1, <2>2 DEF Sole
<1>2. CASE DiceBoots
  <2>1. dspc = "boot" /\ dspc' = "first" /\ UNCHANGED <<dinbox, dcpc, dreplies>>
    BY <1>2 DEF DiceBoots, D!ServerBoot
  <2>2. dinbox' \in Seq(Asks)
    BY <2>1, EmptyHasType DEF ServerHeld
  <2>3. NoResult'
    BY <2>1 DEF Sole, NoResult
  <2> QED
    BY <2>1, <2>2, <2>3 DEF Sole
<1>3. CASE DiceAnswers
  <2>1. /\ dspc = "first" /\ dspc' = "second" /\ dinbox # <<>> /\ dinbox' = Tail(dinbox)
        /\ dcpc' = dcpc
    BY <1>3, DiceAnswer DEF DiceAnswers
  <2>2. PICK c \in Clients : Tail(dinbox) = <<>> /\ ~Absent(dinbox, Ask(c))
    BY <2>1, SoleRequest DEF Sole
  <2>3. cpc[c] = "exited" \/ dcpc[c] = "await"
    BY <2>2 DEF PlayersHeld, InGame
  <2>4. CASE dreplies' # dreplies
    <3>1. met'
      BY <1>3, <2>4, AnswerMeets DEF Meet, Met
    <3> QED
      BY <2>1, <2>2, <3>1 DEF Sole
  <2>5. CASE dreplies' = dreplies
    <3>1. UNCHANGED <<cpc, dcpc, dreplies>>
      BY <1>3, <2>1, <2>5 DEF DiceAnswers, vars, cvars
    <3>2. \A d \in Clients : d = c
      BY DEF Crowded
    <3>3. NoResult'
      BY <2>1, <3>1 DEF Sole, NoResult
    <3> QED
      BY <2>1, <2>2, <2>3, <3>1, <3>2, <3>3 DEF Sole
  <2> QED
    BY <2>4, <2>5
<1>4. CASE DiceServerEnds
  <2>1. /\ dspc = "second" /\ dinbox # <<>> /\ dspc' = "exited" /\ dinbox' = <<>>
        /\ UNCHANGED <<met, dcpc, dreplies>>
    BY <1>4 DEF DiceServerEnds, D!ServerSecond, vars, dvars
  <2>2. met /\ NoResult /\ NoResult'
    BY <2>1 DEF Sole, NoResult
  <2> QED
    BY <2>1, <2>2 DEF Sole
<1> QED
  BY <1>1, <1>2, <1>3, <1>4 DEF DiceServer

(* And the player's dice client.                                           *)
LEMMA SoleDiceClient ==
    ASSUME ~Crowded, ~ProcessesFail, TypeOK, D!TypeOK, Attended, ServerHeld, PlayersHeld, Sole,
           NEW c \in Clients, DiceClient(c)
    PROVE  Sole'
<1>1. /\ UNCHANGED <<dspc, child, met, cpc>> /\ InGame(c)
      /\ \A d \in Clients : d = c
      /\ dcpc[c] # "exited" => cpc[c] = "game"
  BY DiceClientSteps DEF vars, dvars, cvars, PlayersHeld, Crowded, Attended
<1>2. CASE dcpc[c] = "init" /\ dcpc'[c] = "await" /\ dreplies' = dreplies /\ D!ToServer(c, "1")
  <2>1. NoResult' /\ ~(dspc = "second" /\ ~met)
    BY <1>1, <1>2 DEF Sole, NoResult, InGame
  <2>2. dspc = "first" => dinbox' \in Seq(Asks)
    <3>1. Ask(c) \in Asks /\ (dinbox' = dinbox \/ dinbox' \in Arrivals(dinbox, Ask(c)))
      BY <1>2, SentToDice DEF Ask, Asks
    <3> QED
      BY <3>1, ArrivalsType DEF Sole
  <2> QED
    BY <1>1, <2>1, <2>2 DEF Sole
<1>3. CASE /\ dcpc[c] = "await" /\ dcpc'[c] = "show" /\ dreplies[c] # <<>>
           /\ dreplies'[c] = Tail(dreplies[c]) /\ dinbox' = dinbox
  <2>1. dspc = "second" /\ dinbox = <<>> /\ met
    BY <1>3 DEF Sole, NoResult
  <2> QED
    BY <1>1, <1>3, <2>1 DEF Sole
<1>4. CASE /\ dcpc[c] = "show" /\ dcpc'[c] = "exited"
           /\ dreplies'[c] = <<>> /\ D!ToServer(c, "GAME ENDS")
  <2>1. dspc = "second" /\ met
    BY <1>4 DEF Sole, NoResult
  <2>2. NoResult'
    BY <1>1, <1>4 DEF NoResult
  <2> QED
    BY <1>1, <2>1, <2>2 DEF Sole
<1> QED
  BY <1>2, <1>3, <1>4, DiceClientSteps

(* And the player.                                                         *)
LEMMA SolePlayer ==
    ASSUME ~Crowded, ~ProcessesFail, TypeOK, D!TypeOK, Attended, ServerHeld, PlayersHeld, Sole,
           NEW c \in Clients,
           \/ PlainStep(c) \/ LandClientEnds(c) \/ LandClientKilled(c) \/ OtherGames(c)
           \/ \E a \in Arguments : LandUserPlays(c, a)
    PROVE  Sole'
<1>1. /\ UNCHANGED <<child, dspc, dinbox>>
      /\ met' = met \/ (met' /\ dspc = "exited" /\ child # "1")
      /\ InGame(c) /\ \A d \in Clients : d = c
  BY PlayersAndServer DEF ServerHeld, PlayersHeld, Crowded
<1>2. CASE PlainStep(c)
  <2>1. dcpc' = dcpc /\ dreplies' = dreplies /\ cpc[c] # "exited" /\ dcpc[c] = "exited"
    BY <1>2, PlayerSteps DEF PlainStep, ClientStart, UserAsks, ClientReply, dice, Attended
  <2>2. NoResult' /\ ~(dspc = "second" /\ ~met)
    BY <1>1, <2>1 DEF Sole, NoResult, InGame
  <2> QED
    BY <1>1, <2>2 DEF Sole
<1>3. CASE LandClientEnds(c) \/ OtherGames(c)
  <2>1. dcpc' = dcpc /\ dcpc[c] = "exited" /\ cpc[c] = "game"
    BY <1>3, PlayerSteps
  <2>2. dreplies' = dreplies
    BY <1>3 DEF LandClientEnds, OtherGames, dice
  <2>3. NoResult' /\ ~(dspc = "second" /\ ~met)
    BY <1>1, <2>1, <2>2 DEF Sole, NoResult, InGame
  <2> QED
    BY <1>1, <2>3 DEF Sole
<1>4. CASE LandClientKilled(c)
  <2>1. cpc'[c] = "exited" /\ dcpc'[c] = "exited" /\ dreplies'[c] = <<>>
    BY <1>4, PlayerSteps DEF LandClientKilled, D!TypeOK
  <2>2. NoResult'
    BY <1>1, <2>1 DEF NoResult
  <2> QED
    BY <1>1, <2>1, <2>2 DEF Sole
<1>5. ASSUME NEW a \in Arguments, LandUserPlays(c, a) PROVE Sole'
  <2>1. /\ cpc[c] = "prompt" /\ dcpc[c] = "exited"
        /\ game_1Client(c) \/ UNCHANGED dice
    BY <1>5, PlayerSteps
  <2>2. dcpc'[c] \in {"init", "exited"} /\ dreplies' = dreplies
    BY <2>1 DEF game_1Client, dice, D!TypeOK
  <2>3. NoResult' /\ ~(dspc = "second" /\ ~met)
    BY <1>1, <2>1, <2>2 DEF Sole, NoResult, InGame
  <2> QED
    BY <1>1, <2>3 DEF Sole
<1> QED
  BY <1>2, <1>3, <1>4, <1>5

(* All that holds between the processes.                                   *)
LandInv ==
    /\ TypeOK /\ D!TypeOK /\ Attended /\ started \in Nat
    /\ ServerHeld /\ RollsPaid /\ PlayersHeld /\ WhenSole

LEMMA LandInvAlways ==
    ASSUME "duplicate" \notin Faults
    PROVE  LandSpec => []LandInv
<1>1. LandInit => LandInv
  <2> SUFFICES ASSUME LandInit PROVE LandInv
    OBVIOUS
  <2>1. Len(dinbox) = 0 /\ Len(rolled) = 0
    BY DEF LandInit
  <2>2. \A c \in Clients : Once(dinbox, Ask(c)) /\ Absent(dinbox, Ask(c))
    BY <2>1 DEF Once, Absent, Held
  <2>3. ServerHeld /\ RollsPaid
    BY <2>1 DEF LandInit, Init, ServerHeld, RollsPaid
  <2>4. PlayersHeld
    BY <2>2 DEF LandInit, Init, PlayersHeld, InGame
  <2>5. WhenSole
    BY DEF LandInit, Init, WhenSole, Sole, NoResult
  <2> QED
    BY <2>3, <2>4, <2>5, LandTypesInit DEF LandInv
<1>2. LandInv /\ [LandNext]_land => LandInv'
  <2> SUFFICES ASSUME LandInv, [LandNext]_land PROVE LandInv'
    OBVIOUS
  <2> USE DEF LandInv
  <2>1. TypeOK' /\ D!TypeOK' /\ Attended' /\ (started \in Nat)'
    BY LandKeepsLobbyTypes, LandKeepsDiceTypes, AttendedKept, LandCountsServers
  <2>2. ServerHeld' /\ RollsPaid' /\ PlayersHeld'
    BY ServerHeldKept, RollsPaidKept, PlayersHeldKept
  <2>3. WhenSole'
    <3> SUFFICES ASSUME ~Crowded, ~ProcessesFail PROVE Sole'
      BY DEF WhenSole, Crowded
    <3>1. Sole
      BY DEF WhenSole
    <3>2. UNCHANGED land => Sole'
      BY <3>1 DEF land, vars, dvars, cvars, dice, Sole, NoResult
    <3> QED
      BY <3>1, <3>2, SoleServer, SoleDiceClient, SolePlayer, LandSteps
  <2> QED
    BY <2>1, <2>2, <2>3
<1> QED
  BY <1>1, <1>2, PTL DEF LandSpec

(* One GAME command buys at most one roll, and a result reaches only a     *)
(* player that still waits for one, whatever processes fail, players leave *)
(* and datagrams are lost or overtake one another (execute.c:190-227,      *)
(* Dice_server.c:41-82).                                                   *)
THEOREM LandOneRollPerGame ==
    ASSUME "duplicate" \notin Faults
    PROVE  LandSpec => []OneRollPerGame
<1>1. LandInv => OneRollPerGame
  BY DEF LandInv, RollsPaid, PlayersHeld, InGame, OneRollPerGame
<1> QED
  BY <1>1, LandInvAlways, PTL

(* Every step of the processes is one that Lobby's contract allows.        *)
LEMMA LandStepsAllowed ==
    ASSUME "duplicate" \notin Faults, LandInv, [LandNext]_land
    PROVE  [Next]_vars
<1> USE DEF LandInv
<1>1. CASE DispatcherStep
  <2>1. DiceServerReaped => GameServerEnds
    <3> SUFFICES ASSUME DiceServerReaped PROVE GameServerEnds
      OBVIOUS
    <3>1. dspc = "exited" /\ child = "1" /\ ServerReaped
      BY DEF DiceServerReaped
    <3>2. met \/ ProcessesFail \/ Crowded
      BY <3>1 DEF WhenSole, Sole
    <3> QED
      BY <3>1, <3>2 DEF GameServerEnds
  <2>2. Boot \/ Dispatcher
    BY <1>1, <2>1 DEF DispatcherStep, LandDispatcher, LandServeGame, Dispatcher
  <2> QED
    BY <2>2 DEF Next
<1>2. CASE DiceServer
  <2>1. CASE UNCHANGED vars
    BY <2>1
  <2>2. CASE DiceAnswers /\ dreplies' # dreplies
    <3>1. PICK c \in Clients : Meet(c)
      BY <2>2, AnswerMeets
    <3> QED
      BY <3>1 DEF Next
  <2>3. CASE DiceAnswers /\ dreplies' = dreplies
    BY <2>3 DEF DiceAnswers
  <2> QED
    BY <1>2, <2>1, <2>2, <2>3, DiceServerSteps
<1>3. ASSUME NEW c \in Clients, DiceClient(c) PROVE UNCHANGED vars
  BY <1>3, DiceClientSteps
<1>4. ASSUME NEW c \in Clients,
             PlainStep(c) \/ LandClientKilled(c) \/ OtherGames(c)
             \/ \E a \in Arguments : LandUserPlays(c, a)
      PROVE  Next
  BY <1>4 DEF PlainStep, LandClientKilled, OtherGames, LandUserPlays, Client, Next
<1>5. ASSUME NEW c \in Clients, LandClientEnds(c) PROVE Next
  <2>1. GameClientEnds(c)
    <3>1. CASE game[c] = "1"
      <4>1. dcpc[c] = "exited" /\ ClientReaped(c)
        BY <1>5, <3>1 DEF LandClientEnds
      <4>2. ProcessesFail
        BY <3>1, <4>1 DEF PlayersHeld, InGame
      <4>3. game[c] \in Games
        BY <3>1 DEF TypeOK
      <4> QED
        BY <4>1, <4>2, <4>3 DEF GameClientEnds
    <3>2. CASE game[c] # "1"
      BY <1>5, <3>2 DEF LandClientEnds
    <3> QED
      BY <3>1, <3>2
  <2> QED
    BY <2>1 DEF Client, Next
<1>6. CASE UNCHANGED land
  BY <1>6 DEF land
<1> QED
  BY <1>1, <1>2, <1>3, <1>4, <1>5, <1>6, LandSteps

(* The dispatcher and its command lines with dice processes in the place   *)
(* of the contract do what Lobby says they do, for any number of players:  *)
(* whoever reaches whichever server first, a meeting is the first of its   *)
(* server and of its client (execute.c:190-227, client.c:197-216).         *)
THEOREM LandImplementsLobby ==
    ASSUME "duplicate" \notin Faults
    PROVE  LandSpec => ImplementsLobby
<1>1. LandInit => Init
  BY DEF LandInit
<1>2. LandInv /\ [LandNext]_land => [Next]_vars
  BY LandStepsAllowed
<1> QED
  BY <1>1, <1>2, LandInvAlways, PTL DEF LandSpec, Spec, ImplementsLobby

-----------------------------------------------------------------------------
(* What is proved of Lobby holds with the processes of the dice game.      *)

(* A reply that reaches a player answers the command it is blocked on.     *)
THEOREM LandRepliesMatch ==
    ASSUME "duplicate" \notin Faults
    PROVE  LandSpec => []RepliesMatch
BY LandImplementsLobby, LobbyRepliesMatch, PTL DEF ImplementsLobby

(* No command disappears but into the two recvfroms that drop it.          *)
THEOREM LandRequestConserved ==
    ASSUME Faults = {}, UserWaits
    PROVE  LandSpec /\ []Room => []RequestConserved
<1>1. "duplicate" \notin Faults
  OBVIOUS
<1> QED
  BY <1>1, LandImplementsLobby, LobbyRequestConserved, PTL DEF ImplementsLobby

(* None of a lone player's commands disappears.                            *)
THEOREM LandNothingEaten ==
    ASSUME NEW p, Alone(p)
    PROVE  LandSpec => []NothingEaten
<1>1. "duplicate" \notin Faults
  BY DEF Alone
<1> QED
  BY <1>1, LandImplementsLobby, LobbyNothingEaten, PTL DEF ImplementsLobby

(* A server that waits for the lone player waits for the game it plays.    *)
THEOREM LandGameHasPlayer ==
    ASSUME NEW p, Alone(p)
    PROVE  LandSpec => []GameHasPlayer
<1>1. "duplicate" \notin Faults
  BY DEF Alone
<1> QED
  BY <1>1, LandImplementsLobby, LobbyGameHasPlayer, PTL DEF ImplementsLobby
=============================================================================
