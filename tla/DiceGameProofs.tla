--------------------------- MODULE DiceGameProofs ---------------------------
(***************************************************************************)
(* Theorems about the dice game for any clients, any faces and any faults  *)
(* of the network: its types, and that one run of the server serves one    *)
(* client.                                                                 *)
(***************************************************************************)
EXTENDS DiceGame, UdpProofs

-----------------------------------------------------------------------------
(* Types.                                                                  *)

(* A send to the server keeps the type of its socket.                      *)
LEMMA ToServerType ==
    ASSUME inbox \in Seq(Datagrams), NEW c \in Clients, NEW text \in {"1", "GAME ENDS"},
           ToServer(c, text)
    PROVE  inbox' \in Seq(Datagrams)
<1>1. [from |-> c, text |-> text] \in Datagrams
  BY DEF Datagrams
<1> QED
  BY <1>1, ArrivalsType DEF ToServer

(* roll_dice rolls what a client can parse.                                *)
LEMMA RollsType == Rolls = Results
BY DEF Rolls, roll_dice, Results

(* The first datagram is answered to one client, with one roll, or not at  *)
(* all; what the network makes of the answer are copies of that roll.      *)
LEMMA FirstAnswer ==
    ASSUME TypeOK, ServerFirst
    PROVE  /\ spc = "first" /\ spc' = "second"
           /\ inbox' \in Seq(Datagrams)
           /\ UNCHANGED <<cpc, result, verdict>>
           /\ \/ UNCHANGED <<rolled, replies>>
              \/ \E roll \in Results, c \in Clients : \E q :
                    /\ rolled' = Append(rolled, roll)
                    /\ replies' = [replies EXCEPT ![c] = q]
                    /\ \A S : roll \in S /\ replies[c] \in Seq(S) => q \in Seq(S)
<1> DEFINE m == Head(inbox)
<1>1. m \in Datagrams /\ inbox' \in Seq(Datagrams)
  BY HeadTailProperties DEF TypeOK, ServerFirst
<1>2. m.from \in Clients
  BY <1>1 DEF Datagrams
<1>3. CASE m.text = "1"
  <2>1. PICK roll \in Results :
            /\ rolled' = Append(rolled, roll)
            /\ replies' \in {[replies EXCEPT ![m.from] = q] :
                                q \in IF cpc[m.from] = "exited" THEN {replies[m.from]}
                                      ELSE Arrivals(replies[m.from], roll)}
    BY <1>3, RollsType DEF ServerFirst
  <2>2. PICK q : /\ replies' = [replies EXCEPT ![m.from] = q]
                 /\ q = replies[m.from] \/ q \in Arrivals(replies[m.from], roll)
    BY <2>1
  <2>3. \A S : roll \in S /\ replies[m.from] \in Seq(S) => q \in Seq(S)
    BY <2>2, ArrivalsType
  <2> QED
    BY <1>1, <1>2, <2>1, <2>2, <2>3 DEF ServerFirst
<1>4. CASE m.text # "1"
  BY <1>1, <1>4 DEF ServerFirst
<1> QED
  BY <1>3, <1>4

(* Every die is one that roll_dice can throw, and every verdict one of the *)
(* three, on every network (Dice_server.c:12-16, Dice_client.c:230-260).   *)
THEOREM DiceTypes == Spec => []TypeOK
<1>1. Init => TypeOK
  BY DEF Init, TypeOK
<1>2. TypeOK /\ [Next]_vars => TypeOK'
  <2> SUFFICES ASSUME TypeOK, [Next]_vars PROVE TypeOK'
    OBVIOUS
  <2>1. CASE ServerBoot
    BY <2>1 DEF ServerBoot, TypeOK
  <2>2. CASE ServerFirst
    <3>1. CASE UNCHANGED <<rolled, replies>>
      BY <2>2, <3>1, FirstAnswer DEF TypeOK
    <3>2. CASE ~UNCHANGED <<rolled, replies>>
      <4>1. PICK roll \in Results, c \in Clients : \E q :
                /\ rolled' = Append(rolled, roll)
                /\ replies' = [replies EXCEPT ![c] = q]
                /\ \A S : roll \in S /\ replies[c] \in Seq(S) => q \in Seq(S)
        BY <2>2, <3>2, FirstAnswer
      <4>2. PICK q : /\ replies' = [replies EXCEPT ![c] = q]
                     /\ q \in Seq(Results)
        BY <4>1 DEF TypeOK
      <4>3. rolled' \in Seq(Results)
        <5>1. rolled \in Seq(Results)
          BY DEF TypeOK
        <5> QED
          BY <4>1, <5>1, AppendProperties
      <4> QED
        BY <2>2, <4>2, <4>3, FirstAnswer DEF TypeOK
    <3> QED
      BY <3>1, <3>2
  <2>3. CASE ServerSecond
    <3>1. inbox' \in Seq(Datagrams)
      BY <2>3, EmptyHasType DEF ServerSecond
    <3> QED
      BY <2>3, <3>1 DEF ServerSecond, TypeOK
  <2>4. ASSUME NEW c \in Clients, ClientStart(c) PROVE TypeOK'
    <3>1. inbox' \in Seq(Datagrams)
      BY <2>4, ToServerType DEF ClientStart, TypeOK
    <3> QED
      BY <2>4, <3>1 DEF ClientStart, TypeOK
  <2>5. ASSUME NEW c \in Clients, ClientResult(c) PROVE TypeOK'
    <3>1. Head(replies[c]) \in Results /\ Tail(replies[c]) \in Seq(Results)
      BY <2>5, HeadTailProperties DEF ClientResult, TypeOK
    <3>2. Judge(Head(replies[c])) \in {"none", "Opponent wins", "Player wins", "Draw"}
      BY DEF Judge
    <3> QED
      BY <2>5, <3>1, <3>2 DEF ClientResult, TypeOK
  <2>6. ASSUME NEW c \in Clients, ClientEnd(c) PROVE TypeOK'
    <3>1. inbox' \in Seq(Datagrams)
      BY <2>6, ToServerType DEF ClientEnd, TypeOK
    <3>2. <<>> \in Seq(Results)
      BY EmptyHasType
    <3> QED
      BY <2>6, <3>1, <3>2 DEF ClientEnd, TypeOK
  <2>7. CASE UNCHANGED vars
    BY <2>7 DEF vars, TypeOK
  <2> QED
    BY <2>1, <2>2, <2>3, <2>4, <2>5, <2>6, <2>7 DEF Next, Server, Client
<1> QED
  BY <1>1, <1>2, PTL DEF Spec

-----------------------------------------------------------------------------
(* One client served.                                                      *)

(* Until the first datagram nothing has been rolled or answered; after it, *)
(* everything that is under way or was read is a copy of the one roll, and *)
(* on its way to one client.                                               *)
OneAnswer ==
    /\ spc \in {"boot", "first"} =>
          rolled = <<>> /\ \A c \in Clients : result[c] = <<>> /\ replies[c] = <<>>
    /\ Len(rolled) <= 1
    /\ \A c \in Clients : replies[c] # <<>> =>
          Len(rolled) = 1 /\ replies[c] \in Seq({rolled[1]})
    /\ OneClientServed

(* Clients other than the one that is answered keep what they have.        *)
LEMMA AnswerKeeps ==
    ASSUME TypeOK, OneAnswer, ServerFirst
    PROVE  OneAnswer'
<1>1. CASE UNCHANGED <<rolled, replies>>
  BY <1>1, FirstAnswer DEF OneAnswer, OneClientServed, Served
<1>2. CASE ~UNCHANGED <<rolled, replies>>
  <2>1. PICK roll \in Results, c \in Clients : \E q :
            /\ rolled' = Append(rolled, roll)
            /\ replies' = [replies EXCEPT ![c] = q]
            /\ \A S : roll \in S /\ replies[c] \in Seq(S) => q \in Seq(S)
    BY <1>2, FirstAnswer
  <2>2. /\ spc = "first" /\ spc' = "second" /\ UNCHANGED <<cpc, result, verdict>>
        /\ rolled = <<>> /\ \A d \in Clients : result[d] = <<>> /\ replies[d] = <<>>
    BY FirstAnswer DEF OneAnswer
  <2>3. PICK q : replies' = [replies EXCEPT ![c] = q] /\ q \in Seq({roll})
    <3>1. PICK q : /\ replies' = [replies EXCEPT ![c] = q]
                   /\ \A S : roll \in S /\ replies[c] \in Seq(S) => q \in Seq(S)
      BY <2>1
    <3>2. roll \in {roll} /\ replies[c] \in Seq({roll})
      BY <2>2, EmptyHasType
    <3> QED
      BY <3>1, <3>2
  <2>4. rolled' = <<roll>> /\ Len(rolled') = 1 /\ rolled'[1] = roll
    BY <2>1, <2>2
  <2>5. \A d \in Clients : result'[d] = <<>> /\ (replies'[d] # <<>> => d = c)
    BY <2>2, <2>3 DEF TypeOK
  <2>6. \A d \in Clients : replies'[d] # <<>> => replies'[d] \in Seq({roll})
    BY <2>3, <2>5 DEF TypeOK
  <2> QED
    BY <2>2, <2>4, <2>5, <2>6 DEF OneAnswer, OneClientServed, Served
<1> QED
  BY <1>1, <1>2

(* A client that reads a result reads the roll.                            *)
LEMMA ResultKeeps ==
    ASSUME TypeOK, OneAnswer, NEW c \in Clients, ClientResult(c)
    PROVE  OneAnswer'
<1>1. /\ replies[c] # <<>> /\ Len(rolled) = 1 /\ replies[c] \in Seq({rolled[1]})
  BY DEF ClientResult, OneAnswer
<1>2. Head(replies[c]) = rolled[1] /\ Tail(replies[c]) \in Seq({rolled[1]})
  BY <1>1, HeadTailProperties
<1>3. rolled = <<rolled[1]>>
  BY <1>1, OneElement DEF TypeOK
<1>4. /\ result' = [result EXCEPT ![c] = rolled[1]]
      /\ verdict' = [verdict EXCEPT ![c] = Judge(rolled[1])]
      /\ replies' = [replies EXCEPT ![c] = Tail(replies[c])]
      /\ UNCHANGED <<spc, rolled>>
  BY <1>2 DEF ClientResult
<1>5. c \in Served
  BY <1>1 DEF Served
<1>6. \A d \in Clients : d # c => UNCHANGED <<result[d], verdict[d], replies[d]>>
  BY <1>4 DEF TypeOK
<1>7. Served' \subseteq Served
  BY <1>5, <1>6 DEF Served
<1>8. /\ result'[c] = rolled[1] /\ verdict'[c] = Judge(rolled[1])
      /\ replies'[c] \in Seq({rolled[1]})
  BY <1>2, <1>4 DEF TypeOK
<1>9. spc \notin {"boot", "first"}
  BY <1>1 DEF OneAnswer
<1> QED
  BY <1>1, <1>3, <1>4, <1>6, <1>7, <1>8, <1>9 DEF OneAnswer, OneClientServed

(* Whoever else sends a request, and whatever the network does, one run of *)
(* the server rolls once and its roll reaches and is judged by one client  *)
(* (Dice_server.c:46-82).                                                  *)
THEOREM DiceOneClientServed == Spec => []OneClientServed
<1>1. Init => OneAnswer
  BY DEF Init, OneAnswer, OneClientServed, Served
<1>2. TypeOK /\ OneAnswer /\ [Next]_vars => OneAnswer'
  <2> SUFFICES ASSUME TypeOK, OneAnswer, [Next]_vars PROVE OneAnswer'
    OBVIOUS
  <2>1. CASE ServerBoot \/ ServerSecond
    <3>1. /\ UNCHANGED <<rolled, result, verdict, replies>>
          /\ spc' \in {"boot", "first"} => spc \in {"boot", "first"}
      BY <2>1 DEF ServerBoot, ServerSecond
    <3> QED
      BY <3>1 DEF OneAnswer, OneClientServed, Served
  <2>2. CASE ServerFirst
    BY <2>2, AnswerKeeps
  <2>3. ASSUME NEW c \in Clients, ClientStart(c) PROVE OneAnswer'
    BY <2>3 DEF ClientStart, OneAnswer, OneClientServed, Served
  <2>4. ASSUME NEW c \in Clients, ClientResult(c) PROVE OneAnswer'
    BY <2>4, ResultKeeps
  <2>5. ASSUME NEW c \in Clients, ClientEnd(c) PROVE OneAnswer'
    <3>1. /\ UNCHANGED <<spc, rolled, result, verdict>>
          /\ \A d \in Clients : replies'[d] \in {<<>>, replies[d]}
      BY <2>5 DEF ClientEnd, TypeOK
    <3>2. Served' \subseteq Served
      BY <3>1 DEF Served
    <3> QED
      BY <3>1, <3>2 DEF OneAnswer, OneClientServed
  <2>6. CASE UNCHANGED vars
    BY <2>6 DEF vars, OneAnswer, OneClientServed, Served
  <2> QED
    BY <2>1, <2>2, <2>3, <2>4, <2>5, <2>6 DEF Next, Server, Client
<1>3. OneAnswer => OneClientServed
  BY DEF OneAnswer
<1> QED
  BY <1>1, <1>2, <1>3, DiceTypes, PTL DEF Spec
=============================================================================
