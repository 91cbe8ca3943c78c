------------------------- MODULE SlotMachineProofs --------------------------
(***************************************************************************)
(* Theorems about the slot machine for every InitCoin, every set of        *)
(* outcomes, every number of keys and every buffer capacity: its type      *)
(* invariant under any fault of the network, and, on a network that may    *)
(* lose and reorder datagrams but does not double them, the joint          *)
(* invariant of the two programs (InConversation), from which follow the   *)
(* agreement of the two coin counters and the match of replies with        *)
(* requests.  On every network the server refines SlotLedger.              *)
(***************************************************************************)
EXTENDS SlotMachine, UdpProofs, FiniteSetTheorems

-----------------------------------------------------------------------------
(* The datagrams and their types.                                          *)

(* The fields of the datagrams that the two programs exchange.             *)
LEMMA DatagramTypes ==
    /\ Start \in Datagrams /\ Start.type = "start"
    /\ \A k \in Keys : /\ Key(k) \in Datagrams
                       /\ Key(k).type = "key" /\ Key(k).ch = k
    /\ \A r \in Outcomes : Reels(r) \in Datagrams /\ Reels(r).type = "result"
    /\ \A kind \in {"coin", "reward", "end", "restart"}, n \in Int :
          /\ Reply(kind, n) \in Replies
          /\ Reply(kind, n).kind = kind /\ Reply(kind, n).num = n
    /\ \A r \in Replies : r.num \in Int
BY DEF Start, Key, Reels, Datagrams, Keys, Reply, Replies

(* The rewards the source names (slot_machine_server.c:165-177).           *)
LEMMA RewardsType ==
    ASSUME NEW m PROVE Rewards(m) \subseteq {0, 10, 100, 1000}
BY DEF Rewards, Reward

(* A send to the server keeps the type of its socket.                      *)
LEMMA ToServerType ==
    ASSUME inbox \in Seq(Datagrams), NEW m \in Datagrams, ToServer(m)
    PROVE  inbox' \in Seq(Datagrams)
BY ArrivalsType DEF ToServer

(* A send to the client keeps the type of its socket.                      *)
LEMMA ToClientType ==
    ASSUME replies \in Seq(Replies), NEW r \in Replies, ToClient(r)
    PROVE  replies' \in Seq(Replies)
BY ArrivalsType DEF ToClient

(* A character taken from the terminal is a key, and one key fewer waits.  *)
LEMMA TakeCharType ==
    ASSUME tty \in Seq(Keys), stdio \in Seq(Keys), stdio \o tty # <<>>, TakeChar
    PROVE  /\ NextChar \in Keys
           /\ tty' \in Seq(Keys) /\ stdio' \in Seq(Keys)
           /\ Len(tty') + Len(stdio') = Len(tty) + Len(stdio) - 1
<1>1. CASE stdio # <<>>
  <2>1. NextChar = Head(stdio)
    BY <1>1, ConcatProperties DEF NextChar
  <2> QED
    BY <1>1, <2>1, HeadTailProperties DEF TakeChar
<1>2. CASE stdio = <<>>
  <2>1. stdio \o tty = tty
    BY <1>2, ConcatEmptySeq
  <2>2. NextChar = Head(tty) /\ tty # <<>>
    BY <2>1 DEF NextChar
  <2> QED
    BY <1>2, <2>2, HeadTailProperties DEF TakeChar
<1> QED
  BY <1>1, <1>2

-----------------------------------------------------------------------------
(* Types, one lemma per program.                                           *)

(* The server's steps keep every type.                                       *)
LEMMA ServerTypes ==
    ASSUME TypeOK, ServerBoot \/ Server
    PROVE  TypeOK'
<1> USE SlotAssumption
<1> USE DEF TypeOK, kvars, cvars, svars
<1>1. CASE ServerBoot
  BY <1>1 DEF ServerBoot
<1>2. CASE ServerFirst
  BY <1>2, HeadTailProperties DEF ServerFirst
<1>3. CASE ServerTopPlay
  BY <1>3 DEF ServerTopPlay
<1>4. CASE ServerTopTimeout
  BY <1>4 DEF ServerTopTimeout
<1>5. CASE ServerTopRestart
  <2>1. CASE Head(inbox) = Key("r")
    <3>1. scoin' = 10 /\ ToClient(Reply("restart", 10)) /\ inbox' = <<>>
      BY <1>5, <2>1 DEF ServerTopRestart, CLIENT_GAME_COST
    <3>2. replies' \in Seq(Replies)
      BY <3>1, DatagramTypes, ToClientType
    <3> QED
      BY <1>5, <2>1, <3>1, <3>2 DEF ServerTopRestart
  <2>2. CASE Head(inbox) # Key("r")
    BY <1>5, <2>2, HeadTailProperties DEF ServerTopRestart
  <2> QED
    BY <2>1, <2>2
<1>6. CASE ServerStop
  <2>1. scoin' \in Int /\ ToClient(Reply("coin", scoin')) /\ inbox' = Tail(inbox)
    BY <1>6 DEF ServerStop
  <2>2. replies' \in Seq(Replies)
    BY <2>1, DatagramTypes, ToClientType
  <2> QED
    BY <1>6, <2>1, <2>2, HeadTailProperties DEF ServerStop
<1>7. CASE ServerQuit
  <2>1. replies' \in Seq(Replies)
    BY <1>7, DatagramTypes, ToClientType DEF ServerQuit
  <2> QED
    BY <1>7, <2>1 DEF ServerQuit
<1>8. CASE ServerIgnore
  BY <1>8, HeadTailProperties DEF ServerIgnore
<1>9. CASE ServerResult
  <2>1. PICK reward \in Rewards(Head(inbox)) :
            ToClient(Reply("reward", reward)) /\ scoin' = scoin + reward
    BY <1>9 DEF ServerResult
  <2>2. reward \in Int
    BY RewardsType
  <2>3. replies' \in Seq(Replies)
    BY <2>1, <2>2, DatagramTypes, ToClientType
  <2> QED
    BY <1>9, <2>1, <2>2, <2>3, HeadTailProperties DEF ServerResult
<1> QED
  BY <1>1, <1>2, <1>3, <1>4, <1>5, <1>6, <1>7, <1>8, <1>9 DEF Server

(* What the first getchar leaves in stdio is a sequence of keys.            *)
LEMMA RestOfLine ==
    ASSUME NEW line \in FirstLines
    PROVE  line \in Seq(Keys) /\ Len(line) \in Nat
BY SlotAssumption, LenProperties DEF SlotAssumption, Keys

(* The user's hands keep every type.                                         *)
LEMMA UserTypesTypes ==
    ASSUME TypeOK, UserTypes \/ ClientStart \/ ClientHome \/ ClientButton
    PROVE  TypeOK'
<1> USE SlotAssumption
<1> USE DEF TypeOK, cvars, svars, kvars
<1>1. CASE UserTypes
  <2>1. PICK k \in Keys : tty' = Append(tty, k)
    BY <1>1 DEF UserTypes
  <2>2. tty' \in Seq(Keys) /\ Len(tty') = Len(tty) + 1
    BY <2>1, AppendProperties
  <2> QED
    BY <1>1, <2>2 DEF UserTypes
<1>2. CASE ClientStart
  <2>1. inbox' \in Seq(Datagrams)
    BY <1>2, DatagramTypes, ToServerType DEF ClientStart
  <2>2. stdio' \in Seq(Keys) /\ Len(stdio') \in Nat
    BY <1>2, RestOfLine DEF ClientStart
  <2>3. /\ Len(stdio') <= keysLeft /\ keysLeft' = keysLeft - Len(stdio')
        /\ cpc' \in {"home", "exited"}
        /\ UNCHANGED <<spc, scoin, watch, ccoin, replies, tty, stray>>
    BY <1>2 DEF ClientStart
  <2>4. /\ Len(tty) \in Nat /\ Len(stdio) \in Nat /\ keysLeft \in 0 .. MaxKeys
        /\ MaxKeys \in Nat
        /\ Len(tty) + Len(stdio) + keysLeft <= MaxKeys
    BY LenProperties DEF SlotAssumption
  <2>5. /\ keysLeft' \in 0 .. MaxKeys
        /\ Len(tty) + Len(stdio') + keysLeft' <= MaxKeys
    BY <2>2, <2>3, <2>4
  <2>6. tty' = tty
    BY <2>3
  <2> QED
    BY <2>1, <2>2, <2>3, <2>5, <2>6
<1>3. CASE ClientHome
  BY <1>3 DEF ClientHome
<1>4. CASE ClientButton
  BY <1>4 DEF ClientButton
<1> QED
  BY <1>1, <1>2, <1>3, <1>4

(* The client's steps keep every type.                                       *)
LEMMA ClientTypes ==
    ASSUME TypeOK, Client
    PROVE  TypeOK'
<1> USE SlotAssumption
<1> USE DEF TypeOK, cvars, svars, kvars
<1>1. CASE ClientTopSpin
  BY <1>1 DEF ClientTopSpin
<1>2. CASE ClientTopGameOver
  BY <1>2 DEF ClientTopGameOver
<1>3. CASE ClientPrompt
  <2>1. /\ NextChar \in Keys /\ tty' \in Seq(Keys) /\ stdio' \in Seq(Keys)
        /\ Len(tty') + Len(stdio') = Len(tty) + Len(stdio) - 1
    BY <1>3, TakeCharType DEF ClientPrompt
  <2>2. inbox' \in Seq(Datagrams)
    BY <1>3, <2>1, DatagramTypes, ToServerType DEF ClientPrompt
  <2>3. stray' \in BOOLEAN /\ cpc' \in {"awaitRestart", "spin"}
    BY <1>3 DEF ClientPrompt
  <2>4. UNCHANGED <<spc, scoin, watch, ccoin, replies, keysLeft>>
    BY <1>3 DEF ClientPrompt
  <2> QED
    BY <2>1, <2>2, <2>3, <2>4
<1>4. CASE ClientGetsRestart
  BY <1>4, HeadTailProperties, DatagramTypes DEF ClientGetsRestart
<1>5. CASE ClientKey
  <2>1. /\ NextChar \in Keys /\ tty' \in Seq(Keys) /\ stdio' \in Seq(Keys)
        /\ Len(tty') + Len(stdio') = Len(tty) + Len(stdio) - 1
    <3>1. stdio \o tty # <<>>
      BY <1>5, ConcatEqualIffEmpty, ConcatProperties DEF ClientKey
    <3> QED
      BY <1>5, <3>1, TakeCharType DEF ClientKey
  <2>2. \/ ToServer(Key("s")) /\ cpc' = "awaitCoin"
        \/ ToServer(Key("q")) /\ cpc' = "awaitEnd"
        \/ UNCHANGED <<inbox, cpc>>
    BY <1>5 DEF ClientKey
  <2>3. inbox' \in Seq(Datagrams)
    BY <2>2, DatagramTypes, ToServerType DEF Keys
  <2>4. UNCHANGED <<spc, scoin, watch, ccoin, replies, keysLeft, stray>>
    BY <1>5 DEF ClientKey
  <2> QED
    BY <2>1, <2>2, <2>3, <2>4
<1>6. CASE ClientGetsCoin
  BY <1>6, HeadTailProperties, DatagramTypes DEF ClientGetsCoin
<1>7. CASE ClientGetsEnd
  BY <1>7 DEF ClientGetsEnd
<1>8. CASE ClientReport
  <2>1. inbox' \in Seq(Datagrams)
    BY <1>8, DatagramTypes, ToServerType DEF ClientReport
  <2> QED
    BY <1>8, <2>1 DEF ClientReport
<1>9. CASE ClientGetsReward
  <2>1. Head(replies).num \in Int /\ Tail(replies) \in Seq(Replies)
    BY <1>9, HeadTailProperties, DatagramTypes DEF ClientGetsReward
  <2> QED
    BY <1>9, <2>1 DEF ClientGetsReward
<1>10. CASE ClientWakes
  BY <1>10 DEF ClientWakes
<1> QED
  BY <1>1, <1>2, <1>3, <1>4, <1>5, <1>6, <1>7, <1>8, <1>9, <1>10 DEF Client

(* The variables keep their types on every network (slot_machine_server.c  *)
(* and slot_machine_client.c: whatever arrives, in whatever order).        *)
THEOREM SlotTypes == Spec => []TypeOK
<1>1. Init => TypeOK
  <2> SUFFICES ASSUME Init PROVE TypeOK
    OBVIOUS
  <2>1. \A S : <<>> \in Seq(S) /\ Len(<<>>) = 0
    OBVIOUS
  <2>2. InitCoin \in Int /\ MaxKeys \in Nat
    BY SlotAssumption DEF SlotAssumption
  <2>3. /\ inbox \in Seq(Datagrams) /\ replies \in Seq(Replies)
        /\ tty \in Seq(Keys) /\ stdio \in Seq(Keys)
        /\ Len(tty) = 0 /\ Len(stdio) = 0
    BY <2>1 DEF Init
  <2>4. /\ spc = "boot" /\ cpc = "press" /\ scoin = InitCoin /\ ccoin = InitCoin
        /\ keysLeft = MaxKeys
    BY DEF Init
  <2>5. keysLeft \in 0 .. MaxKeys /\ Len(tty) + Len(stdio) + keysLeft <= MaxKeys
    BY <2>2, <2>3, <2>4
  <2>6. watch \in BOOLEAN /\ stray \in BOOLEAN
    BY DEF Init
  <2> QED
    BY <2>2, <2>3, <2>4, <2>5, <2>6 DEF TypeOK
<1>2. TypeOK /\ [Next]_vars => TypeOK'
  <2> SUFFICES ASSUME TypeOK, [Next]_vars PROVE TypeOK'
    OBVIOUS
  <2>1. CASE UNCHANGED vars
    BY <2>1 DEF vars, svars, cvars, kvars, TypeOK
  <2>2. CASE ClientDies
    <3>1. <<>> \in Seq(Replies)
      OBVIOUS
    <3>2. cpc' = "exited" /\ replies' \in Seq(Replies)
      BY <2>2, <3>1 DEF ClientDies
    <3> QED
      BY <2>2, <3>2 DEF ClientDies, svars, kvars, TypeOK
  <2> QED
    BY <2>1, <2>2, ServerTypes, UserTypesTypes, ClientTypes DEF Next
<1> QED
  BY <1>1, <1>2, PTL DEF Spec

-----------------------------------------------------------------------------
(* How one message changes what the sockets hold, when the network can at  *)
(* worst lose it.                                                          *)

(* Arithmetic that the leaves below need by itself.                        *)
LEMMA Predecessor == \A i, n \in Int : i + 1 = n => i = n - 1
OBVIOUS

(* A positive number that is at most one is one.                           *)
LEMMA OnlyOne == \A n \in Nat \ {0} : n <= 1 => n = 1
OBVIOUS

(* strncmp(buf, "s", 1) tells the keys apart.                              *)
LEMMA FirstCharOfKey == \A k \in Keys : FirstChar(Key(k)) = k
BY DEF FirstChar, Key

(* No key looks like the start signal or like another key.                 *)
LEMMA KeyIsKey ==
    /\ \A k \in Keys : Key(k) # Start
    /\ \A j, k \in Keys : Key(j) = Key(k) => j = k
BY DatagramTypes

(* A key sent while the server's socket holds at most the start signal     *)
(* stays behind it or overtakes it.                                        *)
LEMMA KeySent ==
    ASSUME "duplicate" \notin Faults, inbox \in Seq(Datagrams),
           NEW K, NEW k \in K, k \in Keys,
           Carries({}), ToServer(Key(k)), spc' = spc
    PROVE  \/ Carries(K)'
           \/ "reorder" \in Faults /\ spc = "await" /\ inbox' = <<Key(k), Start>>
<1>1. Len(inbox) \in Nat /\ Key(k) \in Datagrams /\ Start \in Datagrams
  BY LenProperties, DatagramTypes
<1>2. inbox = <<>> \/ (spc = "await" /\ inbox = <<Start>>)
  <2>1. \A i \in 1 .. Len(inbox) : i = 1 /\ inbox[1] = Start /\ spc = "await"
    BY DEF Carries
  <2>2. CASE Len(inbox) = 0
    BY <2>2, EmptyByLength
  <2>3. CASE Len(inbox) # 0
    <3>1. Len(inbox) \in 1 .. Len(inbox)
      BY <1>1, <2>3
    <3>2. Len(inbox) = 1 /\ inbox[1] = Start /\ spc = "await"
      BY <2>1, <3>1
    <3> QED
      BY <3>2, OneElement
  <2> QED
    BY <2>2, <2>3
<1>3. \/ inbox' = inbox \/ inbox' = Append(inbox, Key(k))
      \/ "reorder" \in Faults /\ spc = "await" /\ inbox' = <<Key(k), Start>>
  <2>1. inbox' = inbox \/ inbox' \in Arrivals(inbox, Key(k))
    BY DEF ToServer
  <2>2. CASE inbox = <<>> /\ inbox' \in Arrivals(<<>>, Key(k))
    <3>1. Append(<<>>, Key(k)) = <<Key(k)>>
      OBVIOUS
    <3> QED
      BY <1>1, <2>2, <3>1, FirstArrival
  <2>3. CASE spc = "await" /\ inbox = <<Start>> /\ inbox' \in Arrivals(<<Start>>, Key(k))
    BY <1>1, <2>3, SecondArrival
  <2> QED
    BY <1>2, <2>1, <2>2, <2>3
<1>4. CASE inbox' = inbox
  BY <1>4 DEF Carries
<1>5. CASE inbox' = Append(inbox, Key(k))
  <2>1. /\ Len(inbox') = Len(inbox) + 1 /\ inbox'[Len(inbox) + 1] = Key(k)
        /\ \A i \in 1 .. Len(inbox) : inbox'[i] = inbox[i]
    BY <1>1, <1>5, AppendProperties
  <2> QED
    BY <1>1, <2>1 DEF Carries
<1> QED
  BY <1>3, <1>4, <1>5

(* The server reads the head of its socket.                                *)
LEMMA KeyRead ==
    ASSUME inbox \in Seq(Datagrams), inbox # <<>>, inbox' = Tail(inbox),
           NEW K, Carries(K)
    PROVE  Carries(K)'
<1>1. /\ Len(inbox) \in Nat \ {0} /\ Head(inbox) = inbox[1]
      /\ inbox' \in Seq(Datagrams) /\ Len(inbox') = Len(inbox) - 1
      /\ \A i \in 1 .. Len(inbox') : inbox'[i] = inbox[i + 1]
  BY HeadTailProperties, LenProperties, EmptySeq
<1>2. Carries(K)'
  <2> SUFFICES ASSUME NEW i \in 1 .. Len(inbox')
               PROVE  i = Len(inbox') /\ \E k \in K : inbox'[i] = Key(k)
    BY DEF Carries
  <2>1. i + 1 \in 1 .. Len(inbox) /\ i + 1 # 1 /\ inbox'[i] = inbox[i + 1]
    BY <1>1
  <2>2. i + 1 = Len(inbox) /\ \E k \in K : inbox[i + 1] = Key(k)
    BY <2>1 DEF Carries
  <2>3. i = Len(inbox')
    <3>1. i \in Int /\ Len(inbox) \in Int /\ Len(inbox') = Len(inbox) - 1
      BY <1>1
    <3>2. i + 1 = Len(inbox)
      BY <2>2
    <3>3. i = Len(inbox) - 1
      BY <3>1, <3>2, Predecessor, Zenon
    <3> QED
      BY <3>1, <3>3, Zenon
  <2>4. \E k \in K : inbox'[i] = Key(k)
    BY <2>1, <2>2, Zenon
  <2> QED
    BY <2>3, <2>4
<1> QED
  BY <1>2

(* The server answers a client that has nothing in its socket.             *)
LEMMA ReplySent ==
    ASSUME "duplicate" \notin Faults, replies = <<>>, NEW r \in Replies, ToClient(r)
    PROVE  Len(replies') <= 1 /\ (Len(replies') = 1 => replies'[1] = r)
<1>1. replies' = <<>> \/ replies' = Append(<<>>, r)
  <2>1. replies' = <<>> \/ replies' \in Arrivals(<<>>, r)
    BY DEF ToClient
  <2>2. Append(<<>>, r) = <<r>>
    OBVIOUS
  <2> QED
    BY <2>1, <2>2, FirstArrival
<1>2. /\ Len(<<>>) = 0
      /\ Len(Append(<<>>, r)) = 1 /\ Append(<<>>, r)[1] = r
  OBVIOUS
<1>3. CASE replies' = <<>>
  BY <1>2, <1>3
<1>4. CASE replies' = Append(<<>>, r)
  BY <1>2, <1>4
<1> QED
  BY <1>1, <1>3, <1>4

(* The client reads the one reply there is.                                *)
LEMMA ReplyRead ==
    ASSUME replies \in Seq(Replies), replies # <<>>,
           NEW kind \in {"coin", "reward", "end", "restart"}, NEW n \in Int,
           Answered(kind, n)
    PROVE  Head(replies).num = n /\ Head(replies).kind = kind /\ Tail(replies) = <<>>
<1>0. Len(replies) \in Nat \ {0} /\ Len(replies) <= 1
  BY EmptySeq DEF Answered
<1>1. Len(replies) = 1 /\ Head(replies) = replies[1]
  <2>1. Len(replies) = 1
    BY <1>0, OnlyOne
  <2>2. Head(replies) = replies[1]
    BY HeadTailProperties
  <2> QED
    BY <2>1, <2>2
<1>2. Head(replies) = Reply(kind, n)
  BY <1>1 DEF Answered
<1>3. Tail(replies) \in Seq(Replies) /\ Len(Tail(replies)) = 0
  BY <1>1, HeadTailProperties
<1>4. Tail(replies) = <<>>
  BY <1>3, EmptyByLength
<1> QED
  BY <1>2, <1>4, DatagramTypes

(* An empty socket carries anything.                                       *)
LEMMA CarriesEmpty ==
    ASSUME inbox' = <<>>, NEW K
    PROVE  Carries(K)'
<1>1. Len(inbox') = 0
  OBVIOUS
<1> QED
  BY <1>1 DEF Carries

-----------------------------------------------------------------------------
(* Coins are spent in the game only: the server that waits for the first   *)
(* datagram has all of them, and the client that prompts has none.         *)
SpentByPlay ==
    /\ spc \in {"boot", "await"} => scoin = InitCoin
    /\ cpc \in {"prompt", "netprompt"} => ccoin <= 0

LEMMA SpentAlways == Spec => []SpentByPlay
<1>1. Init => SpentByPlay
  BY DEF Init, SpentByPlay
<1>2. SpentByPlay /\ [Next]_vars => SpentByPlay'
  <2> SUFFICES ASSUME SpentByPlay, [Next]_vars PROVE SpentByPlay'
    OBVIOUS
  <2>1. CASE ServerBoot \/ Server
    BY <2>1 DEF SpentByPlay, ServerBoot, Server, ServerFirst, ServerTopPlay, ServerTopTimeout,
       ServerTopRestart, ServerStop, ServerQuit, ServerIgnore, ServerResult, svars, cvars
  <2>2. CASE UserTypes \/ UNCHANGED vars
    BY <2>2 DEF SpentByPlay, UserTypes, vars, svars, cvars
  <2>3. CASE ClientStart \/ ClientHome \/ ClientButton \/ ClientDies \/ Client
    BY <2>3 DEF SpentByPlay, ClientStart, ClientHome, ClientButton, ClientDies, Client,
       ClientTopSpin, ClientTopGameOver, ClientPrompt, ClientGetsRestart, ClientKey,
       ClientGetsCoin, ClientGetsEnd, ClientReport, ClientGetsReward, ClientWakes, svars
  <2> QED
    BY <2>1, <2>2, <2>3 DEF Next
<1> QED
  BY <1>1, <1>2, PTL DEF Spec

-----------------------------------------------------------------------------
(* The server's steps keep the conversation.                               *)

(* What the game loop finds in its socket: the one request the client is   *)
(* blocked on, and nothing behind it.                                      *)
LEMMA HeadCarried ==
    ASSUME inbox \in Seq(Datagrams), inbox # <<>>, spc # "await", NEW K, Carries(K)
    PROVE  Tail(inbox) = <<>> /\ \E k \in K : Head(inbox) = Key(k)
<1>1. Len(inbox) \in Nat \ {0} /\ Head(inbox) = inbox[1]
      /\ Tail(inbox) \in Seq(Datagrams) /\ Len(Tail(inbox)) = Len(inbox) - 1
  BY HeadTailProperties, LenProperties, EmptySeq
<1>2. 1 \in 1 .. Len(inbox)
  BY <1>1
<1>3. 1 = Len(inbox) /\ \E k \in K : inbox[1] = Key(k)
  BY <1>2 DEF Carries
<1>4. Len(Tail(inbox)) = 0
  <2>1. Len(Tail(inbox)) = 1 - 1
    BY <1>1, <1>3, Zenon
  <2> QED
    BY <2>1
<1>5. Tail(inbox) = <<>>
  BY <1>1, <1>4, EmptyByLength
<1>6. \E k \in K : Head(inbox) = Key(k)
  BY <1>1, <1>3, Zenon
<1> QED
  BY <1>5, <1>6

(* What the game loop finds in its socket: the one request the client is   *)
(* blocked on, or the last one of a client that is gone, and nothing       *)
(* behind it.                                                              *)
LEMMA RequestFound ==
    ASSUME TypeOK, Conversation, spc \in {"top", "play"}, inbox # <<>>
    PROVE  /\ replies = <<>> /\ Tail(inbox) = <<>>
           /\ cpc # "exited" => ccoin = scoin
           /\ \/ cpc = "awaitCoin" /\ Head(inbox) = Key("s")
              \/ cpc = "awaitEnd" /\ Head(inbox) = Key("q")
              \/ cpc = "awaitRestart" /\ Head(inbox) \in {Key("r"), Key("x")}
              \/ cpc = "exited"
<1>1. ASSUME NEW K, Unserved(K)
      PROVE  /\ ccoin = scoin /\ replies = <<>> /\ Tail(inbox) = <<>>
             /\ \E k \in K : Head(inbox) = Key(k)
  <2>1. inbox \in Seq(Datagrams) /\ Carries(K) /\ spc # "await"
    BY <1>1 DEF TypeOK, Unserved
  <2> QED
    BY <1>1, <2>1, HeadCarried DEF Unserved
<1>2. cpc \in {"awaitCoin", "awaitEnd", "awaitRestart", "exited"}
  <2>1. ~Unserved({})
    BY <1>1
  <2> QED
    BY <2>1 DEF Conversation, TypeOK, Idle, Answered
<1>3. CASE cpc = "awaitCoin"
  <2>1. Unserved({"s"})
    BY <1>3 DEF Conversation
  <2> QED
    BY <1>1, <1>3, <2>1
<1>4. CASE cpc = "awaitEnd"
  <2>1. Unserved({"q"})
    BY <1>4 DEF Conversation
  <2> QED
    BY <1>1, <1>4, <2>1
<1>5. CASE cpc = "awaitRestart"
  <2>1. Unserved({"r", "x"})
    BY <1>5 DEF Conversation
  <2> QED
    BY <1>1, <1>5, <2>1
<1>6. CASE cpc = "exited"
  <2>1. replies = <<>> /\ Carries(Keys)
    BY <1>6 DEF Conversation
  <2>2. Tail(inbox) = <<>>
    BY <2>1, HeadCarried DEF TypeOK
  <2> QED
    BY <1>6, <2>1, <2>2
<1> QED
  BY <1>2, <1>3, <1>4, <1>5, <1>6

(* What a server does once the client is gone.                             *)
LEMMA ServerAlone ==
    ASSUME Conversation, cpc = "exited", cpc' = "exited", inbox' = <<>>, replies' = <<>>
    PROVE  Conversation'
<1>1. Len(inbox') = 0
  OBVIOUS
<1>2. ReelsOnly' /\ Carries(Keys)'
  BY <1>1, CarriesEmpty DEF ReelsOnly
<1> QED
  BY <1>2 DEF Conversation, Idle

(* What it was left with is nothing, or what it had.                       *)
LEMMA ServerLeft ==
    ASSUME cpc' = "exited", inbox' = <<>>, replies' = <<>>
    PROVE  Conversation'
<1>1. Len(inbox') = 0
  OBVIOUS
<1>2. ReelsOnly' /\ Carries(Keys)'
  BY <1>1, CarriesEmpty DEF ReelsOnly
<1> QED
  BY <1>2 DEF Conversation, Idle

(* Binding the socket finds nothing sent yet.                              *)
LEMMA ServerBootKeeps ==
    ASSUME Conversation, ServerBoot PROVE Conversation'
<1>1. inbox = <<>> /\ inbox' = <<>> /\ replies' = replies
      /\ spc = "boot" /\ spc' \in {"await", "exited"}
      /\ cpc' = cpc /\ ccoin' = ccoin /\ scoin' = scoin
  BY DEF ServerBoot, Conversation, cvars
<1>2. ASSUME NEW K, Unserved(K)
      PROVE  Unserved(K)'
  BY <1>1, <1>2, CarriesEmpty DEF Unserved
<1> QED
  BY <1>1, <1>2, CarriesEmpty DEF Conversation, Idle

(* The first recvfrom takes the start signal or a key, never a reply away. *)
LEMMA ServerFirstKeeps ==
    ASSUME TypeOK, Conversation, ServerFirst PROVE Conversation'
<1>1. /\ spc = "await" /\ spc' = "top" /\ inbox # <<>> /\ inbox' = Tail(inbox)
      /\ cpc' = cpc /\ ccoin' = ccoin /\ scoin' = scoin /\ replies' = replies
      /\ inbox \in Seq(Datagrams)
  BY DEF ServerFirst, cvars, TypeOK
<1>2. ASSUME NEW K, Carries(K)
      PROVE  Carries(K)'
  BY <1>1, <1>2, KeyRead
<1>3. ASSUME NEW K, Unserved(K)
      PROVE  Unserved(K)'
  BY <1>1, <1>2, <1>3 DEF Unserved
<1>4. cpc # "press"
  BY <1>1 DEF Conversation
<1>5. cpc = "exited" => replies = <<>> /\ Carries(Keys)'
  BY <1>1, <1>2 DEF Conversation
<1> QED
  BY <1>1, <1>3, <1>4, <1>5 DEF Conversation, Idle

(* Entering the game loop touches no socket.                               *)
LEMMA ServerTopKeeps ==
    ASSUME Conversation, ServerTopPlay \/ ServerTopTimeout PROVE Conversation'
<1>1. /\ spc = "top" /\ spc' = "play" /\ inbox' = inbox
      /\ cpc' = cpc /\ ccoin' = ccoin /\ scoin' = scoin /\ replies' = replies
  BY DEF ServerTopPlay, ServerTopTimeout, cvars
<1>2. ASSUME NEW K, Carries(K)
      PROVE  Carries(K)'
  BY <1>1, <1>2 DEF Carries
<1>3. ASSUME NEW K, Unserved(K)
      PROVE  Unserved(K)'
  BY <1>1, <1>2, <1>3 DEF Unserved
<1>4. Answered("reward", scoin - ccoin) => Answered("reward", scoin - ccoin)'
  BY <1>1 DEF Answered
<1> QED
  BY <1>1, <1>2, <1>3, <1>4 DEF Conversation, Idle

(* A restart answers the prompt it reads; another key is dropped.          *)
LEMMA ServerTopRestartKeeps ==
    ASSUME "duplicate" \notin Faults, TypeOK, Conversation, ServerTopRestart
    PROVE  Conversation'
<1>1. /\ replies = <<>> /\ (cpc # "exited" => ccoin = scoin) /\ Tail(inbox) = <<>>
      /\ \/ cpc = "awaitCoin" /\ Head(inbox) = Key("s")
         \/ cpc = "awaitEnd" /\ Head(inbox) = Key("q")
         \/ cpc = "awaitRestart" /\ Head(inbox) \in {Key("r"), Key("x")}
         \/ cpc = "exited"
  BY RequestFound DEF ServerTopRestart
<1>gone. CASE cpc = "exited"
  <2>1. cpc' = "exited" /\ inbox' = <<>> /\ replies' = <<>>
    BY <1>gone, <1>1 DEF ServerTopRestart, ToClient, cvars
  <2> QED
    BY <1>gone, <2>1, ServerAlone
<1> SUFFICES ASSUME cpc # "exited" PROVE Conversation'
  BY <1>gone
<1>2. inbox' = <<>> /\ cpc' = cpc /\ ccoin' = ccoin
  BY <1>1 DEF ServerTopRestart, cvars
<1>3. CASE Head(inbox) = Key("r")
  <2>1. cpc = "awaitRestart"
    BY <1>1, <1>3, KeyIsKey DEF Keys
  <2>2. /\ scoin' = 10 /\ spc' = "exited" /\ ToClient(Reply("restart", scoin'))
    BY <1>3 DEF ServerTopRestart, CLIENT_GAME_COST
  <2>3. Answered("restart", scoin)'
    <3>1. Reply("restart", scoin') \in Replies
      BY <2>2, DatagramTypes
    <3>2. Len(replies') <= 1 /\ (Len(replies') = 1 => replies'[1] = Reply("restart", scoin'))
      BY <1>1, <2>2, <3>1, ReplySent
    <3> QED
      BY <1>2, <3>2 DEF Answered
  <2> QED
    BY <1>2, <2>1, <2>2, <2>3 DEF Conversation, Idle
<1>4. CASE Head(inbox) # Key("r")
  <2>1. spc' = "play" /\ scoin' = scoin /\ replies' = <<>>
    BY <1>1, <1>4 DEF ServerTopRestart
  <2>2. \A K : Unserved(K)'
    BY <1>1, <1>2, <2>1, CarriesEmpty DEF Unserved
  <2> QED
    BY <1>1, <1>2, <2>1, <2>2 DEF Conversation, Idle
<1> QED
  BY <1>3, <1>4

(* A stop answers the "s" of a client that waits for its coins.            *)
LEMMA ServerStopKeeps ==
    ASSUME "duplicate" \notin Faults, TypeOK, Conversation, ServerStop
    PROVE  Conversation'
<1>1. /\ replies = <<>> /\ (cpc # "exited" => ccoin = scoin) /\ Tail(inbox) = <<>>
      /\ \/ cpc = "awaitCoin" /\ Head(inbox) = Key("s")
         \/ cpc = "awaitEnd" /\ Head(inbox) = Key("q")
         \/ cpc = "awaitRestart" /\ Head(inbox) \in {Key("r"), Key("x")}
         \/ cpc = "exited"
  BY RequestFound DEF ServerStop
<1>gone. CASE cpc = "exited"
  <2>1. cpc' = "exited" /\ inbox' = <<>> /\ replies' = <<>>
    BY <1>gone, <1>1 DEF ServerStop, ToClient, cvars
  <2> QED
    BY <1>gone, <2>1, ServerAlone
<1> SUFFICES ASSUME cpc # "exited" PROVE Conversation'
  BY <1>gone
<1>2. FirstChar(Head(inbox)) = "s"
  BY DEF ServerStop
<1>3. cpc = "awaitCoin"
  BY <1>1, <1>2, FirstCharOfKey DEF Keys
<1>4. /\ spc' = "result" /\ inbox' = <<>> /\ cpc' = cpc
      /\ ToClient(Reply("coin", scoin')) /\ scoin' \in Int
  BY <1>1 DEF ServerStop, cvars, TypeOK
<1>5. Answered("coin", scoin)'
  <2>1. Reply("coin", scoin') \in Replies
    BY <1>4, DatagramTypes
  <2>2. Len(replies') <= 1 /\ (Len(replies') = 1 => replies'[1] = Reply("coin", scoin'))
    BY <1>1, <1>4, <2>1, ReplySent
  <2> QED
    BY <1>4, <2>2 DEF Answered
<1> QED
  BY <1>3, <1>4, <1>5 DEF Conversation, Idle

(* "Game End" answers a "q".                                               *)
LEMMA ServerQuitKeeps ==
    ASSUME "duplicate" \notin Faults, TypeOK, Conversation, ServerQuit
    PROVE  Conversation'
<1>1. /\ replies = <<>> /\ (cpc # "exited" => ccoin = scoin)
      /\ \/ cpc = "awaitCoin" /\ Head(inbox) = Key("s")
         \/ cpc = "awaitEnd" /\ Head(inbox) = Key("q")
         \/ cpc = "awaitRestart" /\ Head(inbox) \in {Key("r"), Key("x")}
         \/ cpc = "exited"
  BY RequestFound DEF ServerQuit
<1>gone. CASE cpc = "exited"
  <2>1. cpc' = "exited" /\ inbox' = <<>> /\ replies' = <<>>
    BY <1>gone, <1>1 DEF ServerQuit, ToClient, cvars
  <2> QED
    BY <1>gone, <2>1, ServerAlone
<1> SUFFICES ASSUME cpc # "exited" PROVE Conversation'
  BY <1>gone
<1>2. FirstChar(Head(inbox)) = "q"
  BY DEF ServerQuit
<1>3. cpc = "awaitEnd"
  BY <1>1, <1>2, FirstCharOfKey DEF Keys
<1>4. spc' = "exited" /\ inbox' = <<>> /\ cpc' = cpc /\ ToClient(Reply("end", 0))
  BY DEF ServerQuit, cvars
<1>5. Answered("end", 0)'
  <2>1. Reply("end", 0) \in Replies
    BY DatagramTypes
  <2>2. Len(replies') <= 1 /\ (Len(replies') = 1 => replies'[1] = Reply("end", 0))
    BY <1>1, <1>4, <2>1, ReplySent
  <2> QED
    BY <1>4, <2>2 DEF Answered
<1> QED
  BY <1>3, <1>4, <1>5 DEF Conversation, Idle

(* Only an answer to the game-over prompt is ever ignored.                 *)
LEMMA ServerIgnoreKeeps ==
    ASSUME TypeOK, Conversation, ServerIgnore PROVE Conversation'
<1>1. /\ replies = <<>> /\ (cpc # "exited" => ccoin = scoin) /\ Tail(inbox) = <<>>
      /\ \/ cpc = "awaitCoin" /\ Head(inbox) = Key("s")
         \/ cpc = "awaitEnd" /\ Head(inbox) = Key("q")
         \/ cpc = "awaitRestart" /\ Head(inbox) \in {Key("r"), Key("x")}
         \/ cpc = "exited"
  BY RequestFound DEF ServerIgnore
<1>gone. CASE cpc = "exited"
  <2>1. cpc' = "exited" /\ inbox' = <<>> /\ replies' = <<>>
    BY <1>gone, <1>1 DEF ServerIgnore, ToClient, cvars
  <2> QED
    BY <1>gone, <2>1, ServerAlone
<1> SUFFICES ASSUME cpc # "exited" PROVE Conversation'
  BY <1>gone
<1>2. FirstChar(Head(inbox)) \notin {"s", "q"}
  BY DEF ServerIgnore
<1>3. cpc = "awaitRestart"
  BY <1>1, <1>2, FirstCharOfKey DEF Keys
<1>4. /\ spc' = "play" /\ inbox' = <<>> /\ replies' = <<>>
      /\ cpc' = cpc /\ ccoin' = ccoin /\ scoin' = scoin
  BY <1>1 DEF ServerIgnore, svars, cvars
<1>5. Unserved({"r", "x"})'
  BY <1>1, <1>4, CarriesEmpty DEF Unserved
<1> QED
  BY <1>3, <1>4, <1>5 DEF Conversation, Idle

(* The reward answers the reels.                                           *)
LEMMA ServerResultKeeps ==
    ASSUME "duplicate" \notin Faults, TypeOK, Conversation, ServerResult
    PROVE  Conversation'
<1>1. spc = "result" /\ inbox # <<>>
  BY DEF ServerResult
<1>2. cpc \in {"awaitReward", "exited"} /\ replies = <<>> /\ Tail(inbox) = <<>>
  <2>1. cpc \in {"awaitReward", "exited"}
    BY <1>1 DEF Conversation, Unserved, Answered, Idle, TypeOK
  <2>2. replies = <<>> /\ Len(inbox) <= 1
    BY <1>1, <2>1 DEF Conversation, ReelsOnly
  <2>3. /\ Len(inbox) \in Nat \ {0}
        /\ Tail(inbox) \in Seq(Datagrams) /\ Len(Tail(inbox)) = Len(inbox) - 1
    BY <1>1, HeadTailProperties, LenProperties, EmptySeq DEF TypeOK
  <2>4. Len(inbox) = 1
    BY <2>2, <2>3, OnlyOne, Zenon
  <2>5. Len(Tail(inbox)) = 0
    <3>1. Len(Tail(inbox)) = 1 - 1
      BY <2>3, <2>4, Zenon
    <3> QED
      BY <3>1
  <2>6. Tail(inbox) = <<>>
    BY <2>3, <2>5, EmptyByLength
  <2> QED
    BY <2>1, <2>2, <2>6
<1>3. spc' = "top" /\ inbox' = <<>> /\ cpc' = cpc /\ ccoin' = ccoin
  BY <1>2 DEF ServerResult, cvars
<1>gone. CASE cpc = "exited"
  <2>1. replies' = <<>>
    BY <1>gone, <1>2 DEF ServerResult, ToClient
  <2> QED
    BY <1>gone, <1>3, <2>1, ServerAlone
<1> SUFFICES ASSUME cpc = "awaitReward" PROVE Conversation'
  BY <1>2, <1>gone
<1>4. PICK reward \in Rewards(Head(inbox)) :
         ToClient(Reply("reward", reward)) /\ scoin' = scoin + reward
  BY DEF ServerResult
<1>5. Answered("reward", scoin - ccoin)'
  <2>1. Head(inbox) \in Datagrams
    BY <1>1, HeadTailProperties DEF TypeOK
  <2>2. reward \in Int
    BY <2>1, RewardsType
  <2>3. ccoin = scoin
    BY <1>1, <1>2 DEF Conversation
  <2>4. scoin' - ccoin' = reward
    BY <1>3, <1>4, <2>2, <2>3 DEF TypeOK
  <2>5. Reply("reward", reward) \in Replies
    BY <2>2, DatagramTypes
  <2>6. Len(replies') <= 1 /\ (Len(replies') = 1 => replies'[1] = Reply("reward", reward))
    BY <1>2, <1>4, <2>5, ReplySent
  <2> QED
    BY <1>3, <2>4, <2>6 DEF Answered
<1> QED
  BY <1>2, <1>3, <1>5 DEF Conversation, Idle

-----------------------------------------------------------------------------
(* The client's and the user's steps keep the conversation.                *)

(* A step of the client that leaves the sockets and the coins alone.       *)
LEMMA ClientMovesKeeps ==
    ASSUME Conversation, cpc \in Idle \ {"press"}, cpc' \in Idle \cup {"awaitButton"},
           cpc' # "press",
           UNCHANGED <<spc, scoin, inbox, ccoin, replies>>
    PROVE  Conversation'
<1>1. Unserved({})'
  BY DEF Conversation, Unserved, Carries
<1> QED
  BY <1>1 DEF Conversation, Idle

(* The start signal is all the server finds before the first round.        *)
LEMMA ClientStartKeeps ==
    ASSUME "duplicate" \notin Faults, TypeOK, Conversation, ClientStart
    PROVE  Conversation'
<1>1. /\ inbox = <<>> /\ spc \in {"boot", "await", "exited"} /\ spc' = spc
      /\ ccoin' = ccoin /\ scoin' = scoin /\ ccoin = scoin
      /\ replies = <<>> /\ replies' = <<>> /\ cpc' \in {"home", "exited"}
  BY DEF ClientStart, Conversation, Unserved, Idle, svars
<1>2. inbox' = <<>> \/ (spc = "await" /\ inbox' = Append(<<>>, Start))
  <2>1. inbox' = <<>> \/ (spc = "await" /\ inbox' \in Arrivals(<<>>, Start))
    BY <1>1 DEF ClientStart, ToServer, Listening
  <2>2. Append(<<>>, Start) = <<Start>> /\ Start \in Datagrams
    BY DatagramTypes
  <2> QED
    BY <2>1, <2>2, FirstArrival
<1>3. ASSUME NEW K
      PROVE  Carries(K)'
  <2>1. CASE inbox' = <<>>
    BY <2>1, CarriesEmpty
  <2>2. CASE spc = "await" /\ inbox' = Append(<<>>, Start)
    <3>1. Len(inbox') = 1 /\ inbox'[1] = Start
      BY <2>2
    <3> QED
      BY <1>1, <2>2, <3>1 DEF Carries
  <2> QED
    BY <1>2, <2>1, <2>2
<1> QED
  BY <1>1, <1>2, <1>3 DEF Conversation, Unserved, Idle

(* An obedient answer to the prompt waits in the server's socket.  It does *)
(* not overtake the start signal, which was read before the coins were     *)
(* spent.                                                                  *)
LEMMA ClientPromptKeeps ==
    ASSUME "duplicate" \notin Faults, "reorder" \in Faults => InitCoin > 0,
           TypeOK, SpentByPlay, Conversation, ClientPrompt, ~stray'
    PROVE  Conversation'
<1>1. Unserved({}) /\ inbox \in Seq(Datagrams) /\ NextChar \in Keys
      /\ (spc \in {"boot", "exited"} => inbox = <<>>)
      /\ UNCHANGED <<spc, scoin, ccoin, replies>>
  BY TakeCharType DEF ClientPrompt, Conversation, Idle, svars, TypeOK
<1>2. CASE cpc = "prompt" \/ NextChar = "r"
  <2>1. /\ ToServer(Key(NextChar)) /\ cpc' = "awaitRestart"
        /\ NextChar \in {"r", "x"}
    BY <1>1, <1>2 DEF ClientPrompt, Keys, TypeOK
  <2>2. Carries({"r", "x"})'
    <3>1. ~("reorder" \in Faults /\ spc = "await")
      BY <1>1, SlotAssumption DEF ClientPrompt, SpentByPlay, Unserved, SlotAssumption
    <3> QED
      BY <1>1, <2>1, <3>1, KeySent DEF Unserved
  <2>3. spc \in {"boot", "exited"} => inbox' = <<>>
    BY <1>1, <2>1 DEF ToServer, Listening
  <2> QED
    BY <1>1, <2>1, <2>2, <2>3 DEF Conversation, Unserved, Idle
<1>3. CASE ~(cpc = "prompt" \/ NextChar = "r")
  <2>1. cpc' = "spin" /\ inbox' = inbox /\ cpc \in Idle \ {"press"}
    BY <1>3 DEF ClientPrompt, Idle
  <2> QED
    BY <1>1, <2>1, ClientMovesKeeps DEF Idle
<1> QED
  BY <1>2, <1>3

(* So does an "s" or a "q", if it does not overtake the start signal.      *)
LEMMA ClientKeyKeeps ==
    ASSUME "duplicate" \notin Faults, TypeOK, Conversation, ClientKey
    PROVE  Conversation' \/ ("reorder" \in Faults /\ Overtaken')
<1>1. Unserved({}) /\ inbox \in Seq(Datagrams) /\ cpc = "spin"
      /\ (spc \in {"boot", "exited"} => inbox = <<>>)
      /\ UNCHANGED <<spc, scoin, ccoin, replies>>
  BY DEF ClientKey, Conversation, Idle, svars, TypeOK
<1>2. ASSUME NEW k \in Keys, ToServer(Key(k))
      PROVE  /\ \/ Carries({k})'
                \/ "reorder" \in Faults /\ spc = "await" /\ inbox' = <<Key(k), Start>>
             /\ spc \in {"boot", "exited"} => inbox' = <<>>
  BY <1>1, <1>2, KeySent DEF Unserved, ToServer, Listening
<1>3. ASSUME NEW k \in {"s", "q"}, NextChar = k
      PROVE  Conversation' \/ ("reorder" \in Faults /\ Overtaken')
  <2>1. ToServer(Key(k)) /\ cpc' = (IF k = "s" THEN "awaitCoin" ELSE "awaitEnd") /\ k \in Keys
    BY <1>3 DEF ClientKey, Keys
  <2>2. CASE Carries({k})'
    <3>1. spc \in {"boot", "exited"} => inbox' = <<>>
      BY <1>2, <2>1
    <3>2. CASE k = "s"
      BY <1>1, <2>1, <2>2, <3>1, <3>2 DEF Conversation, Unserved, Idle
    <3>3. CASE k = "q"
      BY <1>1, <2>1, <2>2, <3>1, <3>3 DEF Conversation, Unserved, Idle
    <3> QED
      BY <3>2, <3>3
  <2>3. CASE "reorder" \in Faults /\ spc = "await" /\ inbox' = <<Key(k), Start>>
    BY <1>1, <2>1, <2>3 DEF Overtaken, Unserved
  <2> QED
    BY <1>2, <2>1, <2>2, <2>3
<1>4. CASE NextChar \notin {"s", "q"}
  <2>1. UNCHANGED <<inbox, cpc>>
    BY <1>4 DEF ClientKey
  <2> QED
    BY <1>1, <2>1, ClientMovesKeeps DEF Idle
<1> QED
  BY <1>3, <1>4

(* Each recvfrom of the client reads the reply written for it.             *)
LEMMA ClientGetsKeeps ==
    ASSUME TypeOK, Conversation,
           ClientGetsCoin \/ ClientGetsEnd \/ ClientGetsRestart \/ ClientGetsReward
    PROVE  Conversation'
<1>1. /\ replies # <<>> /\ replies \in Seq(Replies) /\ scoin \in Int /\ ccoin \in Int
      /\ UNCHANGED <<spc, scoin, inbox>>
  BY DEF ClientGetsCoin, ClientGetsEnd, ClientGetsRestart, ClientGetsReward, svars, TypeOK
<1>2. CASE ClientGetsCoin
  <2>1. cpc = "awaitCoin" /\ spc = "result" /\ Answered("coin", scoin)
    BY <1>1, <1>2 DEF ClientGetsCoin, Conversation, Unserved
  <2>2. ccoin' = scoin /\ replies' = <<>> /\ cpc' = "report" /\ inbox = <<>>
    BY <1>1, <1>2, <2>1, ReplyRead DEF ClientGetsCoin, Answered
  <2> QED
    BY <1>1, <2>1, <2>2 DEF Conversation, Idle
<1>3. CASE ClientGetsEnd
  <2>1. spc = "exited" /\ inbox = <<>>
    BY <1>1, <1>3 DEF ClientGetsEnd, Conversation, Unserved, Answered
  <2>2. replies' = <<>> /\ cpc' = "exited"
    BY <1>3 DEF ClientGetsEnd
  <2> QED
    BY <1>1, <2>1, <2>2, CarriesEmpty DEF Conversation, Idle
<1>4. CASE ClientGetsRestart
  <2>1. spc = "exited" /\ Answered("restart", scoin)
    BY <1>1, <1>4 DEF ClientGetsRestart, Conversation, Unserved
  <2>2. ccoin' = scoin /\ replies' = <<>> /\ cpc' = "top" /\ inbox = <<>>
    BY <1>1, <1>4, <2>1, ReplyRead DEF ClientGetsRestart, Answered
  <2> QED
    BY <1>1, <2>1, <2>2, CarriesEmpty DEF Conversation, Unserved, Idle
<1>5. CASE ClientGetsReward
  <2>1. spc \in {"top", "play"} /\ Answered("reward", scoin - ccoin)
    BY <1>1, <1>5 DEF ClientGetsReward, Conversation
  <2>2. Head(replies).num = scoin - ccoin /\ Tail(replies) = <<>> /\ inbox = <<>>
    BY <1>1, <2>1, ReplyRead DEF Answered
  <2>3. ccoin' = scoin
    <3>1. ccoin' = ccoin + (scoin - ccoin)
      BY <1>5, <2>2 DEF ClientGetsReward
    <3> QED
      BY <1>1, <3>1
  <2>4. replies' = <<>> /\ cpc' = "pause"
    BY <1>5, <2>2 DEF ClientGetsReward
  <2> QED
    BY <1>1, <2>1, <2>2, <2>3, <2>4, CarriesEmpty DEF Conversation, Unserved, Idle
<1> QED
  BY <1>2, <1>3, <1>4, <1>5

(* The reels go to a server that waits for them.                           *)
LEMMA ClientReportKeeps ==
    ASSUME "duplicate" \notin Faults, TypeOK, Conversation, ClientReport
    PROVE  Conversation'
<1>1. /\ spc = "result" /\ ccoin = scoin /\ inbox = <<>> /\ replies = <<>>
      /\ UNCHANGED <<spc, scoin, ccoin, replies>> /\ cpc' = "awaitReward"
  BY DEF ClientReport, Conversation, svars
<1>2. PICK r \in Outcomes : ToServer(Reels(r))
  BY DEF ClientReport
<1>3. inbox' = <<>> \/ inbox' = Append(<<>>, Reels(r))
  <2>1. inbox' = <<>> \/ inbox' \in Arrivals(<<>>, Reels(r))
    BY <1>1, <1>2 DEF ToServer
  <2>2. Append(<<>>, Reels(r)) = <<Reels(r)>> /\ Reels(r) \in Datagrams
    BY DatagramTypes
  <2> QED
    BY <2>1, <2>2, FirstArrival
<1>4. Len(inbox') <= 1 /\ \A i \in 1 .. Len(inbox') : inbox'[i].type = "result"
  <2>1. CASE inbox' = <<>>
    <3>1. Len(inbox') = 0
      BY <2>1
    <3> QED
      BY <3>1
  <2>2. CASE inbox' = Append(<<>>, Reels(r))
    <3>1. Len(inbox') = 1 /\ inbox'[1] = Reels(r)
      BY <2>2
    <3>2. Reels(r).type = "result"
      BY DEF Reels
    <3> QED
      BY <3>1, <3>2
  <2> QED
    BY <1>3, <2>1, <2>2
<1> QED
  BY <1>1, <1>4 DEF Conversation, ReelsOnly, Idle

(* A client that dies leaves at most its last request behind.              *)
LEMMA ClientDiesKeeps ==
    ASSUME TypeOK, Conversation, ClientDies
    PROVE  Conversation'
<1>1. /\ cpc # "exited" /\ cpc' = "exited" /\ replies' = <<>>
      /\ UNCHANGED <<spc, scoin, inbox, ccoin>>
  BY DEF ClientDies, svars
<1>2. ASSUME NEW K \in SUBSET Keys, Carries(K)
      PROVE  Carries(Keys)'
  BY <1>1, <1>2 DEF Carries
<1>3. ReelsOnly => ReelsOnly'
  BY <1>1 DEF ReelsOnly
<1>4. inbox = <<>> => ReelsOnly' /\ Carries(Keys)'
  <2>1. inbox = <<>> => Len(inbox') = 0
    BY <1>1
  <2> QED
    BY <2>1 DEF ReelsOnly, Carries
<1>5. {} \in SUBSET Keys /\ {"s"} \in SUBSET Keys /\ {"q"} \in SUBSET Keys
      /\ {"r", "x"} \in SUBSET Keys
  BY DEF Keys
<1>6. IF spc = "result" THEN ReelsOnly' ELSE Carries(Keys)'
  BY <1>1, <1>2, <1>3, <1>4, <1>5 DEF Conversation, Unserved, Answered, Idle, TypeOK
<1> QED
  BY <1>1, <1>6 DEF Conversation, Idle

(* Typing alone changes nothing between the programs.                      *)
LEMMA UserTypesKeeps ==
    ASSUME Conversation, UNCHANGED <<spc, scoin, inbox, cpc, ccoin, replies>>
    PROVE  Conversation'
<1>1. /\ \A K : Carries(K) => Carries(K)'
      /\ ReelsOnly => ReelsOnly'
  BY DEF Carries, ReelsOnly
<1>2. /\ \A K : Unserved(K) => Unserved(K)'
      /\ Answered("coin", scoin) => Answered("coin", scoin)'
      /\ Answered("end", 0) => Answered("end", 0)'
      /\ Answered("restart", scoin) => Answered("restart", scoin)'
      /\ Answered("reward", scoin - ccoin) => Answered("reward", scoin - ccoin)'
  BY <1>1 DEF Unserved, Answered
<1> QED
  BY <1>1, <1>2 DEF Conversation, Idle

-----------------------------------------------------------------------------
(* A key in front of the start signal.                                     *)

(* The server takes the key for the start of the game, and the start       *)
(* signal for a stop, unless it is told to throw it away.                  *)
LEMMA OvertakenServer ==
    ASSUME "duplicate" \notin Faults, TypeOK, Overtaken, Server
    PROVE  Conversation' \/ Overtaken'
<1>1. CASE ServerFirst
  <2>1. /\ cpc \in {"awaitCoin", "awaitEnd", "exited"} /\ replies = <<>>
        /\ cpc # "exited" => ccoin = scoin
        /\ \E k \in {"s", "q"} : inbox = <<Key(k), Start>>
    BY <1>1 DEF ServerFirst, Overtaken
  <2>2. inbox' = <<Start>>
    BY <1>1, <2>1 DEF ServerFirst
  <2> QED
    BY <1>1, <2>1, <2>2 DEF ServerFirst, Overtaken, cvars
<1>2. CASE ServerTopPlay \/ ServerTopTimeout
  BY <1>2 DEF ServerTopPlay, ServerTopTimeout, Overtaken, cvars
<1>3. CASE ServerTopRestart \/ ServerStop \/ ServerQuit \/ ServerIgnore
  <2>1. /\ cpc \in {"awaitCoin", "awaitEnd", "exited"} /\ replies = <<>>
        /\ cpc # "exited" => ccoin = scoin
        /\ inbox = <<Start>> /\ cpc' = cpc /\ ccoin' = ccoin
    BY <1>3 DEF ServerTopRestart, ServerStop, ServerQuit, ServerIgnore, Overtaken, cvars
  <2>2. /\ Head(inbox) = Start /\ Tail(inbox) = <<>>
        /\ FirstChar(Start) = "s" /\ Start # Key("r")
    BY <2>1, KeyIsKey DEF FirstChar, Start, Keys
  <2>3. CASE ServerTopRestart
    <3>1. spc' = "play" /\ inbox' = <<>> /\ scoin' = scoin /\ replies' = <<>>
      BY <2>1, <2>2, <2>3 DEF ServerTopRestart
    <3>2. \A K : Carries(K)'
      BY <3>1, CarriesEmpty
    <3> QED
      BY <2>1, <3>1, <3>2 DEF Conversation, Unserved, Idle
  <2>4. CASE ServerStop
    <3>1. /\ spc' = "result" /\ inbox' = <<>> /\ ToClient(Reply("coin", scoin'))
          /\ scoin' \in Int
      BY <2>1, <2>2, <2>4 DEF ServerStop, TypeOK
    <3>2. Len(replies') <= 1 /\ (Len(replies') = 1 => replies'[1] = Reply("coin", scoin'))
      BY <2>1, <3>1, DatagramTypes, ReplySent
    <3>3. CASE cpc = "awaitEnd"
      BY <2>1, <3>1, <3>2, <3>3 DEF Overtaken, Answered
    <3>4. CASE cpc = "awaitCoin"
      BY <2>1, <3>1, <3>2, <3>4 DEF Conversation, Answered, Idle
    <3>5. CASE cpc = "exited"
      <4>1. replies' = <<>>
        BY <2>1, <3>1, <3>5 DEF ToClient
      <4> QED
        BY <2>1, <3>1, <3>5, <4>1, ServerLeft
    <3> QED
      BY <2>1, <3>3, <3>4, <3>5
  <2> QED
    BY <1>3, <2>2, <2>1, <2>3, <2>4 DEF ServerQuit, ServerIgnore
<1>4. CASE ServerResult
  BY <1>4 DEF ServerResult, Overtaken, Answered
<1> QED
  BY <1>1, <1>2, <1>3, <1>4 DEF Server

(* The client is told a coin count where it expects the end, and ends.     *)
LEMMA OvertakenClient ==
    ASSUME TypeOK, Overtaken, ~Server, [Next]_vars
    PROVE  Conversation' \/ Overtaken'
<1>1. CASE UserTypes \/ UNCHANGED vars
  BY <1>1 DEF UserTypes, vars, svars, cvars, Overtaken, Answered
<1>2. CASE ClientDies
  <2>1. cpc' = "exited" /\ replies' = <<>> /\ UNCHANGED <<spc, inbox>>
    BY <1>2 DEF ClientDies, svars
  <2>2. CASE spc = "result"
    <3>1. inbox' = <<>>
      BY <2>1, <2>2 DEF Overtaken, Answered
    <3> QED
      BY <2>1, <3>1, ServerLeft
  <2>3. CASE spc # "result"
    BY <2>1, <2>3 DEF Overtaken
  <2> QED
    BY <2>2, <2>3
<1>3. CASE ClientGetsCoin \/ ClientGetsEnd
  <2>1. /\ replies # <<>> /\ cpc = "awaitEnd" /\ spc = "result" /\ inbox = <<>>
        /\ ~ClientGetsCoin
    BY <1>3 DEF ClientGetsCoin, ClientGetsEnd, Overtaken, Answered
  <2>2. cpc' = "exited" /\ replies' = <<>> /\ inbox' = <<>>
    BY <1>3, <2>1 DEF ClientGetsEnd
  <2> QED
    BY <2>2, ServerLeft
<1>4. ~(ServerBoot \/ ClientStart \/ ClientHome \/ ClientButton \/ ClientTopSpin
        \/ ClientTopGameOver \/ ClientPrompt \/ ClientGetsRestart \/ ClientKey
        \/ ClientReport \/ ClientGetsReward \/ ClientWakes)
  BY DEF Overtaken, ServerBoot, ClientStart, ClientHome, ClientButton, ClientTopSpin,
     ClientTopGameOver, ClientPrompt, ClientGetsRestart, ClientKey, ClientReport,
     ClientGetsReward, ClientWakes
<1> QED
  BY <1>1, <1>2, <1>3, <1>4 DEF Next, Client

(* Where the two programs are tells what is between them, on a network     *)
(* that can lose datagrams and let them overtake one another but does not  *)
(* double them: the joint invariant of the two main functions.  The client *)
(* has to begin with coins (slot_machine_client.c:65) where its answer to  *)
(* the game-over prompt could overtake the start signal.                   *)
THEOREM SlotConversation ==
    ASSUME "duplicate" \notin Faults, "reorder" \in Faults => InitCoin > 0
    PROVE  Spec => []InConversation
<1>1. Init => InConversation
  <2> SUFFICES ASSUME Init PROVE Conversation
    BY DEF InConversation
  <2>1. /\ spc = "boot" /\ cpc = "press" /\ ccoin = scoin
    BY DEF Init
  <2>2. inbox = <<>>
    BY DEF Init
  <2>3. replies = <<>>
    BY DEF Init
  <2>4. \A K : Carries(K)
    <3>1. Len(inbox) = 0
      BY <2>2
    <3> QED
      BY <3>1 DEF Carries
  <2> QED
    BY <2>1, <2>2, <2>3, <2>4 DEF Conversation, Unserved, Idle
<1>2. TypeOK /\ SpentByPlay /\ InConversation /\ [Next]_vars => InConversation'
  <2> SUFFICES ASSUME TypeOK, SpentByPlay, InConversation, [Next]_vars, ~stray'
               PROVE  Conversation' \/ ("reorder" \in Faults /\ Overtaken')
    BY DEF InConversation
  <2>over. CASE "reorder" \in Faults /\ Overtaken
    BY <2>over, OvertakenServer, OvertakenClient
  <2> SUFFICES ASSUME ~("reorder" \in Faults /\ Overtaken)
               PROVE  Conversation' \/ ("reorder" \in Faults /\ Overtaken')
    BY <2>over
  <2>1. Conversation
    <3>1. stray => stray'
      BY DEF Next, Server, Client, vars, ServerBoot, ServerFirst, ServerTopPlay,
             ServerTopTimeout, ServerTopRestart, ServerStop, ServerQuit, ServerIgnore,
             ServerResult, UserTypes, ClientStart, ClientHome, ClientTopSpin,
             ClientTopGameOver, ClientPrompt, ClientGetsRestart, ClientButton,
             ClientKey, ClientGetsCoin, ClientGetsEnd, ClientReport,
             ClientGetsReward, ClientWakes, ClientDies
    <3> QED
      BY <3>1 DEF InConversation
  <2>2. CASE ServerBoot
    BY <2>1, <2>2, ServerBootKeeps
  <2>3. CASE Server
    BY <2>1, <2>3, ServerFirstKeeps, ServerTopKeeps, ServerTopRestartKeeps,
       ServerStopKeeps, ServerQuitKeeps, ServerIgnoreKeeps, ServerResultKeeps DEF Server
  <2>4. CASE UserTypes \/ UNCHANGED vars
    BY <2>1, <2>4, UserTypesKeeps DEF UserTypes, vars, svars, cvars
  <2>5. CASE ClientStart
    BY <2>1, <2>5, ClientStartKeeps
  <2>6. CASE ClientHome \/ ClientTopSpin \/ ClientTopGameOver \/ ClientButton \/ ClientWakes
    <3>1. /\ cpc \in Idle \ {"press"} /\ cpc' \in Idle \cup {"awaitButton"} /\ cpc' # "press"
          /\ UNCHANGED <<spc, scoin, inbox, ccoin, replies>>
      BY <2>6 DEF ClientHome, ClientTopSpin, ClientTopGameOver, ClientButton,
                  ClientWakes, Idle, svars
    <3> QED
      BY <2>1, <3>1, ClientMovesKeeps
  <2>7. CASE ClientPrompt
    BY <2>1, <2>7, ClientPromptKeeps
  <2>8. CASE ClientKey
    BY <2>1, <2>8, ClientKeyKeeps
  <2>9. CASE ClientGetsCoin \/ ClientGetsEnd \/ ClientGetsRestart \/ ClientGetsReward
    BY <2>1, <2>9, ClientGetsKeeps
  <2>10. CASE ClientReport
    BY <2>1, <2>10, ClientReportKeeps
  <2>11. CASE ClientDies
    BY <2>1, <2>11, ClientDiesKeeps
  <2> QED
    BY <2>2, <2>3, <2>4, <2>5, <2>6, <2>7, <2>8, <2>9, <2>10, <2>11 DEF Next, Client
<1> QED
  BY <1>1, <1>2, SlotTypes, SpentAlways, PTL DEF Spec

(* Two programs that only exchange untyped text keep the same number of    *)
(* coins, on every such network and for every run of play: client_coin of  *)
(* slot_machine_server.c:25 and of slot_machine_client.c:65.               *)
THEOREM SlotCoinsAgree ==
    ASSUME "duplicate" \notin Faults, "reorder" \in Faults => InitCoin > 0
    PROVE  Spec => []CoinsAgree
<1>1. InConversation => CoinsAgree
  BY DEF InConversation, Conversation, Unserved, Overtaken, Idle, CoinsAgree
<1> QED
  BY <1>1, SlotConversation, PTL

(* No recvfrom of the client reads a reply that was written for another    *)
(* one, although atoi would accept it (slot_machine_client.c:545-692),     *)
(* except where a quit overtook the start signal: the coin count with      *)
(* which the server then answers the start signal passes for the end.      *)
THEOREM SlotRepliesMatch ==
    ASSUME "duplicate" \notin Faults, "reorder" \in Faults => InitCoin > 0
    PROVE  Spec => []RepliesMatch
<1>1. TypeOK /\ InConversation => RepliesMatch
  <2> SUFFICES ASSUME TypeOK, replies # <<>>,
                      Conversation \/ ("reorder" \in Faults /\ Overtaken)
               PROVE  \/ Head(replies).kind = Expected
                      \/ "reorder" \in Faults /\ cpc = "awaitEnd" /\ Head(replies).kind = "coin"
    BY DEF InConversation, RepliesMatch
  <2>1. replies \in Seq(Replies) /\ scoin \in Int /\ ccoin \in Int
    BY DEF TypeOK
  <2>2. \/ cpc = "awaitCoin" /\ Answered("coin", scoin)
        \/ cpc = "awaitEnd" /\ Answered("end", 0)
        \/ cpc = "awaitRestart" /\ Answered("restart", scoin)
        \/ cpc = "awaitReward" /\ Answered("reward", scoin - ccoin)
        \/ "reorder" \in Faults /\ cpc = "awaitEnd" /\ Answered("coin", scoin)
    <3>1. CASE Conversation
      BY <3>1 DEF Conversation, Unserved, Idle, TypeOK
    <3>2. CASE "reorder" \in Faults /\ Overtaken
      BY <3>2 DEF Overtaken
    <3> QED
      BY <3>1, <3>2
  <2>3. CASE cpc = "awaitCoin" /\ Answered("coin", scoin)
    BY <2>1, <2>3, ReplyRead DEF Expected
  <2>4. CASE cpc = "awaitEnd" /\ Answered("end", 0)
    BY <2>1, <2>4, ReplyRead DEF Expected
  <2>5. CASE cpc = "awaitRestart" /\ Answered("restart", scoin)
    BY <2>1, <2>5, ReplyRead DEF Expected
  <2>6. CASE cpc = "awaitReward" /\ Answered("reward", scoin - ccoin)
    <3>1. scoin - ccoin \in Int
      BY <2>1
    <3> QED
      BY <2>1, <2>6, <3>1, ReplyRead DEF Expected
  <2>7. CASE "reorder" \in Faults /\ cpc = "awaitEnd" /\ Answered("coin", scoin)
    BY <2>1, <2>7, ReplyRead
  <2> QED
    BY <2>2, <2>3, <2>4, <2>5, <2>6, <2>7
<1> QED
  BY <1>1, SlotTypes, SlotConversation, PTL

(* The reward is only ever computed from reels (slot_machine_server.c:160). *)
THEOREM SlotReelsMeetResult ==
    ASSUME "duplicate" \notin Faults, "reorder" \in Faults => InitCoin > 0
    PROVE  Spec => []ReelsMeetResult
<1>1. TypeOK /\ InConversation => ReelsMeetResult
  <2> SUFFICES ASSUME TypeOK, inbox # <<>>, Conversation \/ Overtaken
               PROVE  Head(inbox).type = "result" <=> spc = "result"
    BY DEF InConversation, ReelsMeetResult
  <2>1. Len(inbox) \in Nat \ {0} /\ Head(inbox) = inbox[1] /\ 1 \in 1 .. Len(inbox)
    <3>1. Len(inbox) \in Nat \ {0} /\ Head(inbox) = inbox[1]
      BY HeadTailProperties, LenProperties, EmptySeq DEF TypeOK
    <3> QED
      BY <3>1
  <2>2. ASSUME NEW K, Carries(K)
        PROVE  Head(inbox).type # "result"
    <3>1. inbox[1] = Start \/ \E k \in K : inbox[1] = Key(k)
      BY <2>1, <2>2 DEF Carries
    <3>2. Start.type # "result" /\ \A k \in K : Key(k).type # "result"
      BY DEF Start, Key
    <3> QED
      BY <2>1, <3>1, <3>2, Zenon
  <2>3. CASE Conversation /\ spc = "result"
    <3>1. ReelsOnly
      BY <2>3 DEF Conversation, Unserved, Answered, Idle, TypeOK
    <3> QED
      BY <2>1, <2>3, <3>1 DEF ReelsOnly
  <2>4. CASE Conversation /\ spc # "result"
    <3>1. \E K : Carries(K)
      BY <2>4 DEF Conversation, Unserved, Answered, Idle, TypeOK
    <3> QED
      BY <2>2, <2>4, <3>1
  <2>5. CASE Overtaken
    <3>1. /\ spc \in {"await", "top", "play"}
          /\ inbox = <<Start>> \/ \E k \in {"s", "q"} : inbox = <<Key(k), Start>>
      BY <2>5 DEF Overtaken, Answered
    <3>2. Head(inbox) = Start \/ \E k \in {"s", "q"} : Head(inbox) = Key(k)
      BY <3>1
    <3>3. Start.type # "result" /\ \A k : Key(k).type # "result"
      BY DEF Start, Key
    <3> QED
      BY <3>1, <3>2, <3>3
  <2> QED
    BY <2>3, <2>4, <2>5
<1> QED
  BY <1>1, SlotTypes, SlotConversation, PTL

(* A socket that holds the start signal and one key, or the reels, holds at *)
(* most one request; a socket that only holds the start signal holds none.  *)
LEMMA RequestsInFlight ==
    ASSUME TypeOK
    PROVE  /\ \A K : Carries(K) => Cardinality(Requests) <= 1
           /\ ReelsOnly => Cardinality(Requests) <= 1
           /\ Carries({}) \/ inbox = <<>> => Cardinality(Requests) = 0
           /\ Overtaken => Cardinality(Requests) <= 1
<1> DEFINE last == {Len(inbox)}
<1>1. IsFiniteSet(last) /\ Cardinality(last) = 1
  BY FS_Singleton
<1>2. Requests \subseteq last => Cardinality(Requests) <= 1
  BY <1>1, FS_Subset
<1>3. Len(inbox) \in Nat
  BY LenProperties DEF TypeOK
<1>4. \A K : Carries(K) => Requests \subseteq last
  BY DEF Carries, Requests
<1>5. ReelsOnly => Requests \subseteq last
  BY <1>3 DEF ReelsOnly, Requests
<1>6. Carries({}) \/ inbox = <<>> => Requests = {}
  BY DEF Carries, Requests
<1>7. Overtaken => Cardinality(Requests) <= 1
  <2>1. CASE \E k \in {"s", "q"} : inbox = <<Key(k), Start>>
    <3>1. Requests \subseteq {1}
      BY <2>1 DEF Requests
    <3>2. IsFiniteSet({1}) /\ Cardinality({1}) = 1
      BY FS_Singleton
    <3>3. Cardinality(Requests) <= Cardinality({1})
      BY <3>1, <3>2, FS_Subset
    <3> QED
      BY <3>2, <3>3
  <2>2. CASE inbox = <<Start>>
    <3>1. Requests \subseteq {}
      BY <2>2 DEF Requests
    <3> QED
      BY <3>1, FS_EmptySet
  <2>3. CASE inbox = <<>>
    BY <2>3, <1>6, FS_EmptySet
  <2> QED
    BY <2>1, <2>2, <2>3 DEF Overtaken, Answered
<1> QED
  BY <1>2, <1>4, <1>5, <1>6, <1>7, FS_EmptySet

(* Never two requests, two replies, or a request and a reply in flight, and *)
(* none between rounds: the discipline that stands in for a type and a      *)
(* number on the replies.                                                   *)
THEOREM SlotStopAndWait ==
    ASSUME "duplicate" \notin Faults, "reorder" \in Faults => InitCoin > 0
    PROVE  Spec => []StopAndWait
<1>1. TypeOK /\ InConversation => StopAndWait
  <2> SUFFICES ASSUME TypeOK, Conversation \/ Overtaken
               PROVE  Cardinality(Requests) + Len(replies) <= IF cpc \in Idle THEN 0 ELSE 1
    BY DEF InConversation, StopAndWait
  <2>1. CASE cpc \in Idle
    <3>0. Conversation
      BY <2>1 DEF Overtaken, Idle
    <3>1. Cardinality(Requests) = 0 /\ Len(replies) = 0
      BY <2>1, <3>0, RequestsInFlight DEF Conversation, Unserved
    <3> QED
      BY <2>1, <3>1
  <2>2. CASE cpc \notin Idle
    <3>1. \/ replies = <<>> /\ ((\E K : Carries(K)) \/ ReelsOnly \/ inbox = <<>> \/ Overtaken)
          \/ inbox = <<>> /\ Len(replies) <= 1
      <4>1. CASE Conversation
        BY <2>2, <4>1 DEF Conversation, Unserved, Answered, Idle, TypeOK
      <4>2. CASE Overtaken
        BY <4>2 DEF Overtaken, Answered
      <4> QED
        BY <4>1, <4>2
    <3>2. CASE replies = <<>> /\ ((\E K : Carries(K)) \/ ReelsOnly \/ inbox = <<>> \/ Overtaken)
      <4>1. Cardinality(Requests) \in {0} \/ Cardinality(Requests) <= 1
        BY <3>2, RequestsInFlight
      <4>2. Len(replies) = 0
        BY <3>2
      <4>3. Cardinality(Requests) \in Nat
        <5>1. IsFiniteSet(1 .. Len(inbox))
          BY FS_Interval, LenProperties DEF TypeOK
        <5> QED
          BY <5>1, FS_Subset, FS_CardinalityType DEF Requests
      <4> QED
        BY <2>2, <4>1, <4>2, <4>3
    <3>3. CASE inbox = <<>> /\ Len(replies) <= 1
      <4>1. Cardinality(Requests) = 0 /\ Len(replies) \in Nat
        BY <3>3, RequestsInFlight, LenProperties DEF TypeOK
      <4> QED
        BY <2>2, <3>3, <4>1
    <3> QED
      BY <3>1, <3>2, <3>3
  <2> QED
    BY <2>1, <2>2
<1> QED
  BY <1>1, SlotTypes, SlotConversation, PTL

-----------------------------------------------------------------------------
(* The server's money.                                                     *)

(* The server keeps to the ledger on every network, with any faults and    *)
(* any keys: its steps are ledger steps or leave the account alone.        *)
THEOREM SlotImplementsLedger == Spec => ImplementsLedger
<1>1. Init => Ledger!Init
  BY DEF Init, Ledger!Init, Phase
<1>2. TypeOK /\ [Next]_vars => [Ledger!Next]_<<scoin, Phase>>
  <2> SUFFICES ASSUME TypeOK, [Next]_vars
               PROVE  Ledger!Next \/ (scoin' = scoin /\ Phase' = Phase)
    OBVIOUS
  <2>1. CASE ServerBoot
    <3>1. scoin' = scoin /\ spc = "boot" /\ spc' \in {"await", "exited"}
      BY <2>1 DEF ServerBoot
    <3> QED
      BY <3>1 DEF Ledger!Next, Ledger!Close, Phase
  <2>2. CASE ServerFirst \/ ServerTopPlay \/ ServerTopTimeout \/ ServerIgnore
    <3>1. /\ scoin' = scoin /\ spc \in {"await", "top", "play"}
          /\ spc' \in {"top", "play"}
      BY <2>2 DEF ServerFirst, ServerTopPlay, ServerTopTimeout, ServerIgnore, svars
    <3> QED
      BY <3>1 DEF Phase
  <2>3. CASE ServerTopRestart
    <3>1. /\ spc = "top" /\ scoin <= 0
          /\ \/ scoin' = 10 /\ spc' = "exited"
             \/ scoin' = scoin /\ spc' = "play"
      BY <2>3 DEF ServerTopRestart, CLIENT_GAME_COST
    <3> QED
      BY <3>1 DEF Ledger!Next, Ledger!Restart, Ledger!Cost, Phase
  <2>4. CASE ServerStop
    <3>1. spc = "play" /\ spc' = "result" /\ scoin' = scoin - 10
      BY <2>4 DEF ServerStop
    <3> QED
      BY <3>1 DEF Ledger!Next, Ledger!Stop, Ledger!Cost, Phase
  <2>5. CASE ServerQuit
    <3>1. spc = "play" /\ spc' = "exited" /\ scoin' = scoin
      BY <2>5 DEF ServerQuit
    <3> QED
      BY <3>1 DEF Ledger!Next, Ledger!Close, Phase
  <2>6. CASE ServerResult
    <3>1. /\ spc = "result" /\ spc' = "top"
          /\ \E reward \in {0, 10, 100, 1000} : scoin' = scoin + reward
      BY <2>6, RewardsType DEF ServerResult
    <3> QED
      BY <3>1 DEF Ledger!Next, Ledger!Settle, Ledger!Prizes, Phase
  <2>7. CASE \/ UserTypes \/ ClientStart \/ ClientHome \/ ClientButton \/ ClientDies
             \/ Client
    <3>1. UNCHANGED svars
      BY <2>7 DEF UserTypes, ClientStart, ClientHome, ClientButton, Client,
                  ClientTopSpin, ClientTopGameOver, ClientPrompt, ClientGetsRestart,
                  ClientKey, ClientGetsCoin, ClientGetsEnd, ClientReport,
                  ClientGetsReward, ClientWakes, ClientDies
    <3> QED
      BY <3>1 DEF svars, Phase
  <2>8. CASE UNCHANGED vars
    BY <2>8 DEF vars, svars, Phase
  <2> QED
    BY <2>1, <2>2, <2>3, <2>4, <2>5, <2>6, <2>7, <2>8 DEF Next, Server
<1> QED
  BY <1>1, <1>2, SlotTypes, PTL DEF Spec, ImplementsLedger, Ledger!Spec
=============================================================================
